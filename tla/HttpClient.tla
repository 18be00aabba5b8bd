------------------------------ MODULE HttpClient ------------------------------
(***************************************************************************)
(* The http client that fetches media (src/dueros/src/lightduer_src/       *)
(* modules/HTTP/lightduer_http_client.c): one get follows redirections,    *)
(* takes the body in chunks or by its length through a small buffer, hands *)
(* it to a handler, and when the connection breaks asks again for what is  *)
(* missing.  A connection may be kept for the next get for a while.        *)
(*                                                                         *)
(* A byte of the body is its place in the body; the bytes between chunks   *)
(* are negative numbers.                                                   *)
(***************************************************************************)
EXTENDS Integers, Sequences

CONSTANTS
    MaxLen,                  \* bytes the buffers take (1024)
    BodyLen,                 \* bytes of the medium
    ChunkSizes,              \* sizes of the chunks a server makes
    Hosts,                   \* hosts of the urls
    RESUME_COUNT_MAX,        \* the code's 10
    REDIRECTION_MAX          \* the code's 30

VARIABLES
    at,         \* where duer_http_get is, "idle" between two calls
    retries,    \* resume_retry_count
    redirects,  \* redirect_count
    url,        \* the url of this try: its host, port (0: none) and colon in the path
    port,       \* the port of this try: that of the last one at first
    pos,        \* where in the medium the get begins
    recv_size,
    content_len,
    chunked,    \* n_is_chunked
    connection, \* last_host and last_port of an open connection, or Nowhere
    keeping,    \* connect_keep_timer runs
    stream,     \* what the server has sent and is not read yet
    buf,        \* what is read and not handled
    chunk_buf,  \* p_chunk_buf
    chunk_size, \* sz_chunk_size
    left,       \* need_to_read
    stop,       \* what check_stop_notify_cb says
    ret,        \* what the step under way, or the get, returns
    got,        \* history: bytes handed to the handler
    inOrder,    \* history: they came one after the other
    excused     \* history: "redirections" or "length", if that happened

goal == <<url, port, redirects>>
size == <<recv_size, content_len, chunked>>
link == <<connection, stream>>
buffers == <<buf, chunk_buf, chunk_size, left>>
heard == <<got, inOrder>>
httpVars == <<at, retries, goal, pos, size, link, keeping, buffers, stop, ret, heard, excused>>

None == "none"
Nowhere == <<>>
CR == -1
LF == -2
Digit(n) == -10 - n
SizeOf(digit) == -10 - digit
SIZE_MAX == 4 * BodyLen      \* more than there ever is to read
Urls == [host : Hosts, port : {0, 8080}, colon : BOOLEAN]

Init ==
    /\ at = "idle" /\ retries = 0 /\ redirects = 0 /\ port = 0 /\ pos = 0
    /\ url \in [host : Hosts, port : {0}, colon : {FALSE}]
    /\ recv_size = 0 /\ content_len = 0 /\ chunked = FALSE
    /\ connection = Nowhere /\ keeping = FALSE /\ stream = <<>>
    /\ buf = <<>> /\ chunk_buf = <<>> /\ chunk_size = 0 /\ left = 0
    /\ stop = FALSE /\ ret = "OK" /\ got = 0 /\ inOrder = TRUE /\ excused = None
-----------------------------------------------------------------------------
(* What the server sends.                                                  *)
\* A layout says where in n bytes each chunk ends; behind the last one comes a
\* chunk of no bytes.
Start(ends, j) == IF j = 1 THEN 0 ELSE ends[j - 1]
SizeIn(ends, j) == IF j \in DOMAIN ends THEN ends[j] - Start(ends, j) ELSE 0
Layouts(n) ==
    {ends \in UNION {[1 .. m -> 1 .. n] : m \in 0 .. n} :
        /\ n = Start(ends, Len(ends) + 1)
        /\ \A i, j \in DOMAIN ends : i < j => ends[i] < ends[j]
        /\ \A j \in DOMAIN ends : SizeIn(ends, j) \in ChunkSizes}
Bytes(first, n) == [i \in 1 .. n |-> first + i - 1]
\* A chunk: its size and a line end, its bytes from "first" on, and a line end.
ChunkByte(first, n, k) ==
    CASE k = 1 -> Digit(n)
      [] k \in {2, n + 4} -> CR
      [] k \in {3, n + 5} -> LF
      [] OTHER -> first + k - 4
Offset(ends, j) == Start(ends, j) + 5 * (j - 1)
InChunks(first, ends) ==
    [i \in 1 .. Offset(ends, Len(ends) + 1) + 5 |->
        LET j == CHOOSE c \in 1 .. Len(ends) + 1 :
                   i \in Offset(ends, c) + 1 .. Offset(ends, c) + SizeIn(ends, c) + 5
        IN ChunkByte(first + Start(ends, j), SizeIn(ends, j), i - Offset(ends, j))]
-----------------------------------------------------------------------------
(* duer_http_recv.  With to_try it waits until all is there, the server    *)
(* closes, two seconds passed too often or the child stops; without, it    *)
(* takes what is there.                                                    *)
Received(max, to_try) ==
    LET there == IF Len(stream) < max THEN Len(stream) ELSE max
        broken == [n : 0 .. there, res : {"CLOSED", "CONNECT"}]
    IN IF max = 0 THEN {[n |-> 0, res |-> "OK"]}
       ELSE IF to_try
         THEN {[n |-> max, res |-> "OK"] : i \in {j \in {1} : there = max}}
              \cup {b \in broken : b.n < max}
              \cup (IF stop THEN [n : 0 .. there, res : {"OK"}] ELSE {})
       ELSE {[n |-> n, res |-> "OK"] : n \in 0 .. there} \cup {[n |-> 0, res |-> "CLOSED"], [n |-> 0, res |-> "CONNECT"]}
Reads(r) == stream' = SubSeq(stream, r.n + 1, Len(stream))
Drop(s, n) == SubSeq(s, n + 1, Len(s))

\* The callback data_hdlr_cb.
Hands(bytes) ==
    /\ got' = got + Len(bytes)
    /\ inOrder' = (inOrder /\ \A i \in 1 .. Len(bytes) : bytes[i] = pos + got + i)
    /\ recv_size' = recv_size + Len(bytes)
-----------------------------------------------------------------------------
(* Connecting.                                                             *)

\* The timer is left running.
GetKeepsTimer ==
    /\ at = "idle" /\ at' = "try"
    /\ url' \in Urls /\ pos' \in {0, 1}
    /\ retries' = 0 /\ recv_size' = pos' /\ content_len' = 0 /\ port' = 0
    /\ got' = 0 /\ inOrder' = TRUE /\ excused' = None /\ stop' = FALSE /\ ret' = "OK"
    /\ UNCHANGED <<redirects, chunked, link, keeping, buffers>>
\* duer_http_get; the connection kept from the last get is not closed any
\* more by its timer.
Get ==
    /\ at = "idle" /\ keeping' = FALSE
    /\ url' \in Urls /\ pos' \in {0, 1}
    /\ retries' = 0 /\ recv_size' = pos' /\ content_len' = 0 /\ port' = 0
    /\ got' = 0 /\ inOrder' = TRUE /\ excused' = None /\ stop' = FALSE
    /\ \/ at' = "try" /\ ret' = "OK"
       \/ at' = "end" /\ ret' = "FAILED"
    /\ UNCHANGED <<redirects, chunked, link, buffers>>

\* The next try, at the first url again.
Try ==
    /\ at = "try" /\ redirects' = 0
    /\ at' = IF retries > RESUME_COUNT_MAX \/ stop THEN "end" ELSE "connect"
    /\ port' = 0 /\ buf' = <<>> /\ chunk_size' = 0 /\ left' = 0 /\ chunked' = FALSE
    /\ UNCHANGED <<retries, url, pos, recv_size, content_len, link, keeping, chunk_buf, stop, ret, heard, excused>>
Again(why) == at' = "try" /\ retries' = retries + 1 /\ ret' = why
GivesUp(why) == at' = "end" /\ ret' = why /\ UNCHANGED retries

\* duer_http_parse_url and the default: a colon in the path hides that there
\* is no port, and the last one stays.
PortOf(u) == LET p == IF u.port = 0 /\ u.colon THEN port ELSE u.port
             IN IF p = 0 THEN 80 ELSE p

\* duer_http_socket_connect: a connection to the same place is used again if
\* it is alive; another is closed.
Connect ==
    /\ at = "connect" /\ port' = PortOf(url) /\ stream' = <<>>
    /\ \/ connection = <<url.host, port'>> /\ at' = "ask" /\ UNCHANGED <<connection, retries, ret>>
       \/ connection' = <<url.host, port'>> /\ at' = "ask" /\ UNCHANGED <<retries, ret>>
       \/ connection' = Nowhere /\ (Again("CONNECT") \/ GivesUp("FAILED"))
    /\ UNCHANGED <<url, redirects, pos, size, keeping, buffers, stop, heard, excused>>

\* duer_http_send: one send of the operating system; a part counts as all.
Sent == {"OK", "CLOSED", "CONNECT"}
Refused(why) == IF why = "CONNECT" THEN Again(why) ELSE GivesUp(why)
AskFails(whys) ==
    /\ at = "ask" /\ \E why \in whys \ {"OK"} : Refused(why)
    /\ UNCHANGED <<goal, pos, size, link, keeping, buffers, stop, heard, excused>>

\* duer_http_send_request, with Range when some of the medium is there: every
\* failure of the socket counts as one of the connection.
SendRequestFails == AskFails({"FAILED"} \cup {"CONNECT" : w \in Sent})
\* duer_http_send_headers: an empty line is all, nobody sets others.
SendHeadersFails == AskFails({"FAILED"} \cup Sent)
\* duer_http_recv_rsp_and_parse: less than a hundred bytes, no line, no number
\* in it, none from 200 to 399, or 200 for a part: the server does not know Range.
RspFails == AskFails({"CONNECT", "PRTCL"})
Ask ==
    /\ at = "ask" /\ at' = "headers"
    /\ UNCHANGED <<retries, ret, goal, pos, size, link, keeping, buffers, stop, heard, excused>>

\* The first lines of duer_http_recv_content_data: need_to_read is a size_t.
ContentBegins(length, rest) ==
    LET need == IF length < recv_size THEN SIZE_MAX ELSE length - recv_size
    IN IF Len(rest) > need
         THEN GivesUp("FAILED") /\ buf' = <<>> /\ UNCHANGED left
         ELSE at' = "content" /\ buf' = rest /\ left' = need - Len(rest) /\ UNCHANGED <<retries, ret>>

\* duer_http_recv_headers_and_parse: a connection that is closed now is not
\* tried again.
HeadersFail ==
    /\ at = "headers"
    /\ \/ \E why \in {"CLOSED", "PRTCL", "FAILED"} : GivesUp(why)
       \/ Again("CONNECT")
    /\ chunked' = FALSE
    /\ UNCHANGED <<goal, pos, recv_size, content_len, link, keeping, buffers, stop, heard, excused>>
\* duer_http_parse_redirect_location: another url, or a path on the same host.
Location == Urls \cup {[url EXCEPT !.port = port]}
\* A redirection is followed, and one too many is taken for an answer, with
\* what was read behind it.
Redirected ==
    /\ at = "headers" /\ redirects' = redirects + 1
    /\ connection' = Nowhere /\ stream' = <<>> /\ chunked' = FALSE
    /\ url' \in Location
    /\ content_len' \in {content_len, recv_size, recv_size + 2}
    /\ IF redirects' <= REDIRECTION_MAX
         THEN at' = "connect" /\ buf' = <<>> /\ UNCHANGED <<left, excused, retries, ret>>
         ELSE excused' = "redirections" /\ \E rest \in {<<>>, <<CR, LF>>} : ContentBegins(content_len', rest)
    /\ UNCHANGED <<port, pos, recv_size, keeping, chunk_buf, chunk_size, stop, heard>>

\* The server answers with chunks, or with a length, or with neither: then the
\* length of an earlier answer counts.  Some of the body was read behind the
\* headers.
Answered ==
    /\ at = "headers"
    /\ LET rest == IF recv_size < BodyLen THEN BodyLen - recv_size ELSE 0
       IN \/ /\ chunked' = TRUE /\ at' = "size" /\ chunk_buf' = <<>> /\ buf' = <<>>
             /\ \E ends \in Layouts(rest) : stream' = InChunks(recv_size + 1, ends)
             /\ UNCHANGED <<content_len, left, excused, retries, ret>>
          \/ /\ chunked' = FALSE /\ UNCHANGED chunk_buf
             /\ \/ content_len' = rest + recv_size /\ UNCHANGED excused
                \/ UNCHANGED content_len
                   /\ excused' = IF excused = None THEN "length" ELSE excused
             /\ \E k \in {0, 1} :
                  /\ k <= rest /\ stream' = Bytes(recv_size + 1 + k, rest - k)
                  /\ ContentBegins(content_len', Bytes(recv_size + 1, k))
    /\ UNCHANGED <<goal, pos, recv_size, connection, keeping, chunk_size, stop, heard>>
-----------------------------------------------------------------------------
(* duer_http_recv_content_data.                                            *)
\* What broke is taken for the end.
EndedWell(res) == GivesUp("OK")
Ended(res) ==
    IF res \in {"CLOSED", "CONNECT"} THEN Again(res) ELSE GivesUp(res)

Content ==
    /\ at = "content"
    /\ IF (left = 0 /\ buf = <<>>) \/ stop
         THEN GivesUp("OK") /\ UNCHANGED <<recv_size, link, buffers, heard>>
         ELSE \E r \in Received(IF MaxLen - Len(buf) > left THEN left ELSE MaxLen - Len(buf), TRUE) :
              /\ Reads(r) /\ left' = left - r.n
              /\ Hands(buf \o SubSeq(stream, 1, r.n)) /\ buf' = <<>>
              /\ IF r.res # "OK" THEN Ended(r.res)
                 ELSE IF left' > 0 /\ r.n = 0 /\ buf = <<>> THEN GivesUp("FAILED")
                 ELSE UNCHANGED <<at, retries, ret>>
              /\ UNCHANGED <<connection, chunk_buf, chunk_size>>
    /\ UNCHANGED <<goal, pos, content_len, chunked, keeping, stop, excused>>
-----------------------------------------------------------------------------
(* duer_http_recv_chunk.                                                   *)

\* p_chunk_buf takes bytes; when it is full it is handed on and the rest
\* stays in it.
Collects(bytes) ==
    IF Len(chunk_buf) + Len(bytes) >= MaxLen
      THEN LET n == MaxLen - Len(chunk_buf)
           IN Hands(chunk_buf \o SubSeq(bytes, 1, n)) /\ chunk_buf' = Drop(bytes, n)
      ELSE chunk_buf' = chunk_buf \o bytes /\ UNCHANGED <<got, inOrder, recv_size>>

\* RET: what p_chunk_buf holds goes out, but not when the connection broke.
\* Also when it broke.
ChunkRetFlushes(res) ==
    /\ got' = got + Len(chunk_buf)
    /\ inOrder' = (inOrder /\ \A i \in 1 .. Len(chunk_buf) : chunk_buf[i] = pos + got + i)
    /\ chunk_buf' = <<>> /\ Ended(res) /\ UNCHANGED recv_size
ChunkRet(res) ==
    /\ IF res = "OK" THEN Hands(chunk_buf) ELSE UNCHANGED <<got, inOrder, recv_size>>
    /\ chunk_buf' = <<>> /\ Ended(res)

\* duer_http_recv_chunked_size: the line ends before the last two bytes that
\* were read.
LineEnds == {i \in 1 .. Len(buf) - 2 : buf[i] = CR /\ buf[i + 1] = LF}
ChunkSize ==
    /\ at = "size"
    /\ IF stop THEN ChunkRet("OK") /\ UNCHANGED <<stream, buf, chunk_size, left>>
       ELSE IF LineEnds # {}
         THEN LET i == CHOOSE j \in LineEnds : \A k \in LineEnds : j <= k
              IN /\ chunk_size' = SizeOf(buf[1]) /\ buf' = Drop(buf, i + 1)
                 /\ at' = "chunk"
                 /\ UNCHANGED <<stream, chunk_buf, left, retries, ret, heard, recv_size>>
       ELSE IF Len(buf) >= MaxLen
         THEN ChunkRet("PRTCL") /\ UNCHANGED <<stream, buf, chunk_size, left>>
       ELSE \E r \in Received(MaxLen - Len(buf), FALSE) :
            /\ Reads(r) /\ buf' = buf \o SubSeq(stream, 1, r.n)
            /\ IF r.res = "OK"
                 THEN UNCHANGED <<at, chunk_buf, retries, ret, heard, recv_size>>
                 ELSE ChunkRet(r.res)
            /\ UNCHANGED <<chunk_size, left>>
    /\ UNCHANGED <<goal, pos, content_len, chunked, connection, keeping, stop, excused>>

\* A chunk that fits the buffer with the line end behind it.
Fits == chunk_size + 2 <= MaxLen
SmallChunk ==
    /\ at = "chunk" /\ Fits
    /\ IF chunk_size = 0 \/ stop
         THEN ChunkRet("OK") /\ UNCHANGED <<stream, buf>>
         ELSE \E r \in Received(IF Len(buf) < chunk_size + 2 THEN chunk_size + 2 - Len(buf) ELSE 0, TRUE) :
              LET all == buf \o SubSeq(stream, 1, r.n)
              IN /\ Reads(r)
                 /\ IF r.res # "OK" THEN ChunkRet(r.res) /\ UNCHANGED buf
                    ELSE IF Len(all) < chunk_size + 2 THEN ChunkRet("PRTCL") /\ UNCHANGED buf
                    ELSE /\ Collects(SubSeq(all, 1, chunk_size))
                         /\ buf' = Drop(all, chunk_size + 2)
                         /\ IF all[chunk_size + 1] = CR /\ all[chunk_size + 2] = LF
                              THEN at' = "size" /\ UNCHANGED <<retries, ret>>
                              ELSE GivesUp("PRTCL")
    /\ UNCHANGED <<goal, pos, content_len, chunked, connection, keeping, chunk_size, left, stop, excused>>

\* A larger one is read in parts.
LargeChunk ==
    /\ at = "chunk" /\ ~Fits
    /\ IF stop THEN ChunkRet("OK") /\ UNCHANGED left
       ELSE IF chunk_size <= Len(buf) THEN ChunkRet("FAILED") /\ UNCHANGED left
       ELSE /\ at' = "large" /\ left' = chunk_size - Len(buf)
            /\ UNCHANGED <<chunk_buf, retries, ret, heard, recv_size>>
    /\ UNCHANGED <<goal, pos, content_len, chunked, link, keeping, buf, chunk_size, stop, excused>>
LargePart ==
    /\ at = "large" /\ left > 0
    /\ IF stop THEN ChunkRet("OK") /\ UNCHANGED <<stream, buf, left>>
       ELSE \E r \in Received(IF MaxLen - Len(buf) > left THEN left ELSE MaxLen - Len(buf), TRUE) :
            /\ Reads(r) /\ left' = left - r.n
            /\ IF r.res # "OK" THEN ChunkRet(r.res) /\ UNCHANGED buf
               ELSE /\ Collects(buf \o SubSeq(stream, 1, r.n)) /\ buf' = <<>>
                    /\ UNCHANGED <<at, retries, ret>>
    /\ UNCHANGED <<goal, pos, content_len, chunked, connection, keeping, chunk_size, stop, excused>>
LargeEnds ==
    /\ at = "large" /\ left = 0
    /\ \E r \in Received(2, TRUE) :
          /\ Reads(r)
          /\ IF r.res = "OK" /\ SubSeq(stream, 1, r.n) = <<CR, LF>>
               THEN at' = "size" /\ UNCHANGED <<chunk_buf, retries, ret, heard, recv_size>>
               ELSE ChunkRet(IF r.res = "OK" THEN "PRTCL" ELSE r.res)
    /\ UNCHANGED <<goal, pos, content_len, chunked, connection, keeping, buf, chunk_size, left, stop, excused>>
-----------------------------------------------------------------------------
\* RET of duer_http_get: the connection is kept only after a get that was well,
\* for a caller who wants that, and if there is a timer to end it; what the
\* next get sets anyway is reset.
GetEnds ==
    /\ at = "end" /\ at' = "idle"
    /\ buf' = <<>> /\ chunk_buf' = <<>> /\ chunk_size' = 0 /\ left' = 0 /\ stream' = <<>>
    /\ content_len' = 0 /\ chunked' = FALSE /\ retries' = 0 /\ redirects' = 0
    /\ \/ connection' = Nowhere /\ UNCHANGED <<keeping, ret>>
       \/ /\ ~stop /\ ret = "OK"
          /\ keeping' = TRUE /\ UNCHANGED <<connection, ret>>
       \/ /\ ~stop /\ ret = "OK" /\ connection' = Nowhere /\ ret' = "FAILED" /\ UNCHANGED keeping
    /\ UNCHANGED <<url, port, pos, recv_size, stop, heard, excused>>

\* duer_http_conn_keep_timer_cb
KeepTimerEnds ==
    /\ keeping /\ keeping' = FALSE /\ connection' = Nowhere /\ stream' = <<>>
    /\ UNCHANGED <<at, retries, goal, pos, size, buffers, stop, ret, heard, excused>>

\* The child wants something else.
Stops ==
    /\ at # "idle" /\ ~stop /\ stop' = TRUE
    /\ UNCHANGED <<at, retries, goal, pos, size, link, keeping, buffers, ret, heard, excused>>

Next == \/ Get \/ Try \/ Connect \/ SendRequestFails \/ SendHeadersFails \/ RspFails
        \/ Ask \/ HeadersFail \/ Redirected \/ Answered
        \/ Content \/ ChunkSize \/ SmallChunk \/ LargeChunk \/ LargePart \/ LargeEnds
        \/ GetEnds \/ KeepTimerEnds \/ Stops
Spec == Init /\ [][Next]_httpVars
-----------------------------------------------------------------------------
HttpTypeOK ==
    /\ retries \in 0 .. RESUME_COUNT_MAX + 1 /\ redirects \in 0 .. REDIRECTION_MAX + 1
    /\ recv_size \in Nat /\ left \in 0 .. SIZE_MAX /\ chunk_size \in 0 .. BodyLen
    /\ Len(buf) <= MaxLen /\ Len(chunk_buf) <= MaxLen
    /\ ret \in {"OK", "FAILED", "CONNECT", "CLOSED", "PRTCL"}

\* However the body is cut into chunks and reads, and however often the
\* connection breaks in the middle: the handler gets the bytes of the medium
\* one after the other, none twice, and recv_size, from which the next try
\* goes on, counts exactly those.  Only the page of a redirection too many is
\* taken for the medium.
BodyComesInOrder ==
    /\ recv_size = pos + got
    /\ excused # "redirections" => inOrder /\ recv_size <= BodyLen

\* A get that says it is well has handed on the whole medium, unless the child
\* stopped it, it was sent around too often, or the server did not say how
\* long the medium is.
OkIsWhole ==
    at = "idle" /\ ret = "OK" /\ ~stop /\ got > 0 /\ excused \notin {"redirections", "length"}
        => pos + got = BodyLen

\* Between two gets a connection is open exactly while its timer runs, and
\* during a get nobody else closes it.
KeptIsTimed ==
    /\ keeping => at = "idle"
    /\ at = "idle" => (connection # Nowhere => keeping)

\* What every step keeps.  Bytes are numbered from the one behind "after" on.
Follow(bytes, after) == \A i \in 1 .. Len(bytes) : bytes[i] = after + i
\* Of what was sent, e bytes are handled, the next are taken and the rest follow.
Handled(sent, e, taken, rest) ==
    /\ e + Len(taken) + Len(rest) = Len(sent)
    /\ \A i \in 1 .. Len(taken) : taken[i] = sent[e + i]
    /\ \A i \in 1 .. Len(rest) : rest[i] = sent[e + Len(taken) + i]
\* The rest of a body that came with its length.
InBody(taken, rest, after, need, why) ==
    /\ Follow(taken, after) /\ Follow(rest, after + Len(taken))
    /\ after + Len(taken) + Len(rest) <= BodyLen
    /\ why # "length" => need = BodyLen - after - Len(taken)
\* In the chunk j, with all of the medium up to "after" taken out of the chunks.
Within(where, first, ends, j, e, after, taken, part, need) ==
    /\ j \in 1 .. Len(ends) + 1
    /\ where = "size" => e = Offset(ends, j) /\ after + 1 = first + Start(ends, j)
    /\ where = "chunk" => /\ e = Offset(ends, j) + 3 /\ after + 1 = first + Start(ends, j)
                          /\ part = SizeIn(ends, j)
    /\ where = "large" =>
         /\ SizeIn(ends, j) > 0 /\ (need = 0 => taken = <<>>)
         /\ e + Len(taken) + need = Offset(ends, j) + 3 + SizeIn(ends, j)
         /\ after + 1 + Len(taken) + need = first + Start(ends, j) + SizeIn(ends, j)
         /\ e >= Offset(ends, j) + 3
InChunk(where, after, taken, rest, part, need, why) ==
    \E first \in 1 .. after + 1, n \in 0 .. BodyLen : \E ends \in Layouts(n) :
        LET sent == InChunks(first, ends)
        IN \E j \in 1 .. n + 1, e \in 0 .. Len(sent) :
        /\ why # "redirections" => first + n = BodyLen + 1
        /\ Handled(sent, e, taken, rest)
        /\ Within(where, first, ends, j, e, after, taken, part, need)
\* Where the get is, and how often it may have tried.
HttpPhase ==
    /\ at \in {"idle", "try", "connect", "ask", "headers", "content", "size", "chunk", "large", "end"}
    /\ at \in {"connect", "ask", "headers"} => redirects <= REDIRECTION_MAX
    /\ at \notin {"idle", "try", "end"} => retries <= RESUME_COUNT_MAX
    /\ at = "try" /\ ret = "OK" => retries = 0
\* What it has counted.
HttpCounts ==
    /\ pos \in 0 .. 1 /\ got \in Nat /\ recv_size = pos + got
    /\ content_len \in Nat /\ content_len <= recv_size + SIZE_MAX
    /\ stream \in Seq(Int) /\ buf \in Seq(Int) /\ chunk_buf \in Seq(Int)
    /\ stop \in BOOLEAN /\ excused \in {None, "redirections", "length"}
\* Unless a redirection mixed two answers, the bytes came in order and are no more than the medium.
HttpOrder ==
    /\ inOrder \in BOOLEAN
    /\ excused # "redirections" => inOrder /\ recv_size <= BodyLen
\* What the buffer and the wire hold of a body is what comes next in the medium.
BodyIsNext ==
    at = "content" /\ excused # "redirections" => InBody(buf, stream, recv_size, left, excused)
\* Also between the chunks what is held and what is still sent continue the medium.
ChunkIsNext ==
    at \in {"size", "chunk", "large"} =>
       /\ Follow(chunk_buf, recv_size)
       /\ InChunk(at, recv_size + Len(chunk_buf), buf, stream, chunk_size, left, excused)
\* A get that ended well has all of the medium.
EndIsWhole ==
    at \in {"end", "idle"} /\ ret = "OK" /\ ~stop /\ got > 0 /\ excused \notin {"redirections", "length"}
        => recv_size = BodyLen
\* The inductive invariant of the client: its types, its timer and each part above.
HttpInv ==
    /\ HttpTypeOK /\ KeptIsTimed /\ HttpPhase /\ HttpCounts
    /\ HttpOrder /\ BodyIsNext /\ ChunkIsNext /\ EndIsWhole
=============================================================================
