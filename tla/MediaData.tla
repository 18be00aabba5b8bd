------------------------------ MODULE MediaData ------------------------------
(***************************************************************************)
(* How the bytes of a medium become commands of the player, in the         *)
(* manager's thread (baidu_media_data_manager.cpp): cut into frames, the   *)
(* first one with START and the last one with STOP, without the tag in     *)
(* front of an MP3, and with the header of a WAV again when it goes on     *)
(* after a cut.  MediaPipeline says who asks for media and in which order. *)
(*                                                                         *)
(* A byte is its place in the medium, and the first "front" bytes are the  *)
(* tag or the header.  The player handles the first message within the     *)
(* 100 ms that the manager's thread gives it; MediaPipeline has the other  *)
(* case.                                                                   *)
(***************************************************************************)
EXTENDS Integers, Sequences

CONSTANTS
    FRAME_SIZE,        \* the largest piece of a message
    MIN_ID3V2_LENGTH,  \* a tag is looked for in a first piece longer than this
    WAV_HEADER,        \* the least size of a WAV's header
    VOICE_FRAME,       \* a decoded piece of a changed voice, larger than WAV_HEADER
    UrlPieces,         \* sizes of the pieces that come through HTTP
    Offered,           \* media: source, suffixes of the name, len and front
    QueueMax,          \* messages that fit into the play buffer
    MaxMedia,          \* bound: media that are asked for
    MaxCuts            \* bound: stops, and times a medium goes on

None == [source |-> "none", name |-> {}, len |-> 0, front |-> 0]

VARIABLES
    asked,     \* media asked for so far
    cuts,      \* stops so far
    medium,    \* the message the manager's thread works on
    position,  \* its position
    phase,     \* of the manager's thread
    at,        \* bytes it has taken from the source
    begun,     \* the first piece was handed over
    carry,     \* read_buff of a changed voice
    stop,      \* s_mdm_stop_flag
    out,       \* what mdm_media_data_out_handler leaves, see Out
    queue,     \* g_media_play_buffer, message by message
    status,    \* s_media_player_status
    written,   \* s_write_codec_size
    finished,  \* s_finished
    ends,      \* s_play_end_sem
    kept,      \* s_previous_media
    keptSize,  \* its write_size
    heard,     \* history: what the codec got of this medium since it was asked for
    again,     \* history: how often this medium went on
    past,      \* history: heard and again of the medium that is kept
    early      \* history: a medium was put away while it played
source == <<medium, position, phase, at, begun, carry>>
player == <<status, written, finished, ends, heard>>
mediaDataVars == <<asked, cuts, source, stop, out, queue, player, kept, keptSize, again, past,
                  early>>
-----------------------------------------------------------------------------
(* Which format, and whether it can be played.                             *)
KnownSuffixes == <<"mp3", "m4a", "aac", "wav", "ts", "m3u8", "amr">>
\* determine_media_type_by_suffix: the first suffix of the list the name holds;
\* a tone is MP3, a changed voice is WAV, and an address without suffix AMR.
Named(m) == SelectSeq(KnownSuffixes, LAMBDA s : s \in m.name)
MediaType(m) ==
    IF m.source = "data" THEN "mp3"
    ELSE IF m.source = "magic" THEN "wav"
    ELSE IF Named(m) # <<>> THEN Head(Named(m))
    ELSE IF m.source = "url" THEN "amr" ELSE "none"

\* is_support_wav_format: the first piece holds the smallest header.
SupportsWav(bytes) == Len(bytes) >= WAV_HEADER
SupportsFormat(bytes, type) ==
    \/ type \in {"mp3", "aac", "ts", "amr"}
    \/ type = "wav" /\ SupportsWav(bytes)
    \/ type = "m4a" /\ medium.front > 0   \* the box moov is in front
-----------------------------------------------------------------------------
(* mdm_media_data_out_handler.                                             *)
Fresh == [skip |-> -1, header |-> 0, refused |-> FALSE, sent |-> <<>>]
Piece(from, to) == [k \in 1..to - from |-> from + k]

\* A tag is one at the beginning of the medium.
TagIn(bytes) ==
    IF MediaType(medium) = "mp3" /\ Len(bytes) > MIN_ID3V2_LENGTH /\ Head(bytes) = 1
         /\ medium.front > 0
      THEN medium.front ELSE -1
\* save_wav_header: a header that ends in the first piece.
HeaderIn(bytes) == IF Len(bytes) >= medium.front THEN medium.front ELSE 0
Message(cmd, bytes) == [cmd |-> cmd, bytes |-> bytes]

\* A tag that is left over from the medium before.
TagLeft(o, first, bytes) == IF first /\ TagIn(bytes) > -1 THEN TagIn(bytes) ELSE o.skip
TagNow(o, first, bytes) == IF first THEN TagIn(bytes) ELSE o.skip
\* The record o after the handler was called with pos and bytes.
Out(o, pos, bytes) ==
    LET first == pos = "FIRST"
        continues == position > 0
        wav == first /\ MediaType(medium) = "wav"
        refuse == first /\ ~continues /\ ~SupportsFormat(bytes, MediaType(medium))
        header == IF wav /\ ~continues THEN HeaderIn(bytes) ELSE o.header
        twice == wav /\ continues /\ o.header > 0
        tag == TagNow(o, first, bytes)
        cmd == CASE twice \/ pos = "MID" -> "CONTINUE" [] first /\ ~twice -> "START" [] OTHER -> "STOP"
        front == IF twice THEN <<Message("START", Piece(0, o.header))>> ELSE <<>>
    IN CASE refuse -> [o EXCEPT !.refused = TRUE]
         [] ~refuse /\ tag >= Len(bytes) -> [o EXCEPT !.skip = tag - Len(bytes)]
         \* the piece in which the tag ends starts the player, even if it is the last
         [] ~refuse /\ tag \in 0..Len(bytes) - 1 ->
              [o EXCEPT !.skip = -1,
                        !.sent = @ \o <<Message("START", SubSeq(bytes, tag + 1, Len(bytes)))>>]
         [] OTHER -> [o EXCEPT !.skip = -1, !.header = header,
                               !.sent = @ \o front \o <<Message(cmd, bytes)>>]

\* The messages are in the buffer when the call is over; a format that is
\* refused stops the player and the source.
HandOver(o) ==
    /\ Len(queue) < QueueMax
    /\ queue' = queue \o o.sent /\ out' = [o EXCEPT !.sent = <<>>]
    /\ stop' = (stop \/ (o.refused /\ ~out.refused))
    /\ status' = IF o.refused /\ ~out.refused THEN "IDLE" ELSE status
    /\ UNCHANGED <<written, finished, ends, heard>>
-----------------------------------------------------------------------------
(* The sources.                                                            *)
Reading(kind) == phase = "read" /\ medium.source = kind
Goes == UNCHANGED <<asked, cuts, medium, position, kept, keptSize, again, past, early>>
Take(n) == at' = at + n /\ begun' = TRUE /\ UNCHANGED <<phase, carry>>
Finish(n) == at' = at + n /\ phase' = "wait" /\ UNCHANGED <<begun, carry>>
Rest == IF at < medium.len THEN medium.len - at ELSE 0
Frame == IF Rest < FRAME_SIZE THEN Rest ELSE FRAME_SIZE
NextPos == IF begun THEN "MID" ELSE "FIRST"

\* duer_http_get hands over pieces of any size; HttpClient says which.
UrlPiece(n) ==
    /\ Reading("url") /\ ~stop /\ n <= Rest
    /\ HandOver(Out(out, NextPos, Piece(at, at + n))) /\ Take(n) /\ Goes
\* All has come, the connection broke, or it was stopped.  The last piece is
\* empty, and there is none when there was no first one.
UrlEnds ==
    /\ Reading("url")
    /\ HandOver(IF begun THEN Out(out, "LAST", <<>>) ELSE out) /\ Finish(0) /\ Goes

\* A frame that is not full is the last one, unless it is the first one; behind
\* the end of the file there is no last one.
FilePiece ==
    /\ Reading("file")
    /\ IF stop
         THEN HandOver(Out(out, "LAST", <<>>)) /\ Finish(0)
       ELSE IF begun /\ Frame < FRAME_SIZE
         THEN HandOver(Out(out, "LAST", Piece(at, at + Frame))) /\ Finish(Frame)
         ELSE /\ HandOver(Out(out, NextPos, Piece(at, at + Frame)))
              /\ IF Frame = 0 THEN Finish(0) ELSE Take(Frame)
    /\ Goes

\* What is read is given out before the stop is looked at, and a tone of at
\* most one frame has no last piece.
DataPiece ==
    /\ Reading("data")
    /\ LET pos == IF begun /\ Rest <= FRAME_SIZE THEN "LAST" ELSE NextPos
           o == Out(out, pos, Piece(at, at + Frame))
       IN \/ /\ ~stop /\ ~o.refused
             /\ HandOver(o)
             /\ IF Frame = Rest THEN Finish(Frame) ELSE Take(Frame)
          \/ /\ stop
             /\ HandOver(IF pos = "LAST" THEN o ELSE Out(o, "LAST", <<>>)) /\ Finish(Frame)
    /\ Goes

\* One decoded piece of a changed voice, after the header that is made for it.
\* What fills a frame is given out; the last piece is added twice.
MagicPiece ==
    /\ Reading("magic") /\ ~stop
    /\ LET n == VOICE_FRAME
           piece == Piece(at, at + n)
           had == carry \o piece
           full == Len(had) >= FRAME_SIZE
           o == IF full THEN Out(out, NextPos, SubSeq(had, 1, FRAME_SIZE)) ELSE out
           left == IF full THEN SubSeq(had, FRAME_SIZE + 1, Len(had)) ELSE had
           end == left \o piece
       IN IF n < Rest
            THEN /\ HandOver(o) /\ carry' = left /\ at' = at + n
                 /\ begun' = (begun \/ full) /\ UNCHANGED phase
            ELSE /\ HandOver(
                      IF Len(end) >= FRAME_SIZE
                        THEN Out(Out(o, "LAST", SubSeq(end, 1, FRAME_SIZE)),
                                 "LAST", SubSeq(end, FRAME_SIZE + 1, Len(end)))
                      ELSE IF Len(end) > WAV_HEADER THEN Out(o, "LAST", end) ELSE o)
                 /\ carry' = <<>> /\ at' = at + n /\ phase' = "wait"
                 /\ begun' = (begun \/ full)
    /\ Goes
MagicStops ==
    /\ Reading("magic") /\ stop
    /\ HandOver(Out(out, "LAST", <<>>)) /\ Finish(0) /\ Goes
-----------------------------------------------------------------------------
(* handle_event_play, a message at a time.                                 *)
\* Only a medium that was played to its end is counted.
EndsPlayed(cmd, played) == IF cmd = "STOP" /\ played THEN ends + 1 ELSE ends
EndsAfter(cmd, played) == IF cmd = "STOP" THEN ends + 1 ELSE ends
PlayMessage ==
    /\ queue # <<>> /\ queue' = Tail(queue)
    /\ LET m == Head(queue)
           played == status = "PLAYING" \/ m.cmd = "START"
       IN /\ heard' = IF played THEN heard \o m.bytes ELSE heard
          /\ written' = CASE m.cmd = "START" -> Len(m.bytes)
                          [] m.cmd # "START" /\ played -> written + Len(m.bytes)
                          [] OTHER -> written
          /\ status' = CASE m.cmd = "START" -> "PLAYING" [] m.cmd = "STOP" -> "IDLE"
                         [] OTHER -> status
          /\ finished' = CASE m.cmd = "START" -> FALSE
                           [] m.cmd = "STOP" /\ played -> TRUE
                           [] OTHER -> finished
          /\ ends' = EndsAfter(m.cmd, played)
    /\ UNCHANGED <<asked, cuts, source, stop, out, kept, keptSize, again, past, early>>

\* mdm_notify_to_stop.
Stop ==
    /\ cuts < MaxCuts /\ cuts' = cuts + 1
    /\ phase # "rest" /\ ~stop /\ stop' = TRUE /\ status' = "IDLE"
    /\ UNCHANGED <<asked, source, out, queue, written, finished, ends, heard, kept, keptSize,
                   again, past, early>>
-----------------------------------------------------------------------------
(* The manager's thread before and after a medium.                         *)
Begin(m, from) ==
    /\ medium' = m /\ position' = from
    /\ at' = IF m.source = "magic" THEN WAV_HEADER ELSE from
    /\ phase' = "read" /\ begun' = FALSE /\ stop' = FALSE /\ written' = 0
    /\ out' = [out EXCEPT !.refused = FALSE]
    /\ carry' = IF m.source = "magic" THEN Piece(0, WAV_HEADER) ELSE <<>>

\* mdm_send_media_url, _file_path, _data and _magic_voice stop what plays before.
\* A file whose format is not known is not played at all.
Send(m) ==
    /\ phase = "rest" /\ asked < MaxMedia /\ asked' = asked + 1
    /\ m.source = "file" => MediaType(m) # "none"
    /\ Begin(m, 0)
    /\ status' = "IDLE" /\ heard' = <<>> /\ again' = 0
    /\ UNCHANGED <<cuts, queue, finished, ends, kept, keptSize, past, early>>

\* mdm_play_previous_media_continue.
GoOn ==
    /\ phase = "rest" /\ status = "IDLE" /\ kept.source \in {"url", "file"}
    /\ Begin(kept, keptSize) /\ kept' = None
    /\ past.again < MaxCuts /\ again' = past.again + 1 /\ heard' = past.heard
    /\ UNCHANGED <<asked, cuts, queue, status, finished, ends, keptSize, past, early>>

\* The bytes of this time only.
ReachedThisTime == written
Reached == position + written
\* What is stored of a medium that was cut, after media_play_wait_end.  A tone is
\* not stored, and with MEDIA_FLAG_PROMPT_TONE it leaves what was stored.
PutAway ==
    /\ \/ medium.source = "data" /\ UNCHANGED <<kept, keptSize, out>>
       \/ medium.source # "data" /\ ~finished
          /\ kept' = medium /\ keptSize' = Reached /\ UNCHANGED out
       \/ (medium.source = "data" \/ finished)
          /\ kept' = None /\ keptSize' = 0 /\ out' = [out EXCEPT !.header = 0]
    /\ phase' = "rest"
    /\ past' = IF medium.source = "data" THEN past ELSE [heard |-> heard, again |-> again]
Settle ==
    /\ phase = "wait"
    /\ written = 0 => queue = <<>>
    /\ IF written > 0 THEN ends > 0 /\ ends' = ends - 1 ELSE UNCHANGED ends
    /\ PutAway /\ early' = (early \/ queue # <<>>)
    /\ UNCHANGED <<asked, cuts, medium, position, at, begun, carry, stop, queue, status,
                   written, finished, heard, again>>
-----------------------------------------------------------------------------
Init ==
    /\ asked = 0 /\ cuts = 0 /\ medium = None /\ position = 0 /\ phase = "rest"
    /\ at = 0 /\ begun = FALSE /\ carry = <<>> /\ stop = FALSE /\ out = Fresh
    /\ queue = <<>> /\ status = "IDLE" /\ written = 0 /\ finished = FALSE /\ ends = 0
    /\ kept = None /\ keptSize = 0 /\ heard = <<>> /\ again = 0 /\ early = FALSE
    /\ past = [heard |-> <<>>, again |-> 0]
Next ==
    \/ \E m \in Offered : Send(m)
    \/ \E n \in UrlPieces : UrlPiece(n)
    \/ MagicPiece \/ UrlEnds \/ FilePiece \/ DataPiece \/ MagicStops
    \/ PlayMessage \/ Stop \/ GoOn \/ Settle
Spec == Init /\ [][Next]_mediaDataVars
-----------------------------------------------------------------------------
\* Between two calls of mdm_media_data_out_handler no message is held back, and
\* the header that is stored is that of a medium.
MediaDataTypeOK ==
    /\ medium \in Offered \cup {None} /\ kept \in Offered \cup {None}
    /\ position \in Nat /\ at \in Nat /\ carry \in Seq(Nat) /\ again \in Nat
    /\ phase \in {"rest", "read", "wait"} /\ status \in {"IDLE", "PLAYING"}
    /\ begun \in BOOLEAN /\ stop \in BOOLEAN /\ finished \in BOOLEAN /\ early \in BOOLEAN
    /\ out \in [skip: Nat \cup {-1}, header: {0} \cup {m.front : m \in Offered},
                refused: BOOLEAN, sent: {<<>>}]
    /\ queue \in Seq([cmd: {"START", "CONTINUE", "STOP"}, bytes: Seq(Nat)])
    /\ written \in Nat /\ ends \in Nat /\ keptSize \in Nat /\ heard \in Seq(Nat)
    /\ past \in [heard: Seq(Nat), again: Nat]

\* A medium with a tag, one with a header, and a changed voice that never
\* filled a frame: what is left of the tag of the medium before is cut off it.
Tagged(m) == MediaType(m) = "mp3" /\ m.front > 0
Headed(m) == MediaType(m) = "wav"
ShortVoice == medium.source = "magic" /\ ~begun

\* The sound behind the one at the place j of h, 0 being the beginning.
Follows(h, front, j, i) ==
    /\ j < i /\ h[i] > front /\ (j = 0 \/ h[j] > front)
    /\ \A k \in j + 1..i - 1 : h[k] <= front
Sound(h, front, j) == IF j = 0 THEN front ELSE h[j]

\* A medium that goes on after a cut does so at the first byte the codec has
\* not got: none is left out, and none is played twice.  With a tag the code
\* goes back by its length, since a byte that is skipped is not counted; with a
\* header it goes too far from the second cut on, since the header is counted
\* each time; a changed voice ends with its last piece twice; and a file or a
\* voice that is stopped before its first byte, and an address of a format that
\* is refused, leave a token in s_play_end_sem, with which the next media are put
\* away before they end.
GoesOnWhereItWasCut ==
    ~early /\ ~ShortVoice =>
        \A i \in 1..Len(heard), j \in 0..Len(heard) :
            Follows(heard, medium.front, j, i) =>
                /\ again <= 1 \/ ~Headed(medium) => heard[i] <= Sound(heard, medium.front, j) + 1
                /\ ~Tagged(medium) /\ medium.source # "magic" =>
                       heard[i] > Sound(heard, medium.front, j)

\* The tag ends within the last FRAME_SIZE bytes of a file or a tone, so that the
\* last piece may be the first that the player gets.
TagEndsLate ==
    /\ Tagged(medium) /\ medium.source # "url" /\ position = 0
    /\ medium.len - FRAME_SIZE <= medium.front /\ medium.front < medium.len

\* The player comes to its end once for each medium it has started, so that the
\* thread that waits for it goes on to the next one; not so a tone of one
\* frame, a medium whose tag ends in its last piece, a short voice, and a file
\* that goes on behind its end.
EndsBadly ==
    \/ medium.source = "data" /\ medium.len <= FRAME_SIZE
    \/ medium.source = "file" /\ position >= medium.len
    \/ TagEndsLate \/ ShortVoice
EveryMediumEnds ==
    phase = "wait" /\ queue = <<>> /\ written > 0 => ends > 0 \/ EndsBadly
-----------------------------------------------------------------------------
(* What every step keeps.                                                  *)
\* A message that starts the player, and one that stops it.
Starts(q) == \E i \in 1..Len(q) : q[i].cmd = "START"
Stops(q) == \E i \in 1..Len(q) : q[i].cmd = "STOP"
\* The player has not been started for this medium.
Unstarted == written = 0 /\ status = "IDLE" /\ ~Starts(queue)
\* The next piece may start it, or the format was refused.
MayStart == phase = "read" /\ (~begun \/ out.skip >= 0 \/ out.refused)

\* The player is started at most once for a medium, by a message that no other
\* one comes before, and is then stopped by a message in the queue or by one
\* that it has handled.
StartInv ==
    /\ MayStart => Unstarted
    /\ phase = "rest" => ~Starts(queue)
    /\ \A i \in 1..Len(queue) : queue[i].cmd = "START" =>
          /\ written = 0 /\ status = "IDLE"
          /\ \A j \in 1..Len(queue) : queue[j].cmd = "START" => j = i
    /\ phase = "read" /\ out.refused => stop /\ medium.source \notin {"magic", "data"}
    /\ phase = "read" /\ ~begun => ~out.refused
    /\ phase = "read" /\ begun /\ ~out.refused /\ out.skip >= 0 =>
          Tagged(medium) /\ position = 0 /\ at + out.skip = medium.front
    /\ phase = "read" /\ ~begun /\ medium.source # "magic" => at = position
    /\ medium.source \in {"data", "magic"} => position = 0
    /\ phase = "wait" /\ ~Unstarted => ends > 0 \/ Stops(queue) \/ EndsBadly
    /\ phase # "rest" => medium \in Offered
    /\ again = 0 => position = 0

\* The bytes of h begin and go on without a gap, in the order of the medium.
Smooth(h, front) ==
    /\ h # <<>> => h[1] <= front + 1
    /\ \A i \in 1..Len(h) - 1 : h[i + 1] <= h[i] + 1
\* The first p bytes, then the header of f bytes once more, then the rest.
Shape(h, p, f) ==
    \A i \in 1..Len(h) : h[i] = IF i <= p THEN i ELSE IF i <= p + f THEN i - p ELSE i - f
\* Every sound is behind those before it, and not behind its place.
Rising(h, front) ==
    \A i \in 1..Len(h) : h[i] > front =>
        h[i] <= i /\ \A j \in 1..i - 1 : h[j] < h[i]
\* What a medium that went on ag times at p may be for the codec.
KindOf(m, h, p, ag, f) ==
    /\ m.source # "magic" /\ ~Tagged(m) /\ (Headed(m) => ag <= 1) => Shape(h, p, f)
    /\ m.source # "magic" /\ Headed(m) => Rising(h, m.front)
    /\ m.source = "magic" \/ Tagged(m) => Smooth(h, m.front)
    /\ Tagged(m) => \A i \in 1..Len(h) : h[i] >= i
\* h is what the codec has when the first e bytes of the medium were given to it.
EndOf(m, h, f, e) ==
    /\ m.source # "magic" /\ ~Tagged(m) => Len(h) = e + f
    /\ m.source # "magic" /\ Headed(m) =>
          \A i \in 1..Len(h) : h[i] > m.front => h[i] <= e
    /\ m.source = "magic" \/ Tagged(m) => IF h = <<>> THEN e <= m.front ELSE e <= h[Len(h)]
    /\ Tagged(m) => Len(h) <= e

\* The length of a header that is sent again, when the medium goes on.
AgainOf == IF Headed(medium) /\ position > 0 THEN out.header ELSE 0
\* A header of f bytes is sent again to a WAV that goes on.
Fits(f) == f \in {0, medium.front} /\ (f # 0 => Headed(medium) /\ position > 0)

\* The player plays, or is about to.
Live == status = "PLAYING" \/ (queue # <<>> /\ queue[1].cmd = "START")
\* The bytes of the queue are those of h behind what was heard.
Laid(q, g, h, f) ==
    /\ f \in [0..Len(q) -> 0..Len(h)] /\ f[0] = Len(g) /\ f[Len(q)] = Len(h)
    /\ \A i \in 1..Len(g) : h[i] = g[i]
    /\ \A i \in 1..Len(q) :
          /\ f[i] = f[i - 1] + Len(q[i].bytes)
          /\ \A k \in 1..Len(q[i].bytes) : h[f[i - 1] + k] = q[i].bytes[k]
\* What is given out of the medium ends here.
Edge == at - Len(carry)
\* h is what the codec will have heard when it has played the queue.
FlowIs(h, f) ==
    /\ Fits(f) /\ KindOf(medium, h, position, again, f)
    /\ phase = "read" => f = AgainOf /\ EndOf(medium, h, f, Edge)
\* What is stored of a medium that may go on.
KeptIs ==
    /\ KindOf(kept, past.heard, keptSize, past.again + 1, 0)
    /\ Len(past.heard) = keptSize
    /\ Headed(kept) /\ keptSize > 0 => out.header \in {0, kept.front}
\* What the codec has got and what waits in the queue is the medium in its
\* order, up to the byte that the source gives next; so is what was stored.
SoundInv ==
    /\ phase = "rest" \/ MayStart => queue = <<>>
    /\ \A i \in 1..Len(queue) : queue[i].cmd = "START" => i = 1
    /\ Len(heard) = position + written
    /\ ~ShortVoice => \E f \in Nat : Fits(f) /\ KindOf(medium, heard, position, again, f)
    /\ Live /\ ~ShortVoice =>
          \E h \in Seq(Nat), f \in Nat :
              FlowIs(h, f) /\ \E l \in [0..Len(queue) -> 0..Len(h)] : Laid(queue, heard, h, l)
    /\ phase = "read" => position <= Edge /\ (~begun => Edge = position)
    /\ medium.source # "magic" => carry = <<>>
    /\ phase = "read" => Len(carry) <= at /\ carry = Piece(Edge, at)
    /\ Headed(medium) /\ medium.source # "magic" /\ phase # "rest"
          /\ (position > 0 \/ written > 0 \/ Live) => out.header \in {0, medium.front}
    /\ (phase = "rest" \/ medium.source = "data") /\ kept.source \in {"url", "file"} => KeptIs
\* The sound is out of order once a medium was put away while it played.
DataInv == MediaDataTypeOK /\ StartInv /\ (~early => SoundInv)
=============================================================================
