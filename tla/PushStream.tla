------------------------------ MODULE PushStream ------------------------------
(***************************************************************************)
(* How the push client cuts messages out of the bytes of its connection    *)
(* (mpush_client_receive), decodes them (mpush_message.cpp) and does what  *)
(* a parent pushed: a voice message or a text is queued and announced, a   *)
(* play list replaces the songs.  MpushService says when it receives.      *)
(*                                                                         *)
(* A message is a header, whose first bytes are zero, and a body; a        *)
(* heartbeat's reply is one byte that is not zero.  The network delivers   *)
(* in pieces, and every read gives up after a time, with what it has got   *)
(* by then lost.                                                           *)
(***************************************************************************)
EXTENDS Integers, Sequences

CONSTANTS
    HeaderLen,  \* bytes of a header; the first two are zero
    BodyLen,    \* bytes of a body
    QueueMax,   \* voice messages that wait, beyond which none is added
    MaxSent     \* bound: messages the server sends

\* What a body may be; "odd" has no type the client knows, "bad" is not JSON,
\* "long" does not fit into str_recv_buf, "empty" has a length of 0.
Voice == {"link", "text"}
Kinds == Voice \cup {"cmd", "file", "odd", "bad", "long", "empty", "reply"}

VARIABLES
    kinds,     \* what the server has sent so far, message by message
    wire,      \* bytes sent and not read
    stage,     \* the read the client is in
    got,       \* bytes of the message it has read
    want,      \* bytes of the body it waits for
    push,      \* str_push_msg: the message it holds, 0 for none
    wchat,     \* s_wchat_queue
    songs,     \* the message s_music_queue comes from
    acks,      \* acknowledgements sent
    heard,     \* history: pushes that were acted on, in order
    due,       \* history: the pushes that can still be acted on, or were
    lost       \* history: a read gave up in the middle of a message
pushVars == <<kinds, wire, stage, got, want, push, wchat, songs, acks, heard, due, lost>>
effects == <<push, wchat, songs, acks, heard>>

Byte(m, k) == [m |-> m, k |-> k]
Heartbeat == Byte(0, 1)
IsZero(b) == b.m # 0 /\ b.k <= 2
Len2(kind) == CASE kind = "empty" -> 0 [] kind = "long" -> BodyLen + 1 [] OTHER -> BodyLen
Message(m, kind) == [k \in 1..HeaderLen + Len2(kind) |-> Byte(m, k)]
IsPush(kind) == kind \notin {"reply", "empty", "long"}

Init ==
    /\ kinds = <<>> /\ wire = <<>> /\ stage = "first" /\ got = <<>> /\ want = 0
    /\ push = 0 /\ wchat = <<>> /\ songs = 0 /\ acks = <<>>
    /\ heard = <<>> /\ due = {} /\ lost = FALSE
-----------------------------------------------------------------------------
(* The server.                                                             *)
ServerSends(kind) ==
    /\ Len(kinds) < MaxSent /\ kinds' = Append(kinds, kind)
    /\ wire' = wire \o Message(Len(kinds) + 1, kind)
    /\ due' = IF IsPush(kind) THEN due \cup {Len(kinds) + 1} ELSE due
    /\ UNCHANGED <<stage, got, want, effects, lost>>
ServerBeats ==
    /\ \A i \in DOMAIN wire : i = Len(wire) => wire[i] # Heartbeat
    /\ wire' = Append(wire, Heartbeat)
    /\ UNCHANGED <<kinds, stage, got, want, effects, due, lost>>
-----------------------------------------------------------------------------
(* What a message does.                                                    *)
\* set_wchat_queue: nothing is added to a queue of more than QueueMax.
Queued(m) == IF Len(wchat) > QueueMax THEN wchat ELSE Append(wchat, m)

Is(m, ks) == m \in DOMAIN kinds /\ kinds[m] \in ks

\* mpush_get_app_play_list of the message in str_push_msg. The voice of a text
\* comes from the cloud, which is asked twice; a command plays what is queued.
DoesPushed(m) ==
    /\ heard' = IF m = 0 THEN heard ELSE Append(heard, m)
    /\ \/ Is(m, Voice) /\ wchat' = Queued(m)
       \/ ~Is(m, {"link"}) /\ UNCHANGED wchat

\* _mpush_decode_push_msg leaves the old message where a body is no JSON.
DecodePush(m) ==
    /\ push' = CASE kinds[m] = "bad" -> push
                 [] kinds[m] = "odd" -> 0
                 [] OTHER -> m
    /\ songs' \in IF kinds[m] = "cmd" THEN {m, songs} ELSE {songs}
\* The acknowledgement comes before the message is looked at.
ProcessPush(m) == DecodePush(m) /\ acks' = Append(acks, m) /\ DoesPushed(push')

Whole(bytes, m) == bytes = Message(m, kinds[m])
Nothing == UNCHANGED effects
\* mpush_msg_decode and mpush_client_process_msg of the bytes read. Bytes that
\* are not a message are no JSON, but they may say that they are a push.
Process(bytes) ==
    \/ \E m \in DOMAIN kinds :
          Whole(bytes, m) /\ IF IsPush(kinds[m]) THEN ProcessPush(m) ELSE Nothing
    \/ /\ \A m \in DOMAIN kinds : ~Whole(bytes, m)
       /\ \/ Nothing
          \/ UNCHANGED <<push, songs>> /\ acks' = Append(acks, 0) /\ DoesPushed(push)
-----------------------------------------------------------------------------
(* mpush_client_receive, read by read.                                     *)
Server == UNCHANGED <<kinds, due, lost>>
Return == stage' = "first" /\ got' = <<>> /\ want' = 0

\* Any byte begins a message.
ReadFirstAny ==
    /\ stage = "first" /\ wire # <<>> /\ wire' = Tail(wire)
    /\ stage' = "head" /\ got' = <<Head(wire)>> /\ want' = 0
    /\ Nothing /\ Server
\* One byte that is not zero, a heartbeat's reply, is skipped.
ReadFirst ==
    /\ stage = "first" /\ wire # <<>> /\ wire' = Tail(wire)
    /\ IF IsZero(Head(wire)) THEN stage' = "head" /\ got' = <<Head(wire)>> /\ want' = 0
                             ELSE Return
    /\ Nothing /\ Server

\* The header of a message m in its place, or one made of other bytes, whose
\* length is anything.
Lengths(bytes) ==
    LET whose == {m \in DOMAIN kinds : bytes = SubSeq(Message(m, kinds[m]), 1, HeaderLen)}
    IN IF whose = {} THEN 0..BodyLen + 1 ELSE {Len2(kinds[m]) : m \in whose}
ReadHead ==
    /\ stage = "head" /\ Len(wire) >= HeaderLen - 1
    /\ LET bytes == got \o SubSeq(wire, 1, HeaderLen - 1)
       IN \E len \in Lengths(bytes) :
            IF len \in 1..BodyLen
              THEN /\ stage' = "body" /\ got' = bytes /\ want' = len
                   /\ wire' = SubSeq(wire, HeaderLen, Len(wire)) /\ UNCHANGED <<due, lost>>
            ELSE IF len = 0
              THEN /\ Return /\ wire' = SubSeq(wire, HeaderLen, Len(wire))
                   /\ UNCHANGED <<due, lost>>
            \* MPUSH_STAUTS_RECONNECT: what was under way is lost with the connection
            ELSE /\ Return /\ wire' = <<>> /\ UNCHANGED lost
                 /\ due' = {heard[i] : i \in DOMAIN heard}
    /\ UNCHANGED kinds /\ Nothing
\* The part of the body that has come is taken for the whole.
ReadBodyShort ==
    /\ stage = "body"
    /\ \E n \in 1..want : /\ n <= Len(wire) /\ Process(got \o SubSeq(wire, 1, n))
                           /\ wire' = SubSeq(wire, n + 1, Len(wire))
    /\ Return /\ Server
ReadBody ==
    /\ stage = "body" /\ Len(wire) >= want
    /\ Process(got \o SubSeq(wire, 1, want))
    /\ wire' = SubSeq(wire, want + 1, Len(wire)) /\ Return /\ Server

\* A read gives up: some bytes of the message have come.
GiveUp ==
    /\ stage \in {"head", "body"}
    /\ \E n \in 0..Len(wire) :
         /\ n < (IF stage = "head" THEN HeaderLen - 1 ELSE want)
         /\ wire' = SubSeq(wire, n + 1, Len(wire))
    /\ lost' = TRUE /\ Return /\ Nothing /\ UNCHANGED <<kinds, due>>

\* The child listens: play_wchat_queue, by a key or after the message before.
PlayWchatQueue ==
    /\ wchat # <<>> /\ wchat' = Tail(wchat)
    /\ UNCHANGED <<kinds, wire, stage, got, want, push, songs, acks, heard, due, lost>>

Next == \/ \E kind \in Kinds : ServerSends(kind)
        \/ ServerBeats
        \/ ReadFirst \/ ReadHead \/ ReadBody \/ GiveUp
        \/ PlayWchatQueue
Spec == Init /\ [][Next]_pushVars
-----------------------------------------------------------------------------
PushTypeOK ==
    /\ kinds \in Seq(Kinds) /\ stage \in {"first", "head", "body"}
    /\ push \in 0..Len(kinds) /\ songs \in 0..Len(kinds)
    /\ Len(wchat) <= QueueMax + 1 /\ want \in 0..BodyLen

\* What parents push is done in the order they pushed it, each message once and
\* none left out: neither heartbeats nor the pieces in which a message comes can
\* make two of one or mix them up.  Only a read that gave up, or a body that is
\* no JSON, makes the client do the message before again.
Understood(m) == kinds[m] # "odd"
Increasing(s) == \A i, j \in DOMAIN s : i < j => s[i] < s[j]
Done(m) == \E i \in DOMAIN heard : heard[i] = m
InStep == ~lost /\ \A m \in DOMAIN kinds : kinds[m] # "bad"
PushesAreDoneOnce ==
    InStep =>
        /\ Increasing(heard) /\ Increasing(wchat)
        /\ \A i \in DOMAIN heard :
             /\ heard[i] \in due /\ Understood(heard[i])
             /\ \A m \in due : m < heard[i] /\ Understood(m) => Done(m)
        /\ stage = "first" /\ wire = <<>> => \A m \in due : Understood(m) => Done(m)

\* What every step keeps.  Behind the first "from" bytes there are the messages
\* of ks after c, whole and in order, and heartbeats only between them.
Long(kind) == HeaderLen + Len2(kind)
Aligned(bytes, from, ks, c) ==
    /\ \A i \in from + 1..Len(bytes) :
         bytes[i] # Heartbeat =>
           bytes[i].m \in c + 1..Len(ks) /\ bytes[i].k \in 1..Long(ks[bytes[i].m])
    /\ \A m \in c + 1..Len(ks) : \A k \in 1..Long(ks[m]) :
         \E i \in from + 1..Len(bytes) : bytes[i] = Byte(m, k)
    /\ \A i, j \in from + 1..Len(bytes) :
         i < j /\ bytes[i] # Heartbeat /\ bytes[j] # Heartbeat =>
           \/ bytes[i].m < bytes[j].m
           \/ bytes[i].m = bytes[j].m /\ j - i = bytes[j].k - bytes[i].k
\* Of the message m "had" bytes have been taken, the others come first.
Begun(taken, bytes, ks, m, had) ==
    /\ m \in 1..Len(ks) /\ Len(taken) = had
    /\ \A k \in 1..had : taken[k] = Byte(m, k)
    /\ Long(ks[m]) - had <= Len(bytes)
    /\ \A k \in had + 1..Long(ks[m]) : bytes[k - had] = Byte(m, k)
    /\ Aligned(bytes, Long(ks[m]) - had, ks, m)
\* All messages up to c have been read.
ReadUpTo(c) ==
    /\ stage = "first" => Aligned(wire, 0, kinds, c)
    /\ stage = "head" => Begun(got, wire, kinds, c + 1, 1)
    /\ stage = "body" => /\ Begun(got, wire, kinds, c + 1, HeaderLen)
                         /\ want = BodyLen /\ Len2(kinds[c + 1]) = BodyLen
\* What was done, what waits to be heard, and what was pushed, after message c.
DoneUpTo(done, waiting, pushed, ks, c) ==
    /\ Increasing(done) /\ Increasing(waiting)
    /\ \A i \in DOMAIN done : done[i] \in 1..c /\ done[i] \in pushed /\ ks[done[i]] # "odd"
    /\ \A i \in DOMAIN waiting : waiting[i] \in 1..c
    /\ \A m \in pushed : m \in 1..Len(ks) /\ IsPush(ks[m])
    /\ \A m \in pushed : m <= c /\ ks[m] # "odd" => \E i \in DOMAIN done : done[i] = m
    /\ \A m \in c + 1..Len(ks) : IsPush(ks[m]) => m \in pushed
PushInv ==
    /\ PushTypeOK
    /\ heard \in Seq(Nat) /\ wchat \in Seq(Nat) /\ due \subseteq Nat /\ lost \in BOOLEAN
    /\ wire \in Seq([m : Nat, k : Nat]) /\ got \in Seq([m : Nat, k : Nat])
    /\ InStep => \E c \in 0..Len(kinds) : ReadUpTo(c) /\ DoneUpTo(heard, wchat, due, kinds, c)
=============================================================================
