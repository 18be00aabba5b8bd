-------------------------- MODULE MediaPipelineProofs --------------------------
(***************************************************************************)
(* Proofs about the media data manager and the player, for any number of   *)
(* callers, calls and chunks and any size of the buffer: type correctness, *)
(* the order of the media, the count of their ends, and what is kept.      *)
(***************************************************************************)
EXTENDS MediaPipeline, TLAPS

Chunk == [command : Commands, of : Media]
Places == {"idle", "stop", "silence", "put", "pause", "resume", "continue"}
Statuses == {"IDLE"} \cup Playing
Call == [at : Places, old : Statuses, of : [id : 0 .. MaxCalls, kind : Jobs \cup {"none"}]]

\* What a caller leaves in the mailbox is a medium.
CallersOK ==
  /\ caller \in [Callers -> Call]
  /\ \A c \in Callers :
       /\ caller[c].at \in {"stop", "silence", "put"} => caller[c].of.id # 0
       /\ caller[c].at = "put" => caller[c].of.kind \in Kinds

ChunksOK == buffer \in Seq(Chunk) /\ Len(buffer) <= BufCap /\ hand \in Chunk

FlagsOK ==
  /\ stopFlag \in BOOLEAN /\ completely \in BOOLEAN /\ prevPaused \in BOOLEAN
  /\ finished \in BOOLEAN /\ started \in BOOLEAN /\ error \in BOOLEAN
  /\ signal \in BOOLEAN /\ unwaited \in BOOLEAN

\* The last chunk of a medium is written as such, and then none.
ManagerOK ==
  /\ mdm \in {"idle", "taken", "get", "write", "report", "nap", "waiting", "settle"}
  /\ command \in Commands /\ sent \in 0 .. MaxChunks
  /\ mdm = "get" => sent < MaxChunks
  /\ mdm = "write" => sent < MaxChunks /\ (sent = MaxChunks - 1 => command = "STOP")

PlayerOK ==
  /\ token \in Nat /\ status \in Statuses
  /\ player \in {"loop", "paused", "awake", "starting", "writing", "ending", "draining"}
  /\ codec \in {"idle", "playing", "stopping"}

MediaOK ==
  /\ mail \in Media /\ cur \in Media /\ prev \in Media
  /\ calls \in 0 .. MaxCalls /\ ended \subseteq 0 .. MaxCalls

TypeInv == CallersOK /\ ChunksOK /\ FlagsOK /\ ManagerOK /\ PlayerOK /\ MediaOK

LEMMA InvIsTyped == TypeInv => TypeOK
  BY DEF TypeInv, TypeOK, CallersOK, ChunksOK, FlagsOK, ManagerOK, PlayerOK, MediaOK,
         Chunk, Places, Statuses, Call

LEMMA Bounds == MaxCalls \in Nat /\ MaxChunks \in Nat /\ MaxChunks >= 2 /\ BufCap \in Nat /\ BufCap > 0
  BY BoundsAssumption, BufCapAssumption

LEMMA TypeInit == Init => TypeInv
<1> SUFFICES ASSUME Init PROVE TypeInv
  OBVIOUS
<1> USE Bounds DEF Init
<1>1. MediaOK
  BY DEF MediaOK, NoMedia, Media
<1>2. ChunksOK
  BY DEF ChunksOK, Chunk, NoChunk, Commands, Media
<1>3. CallersOK
  <2>1. Rest \in Call /\ Rest.at = "idle"
    BY DEF Rest, Call, Places, Statuses, NoMedia
  <2>2. QED
    BY <2>1 DEF CallersOK
<1>4. FlagsOK /\ PlayerOK
  BY DEF FlagsOK, PlayerOK, Statuses
<1>5. ManagerOK
  BY DEF ManagerOK, Commands
<1>6. QED
  BY <1>1, <1>2, <1>3, <1>4, <1>5 DEF TypeInv

\* A stop by the manager itself leaves flags and player in their sets.
LEMMA StopIsTyped ==
  ASSUME FlagsOK, StopNow
  PROVE  /\ stopFlag' \in BOOLEAN /\ prevPaused' \in BOOLEAN /\ signal' \in BOOLEAN
         /\ status' \in Statuses /\ codec' \in {"idle", "playing", "stopping"}
  BY DEF FlagsOK, StopNow, Pauses, Statuses

\* The next song of a queue is a new medium.
LEMMA NewSong ==
  ASSUME MediaOK, PlayQueue
  PROVE  mail' \in Media /\ calls' \in 0 .. MaxCalls /\ stopFlag' \in {stopFlag, TRUE}
<1>1. CASE UNCHANGED <<mail, stopFlag, calls>>
  BY <1>1 DEF MediaOK
<1>2. CASE /\ Called /\ stopFlag' = TRUE
           /\ mail' \in {mail, [id |-> calls + 1, kind |-> "song"]}
  <2>1. calls < MaxCalls /\ calls' = calls + 1 /\ calls \in 0 .. MaxCalls
    BY <1>2 DEF Called, MediaOK
  <2>2. [id |-> calls + 1, kind |-> "song"] \in Media
    BY <2>1, Bounds DEF Media, Kinds
  <2>3. QED
    BY <1>2, <2>1, <2>2, Bounds DEF MediaOK
<1>3. QED
  BY <1>1, <1>2 DEF PlayQueue, NextSong

LEMMA TypeMdm ==
  ASSUME TypeInv, Mdm
  PROVE  TypeInv'
<1> USE Bounds DEF TypeInv, requests, previous, manager, pipe, play, thread, history
<1>1. CallersOK'
  <2>1. caller' = caller
    BY DEF Mdm, Take, ResetStopFlag, GetNothing, GetChunk, GiveUp, Refuse, StopNow, Write, Report, WakeUp,
           PlayHasEnded, Settle
  <2>2. QED
    BY <2>1 DEF CallersOK
<1>2. ChunksOK'
  <2>1. CASE Write
    <3>1. /\ command \in Commands /\ cur \in Media /\ buffer \in Seq(Chunk) /\ hand' = hand
          /\ Len(buffer) < BufCap /\ buffer' = Append(buffer, [command |-> command, of |-> cur])
      BY <2>1 DEF Write, ManagerOK, MediaOK, ChunksOK
    <3>2. [command |-> command, of |-> cur] \in Chunk
      BY <3>1 DEF Chunk
    <3>3. QED
      BY <3>1, <3>2 DEF ChunksOK
  <2>2. CASE ~Write
    <3>1. UNCHANGED <<buffer, hand>>
      BY <2>2 DEF Mdm, Take, ResetStopFlag, GetNothing, GetChunk, GiveUp, Refuse, StopNow, Report, WakeUp,
                  PlayHasEnded, Settle
    <3>2. QED
      BY <3>1 DEF ChunksOK
  <2>3. QED
    BY <2>1, <2>2
<1>3. CASE Take
  <2>1. FlagsOK'
    BY <1>3 DEF Take, FlagsOK
  <2>2. ManagerOK'
    BY <1>3 DEF Take, ManagerOK
  <2>3. PlayerOK' /\ MediaOK'
    BY <1>3 DEF Take, PlayerOK, MediaOK, Media
  <2>4. QED
    BY <1>1, <1>2, <2>1, <2>2, <2>3
<1>4. CASE ResetStopFlag
  <2>1. FlagsOK'
    BY <1>4 DEF ResetStopFlag, FlagsOK
  <2>2. ManagerOK'
    BY <1>4 DEF ResetStopFlag, ManagerOK
  <2>3. PlayerOK' /\ MediaOK'
    BY <1>4 DEF ResetStopFlag, PlayerOK, MediaOK
  <2>4. QED
    BY <1>1, <1>2, <2>1, <2>2, <2>3
<1>5. CASE GetNothing
  <2>1. FlagsOK'
    BY <1>5 DEF GetNothing, FlagsOK
  <2>2. ManagerOK'
    BY <1>5 DEF GetNothing, ManagerOK
  <2>3. PlayerOK' /\ MediaOK'
    BY <1>5 DEF GetNothing, PlayerOK, MediaOK
  <2>4. QED
    BY <1>1, <1>2, <2>1, <2>2, <2>3
<1>6. CASE GetChunk
  <2>1. ManagerOK'
    BY <1>6 DEF GetChunk, ManagerOK, Commands
  <2>2. QED
    BY <1>1, <1>2, <1>6, <2>1 DEF GetChunk, FlagsOK, PlayerOK, MediaOK
<1>7. CASE GiveUp \/ Refuse
  <2>1. /\ StopNow /\ mdm = "get" /\ mdm' \in {"write", "report"}
        /\ UNCHANGED <<mail, completely, prev, cur, sent, pipe, finished, player, hand, calls,
                       history>>
    BY <1>7 DEF GiveUp, Refuse
  <2>2. FlagsOK' /\ PlayerOK' /\ MediaOK'
    <3>1. FlagsOK'
      BY <2>1, StopIsTyped DEF FlagsOK
    <3>2. PlayerOK'
      BY <2>1, StopIsTyped DEF PlayerOK
    <3>3. MediaOK'
      BY <2>1 DEF MediaOK
    <3>4. QED
      BY <3>1, <3>2, <3>3
  <2>3. ManagerOK'
    BY <1>7, <2>1 DEF GiveUp, Refuse, ManagerOK, Commands
  <2>4. QED
    BY <1>1, <1>2, <2>2, <2>3
<1>8. CASE Write
  <2>1. ManagerOK'
    BY <1>8 DEF Write, ManagerOK
  <2>2. QED
    BY <1>1, <1>2, <1>8, <2>1 DEF Write, FlagsOK, PlayerOK, MediaOK
<1>9. CASE Report
  <2>1. /\ mdm = "report" /\ mdm' = "nap"
        /\ PlayQueue \/ UNCHANGED <<mail, stopFlag, calls>>
        /\ StopNow \/ UNCHANGED <<stopFlag, prevPaused, status, codec, signal>>
        /\ UNCHANGED <<completely, prev, cur, command, sent, pipe, finished, player, hand, history>>
    BY <1>9 DEF Report, PlayQueue, StopNow
  <2>2. mail' \in Media /\ calls' \in 0 .. MaxCalls
    BY <2>1, NewSong DEF MediaOK
  <2>3. ManagerOK' /\ PlayerOK'
    <3>1. status' \in Statuses /\ codec' \in {"idle", "playing", "stopping"}
      BY <2>1, StopIsTyped DEF PlayerOK
    <3>2. QED
      BY <2>1, <3>1 DEF ManagerOK, PlayerOK
  <2>4. FlagsOK'
    <3>1. stopFlag' \in BOOLEAN /\ prevPaused' \in BOOLEAN /\ signal' \in BOOLEAN
      BY <2>1, StopIsTyped DEF FlagsOK
    <3>2. QED
      BY <2>1, <3>1 DEF FlagsOK
  <2>5. MediaOK'
    BY <2>1, <2>2 DEF MediaOK
  <2>6. QED
    BY <1>1, <1>2, <2>3, <2>4, <2>5
<1>10. CASE WakeUp
  <2>1. ManagerOK' /\ FlagsOK'
    BY <1>10 DEF WakeUp, ManagerOK, FlagsOK
  <2>2. QED
    BY <1>1, <1>2, <1>10, <2>1 DEF WakeUp, PlayerOK, MediaOK
<1>11. CASE PlayHasEnded
  <2>1. PlayerOK' /\ ManagerOK'
    BY <1>11 DEF PlayHasEnded, PlayerOK, ManagerOK
  <2>2. QED
    BY <1>1, <1>2, <1>11, <2>1 DEF PlayHasEnded, FlagsOK, MediaOK
<1>12. CASE Settle
  <2>1. /\ mdm' = "idle" /\ cur' = NoMedia /\ prev' \in {NoMedia, cur, prev}
        /\ prevPaused' \in {prevPaused, FALSE}
        /\ UNCHANGED <<requests, command, sent, pipe, play, thread, caller, calls, history>>
    BY <1>12 DEF Settle, FlagsOK
  <2>2. MediaOK' /\ FlagsOK'
    <3>1. mail' = mail /\ cur' \in Media /\ prev' \in Media /\ UNCHANGED <<calls, ended>>
      BY <2>1 DEF MediaOK, Media
    <3>2. MediaOK'
      BY <3>1 DEF MediaOK
    <3>3. FlagsOK'
      BY <2>1 DEF FlagsOK
    <3>4. QED
      BY <3>2, <3>3
  <2>3. ManagerOK' /\ PlayerOK'
    BY <2>1 DEF ManagerOK, PlayerOK
  <2>4. QED
    BY <1>1, <1>2, <2>2, <2>3
<1>13. QED
  BY <1>3, <1>4, <1>5, <1>6, <1>7, <1>8, <1>9, <1>10, <1>11, <1>12 DEF Mdm

LEMMA TypePlayer ==
  ASSUME TypeInv, Player \/ CodecStops \/ UNCHANGED vars
  PROVE  TypeInv'
<1> USE Bounds DEF TypeInv, requests, previous, manager, pipe, play, thread, history
<1>1. CallersOK' /\ ManagerOK'
  <2>1. UNCHANGED <<caller, manager>>
    BY DEF Player, Pause, Resume, ReadStart, Start, ReadContinue, WriteCodec, ReadStop, End,
           Finish, CodecStops, vars
  <2>2. QED
    BY <2>1 DEF CallersOK, ManagerOK
<1>2. ChunksOK'
  <2>1. ASSUME NEW cmd, Reads(cmd) PROVE ChunksOK'
    <3>1. /\ buffer \in Seq(Chunk) /\ buffer # <<>> /\ hand' = Head(buffer) /\ buffer' = Tail(buffer)
          /\ Len(buffer) <= BufCap /\ BufCap \in Nat
      BY <2>1 DEF Reads, ChunksOK
    <3>2. hand' \in Chunk /\ buffer' \in Seq(Chunk) /\ Len(buffer') <= BufCap
      BY ONLY <3>1
    <3>3. QED
      BY <3>2 DEF ChunksOK
  <2>2. CASE ReadStart \/ ReadContinue \/ ReadStop
    BY <2>1, <2>2 DEF ReadStart, ReadContinue, ReadStop
  <2>3. CASE ~(ReadStart \/ ReadContinue \/ ReadStop)
    <3>1. UNCHANGED <<buffer, hand>>
      BY <2>3 DEF Player, Pause, Resume, Start, WriteCodec, End, Finish, CodecStops, vars
    <3>2. QED
      BY <3>1 DEF ChunksOK
  <2>4. QED
    BY <2>2, <2>3
<1>3. FlagsOK' /\ MediaOK'
  <2>1. CASE Finish
    <3>1. /\ ended' \in {ended, ended \cup {hand.of.id}} /\ error' \in {error, TRUE}
          /\ finished' \in {finished, TRUE}
          /\ OnFinish \/ UNCHANGED <<mail, stopFlag, calls, prev>>
          /\ UNCHANGED <<completely, prevPaused, cur, started, signal, unwaited>>
      BY <2>1 DEF Finish
    <3>2. hand.of.id \in 0 .. MaxCalls
      BY DEF ChunksOK, Chunk, Media, NoMedia, NullUrl
    <3>3. /\ mail' \in Media /\ calls' \in 0 .. MaxCalls /\ stopFlag' \in {stopFlag, TRUE}
          /\ prev' \in {prev, NoMedia}
      <4>1. CASE PlayQueue /\ UNCHANGED prev
        BY <4>1, NewSong
      <4>2. CASE /\ UNCHANGED <<stopFlag, calls>>
                 /\ \/ UNCHANGED <<mail, prev>>
                    \/ mail' = prev /\ prev' = NoMedia
        BY <4>2 DEF MediaOK
      <4>3. QED
        BY <3>1, <4>1, <4>2 DEF OnFinish
    <3>4. FlagsOK'
      BY <3>1, <3>3 DEF FlagsOK
    <3>5. MediaOK'
      BY <3>1, <3>2, <3>3 DEF MediaOK, Media
    <3>6. QED
      BY <3>4, <3>5
  <2>2. CASE ~Finish
    <3>1. MediaOK'
      <4>1. UNCHANGED <<mail, cur, prev, calls, ended>>
        BY <2>2 DEF Player, Pause, Resume, ReadStart, Start, ReadContinue, WriteCodec, ReadStop, End,
                    CodecStops, vars
      <4>2. QED
        BY <4>1 DEF MediaOK
    <3>2. UNCHANGED <<stopFlag, completely, prevPaused, unwaited>>
      BY <2>2 DEF Player, Pause, Resume, ReadStart, Start, ReadContinue, WriteCodec, ReadStop, End,
                  CodecStops, vars
    <3>3. finished' \in BOOLEAN /\ signal' \in BOOLEAN
      BY <2>2 DEF Player, Pause, Resume, ReadStart, Start, ReadContinue, WriteCodec, ReadStop, End,
                  CodecStops, vars, FlagsOK
    <3>4. started' \in BOOLEAN /\ error' \in BOOLEAN
      BY <2>2 DEF Player, Pause, Resume, ReadStart, Start, ReadContinue, WriteCodec, ReadStop, End,
                  CodecStops, vars, FlagsOK
    <3>5. QED
      BY <3>1, <3>2, <3>3, <3>4 DEF FlagsOK
  <2>3. QED
    BY <2>1, <2>2
<1>4. PlayerOK'
  <2>1. token' \in {token, token + 1}
    BY DEF Player, Pause, Resume, ReadStart, Start, ReadContinue, WriteCodec, ReadStop, End,
           Finish, CodecStops, vars, PlayerOK
  <2>2. status' \in {status, "IDLE", "PLAYING"}
    BY DEF Player, Pause, Resume, ReadStart, Start, ReadContinue, WriteCodec, ReadStop, End,
           Finish, CodecStops, vars, PlayerOK
  <2>3. player' \in {player, "loop", "paused", "awake", "starting", "writing", "ending", "draining"}
    BY DEF Player, Pause, Resume, ReadStart, Start, ReadContinue, WriteCodec, ReadStop, End,
           Finish, CodecStops, vars, PlayerOK
  <2>4. codec' \in {codec, "idle", "playing", "stopping"}
    BY DEF Player, Pause, Resume, ReadStart, Start, ReadContinue, WriteCodec, ReadStop, End,
           Finish, CodecStops, vars, PlayerOK
  <2>5. QED
    BY <2>1, <2>2, <2>3, <2>4 DEF PlayerOK, Statuses, Playing
<1>5. QED
  BY <1>1, <1>2, <1>3, <1>4

LEMMA TypeCallers ==
  ASSUME TypeInv, NEW c \in Callers,
         \/ CallGoesOn(c) \/ AskPause(c) \/ AskContinue(c)
         \/ \E kind \in Jobs : AskStop(c, kind)
  PROVE  TypeInv'
<1> USE Bounds DEF TypeInv, requests, previous, manager, pipe, play, thread, history
<1>1. ChunksOK' /\ ManagerOK'
  <2>1. UNCHANGED <<buffer, hand, manager>>
    BY DEF CallGoesOn, SetIdle, Silence, Put, SetPaused, Continue, AskPause, AskContinue, AskStop
  <2>2. QED
    BY <2>1 DEF ChunksOK, ManagerOK
<1>2. PlayerOK'
  <2>1. /\ status' \in {status, "IDLE", "PLAYING", "PAUSE"} /\ codec' \in {codec, "idle"}
        /\ UNCHANGED <<token, player>>
    BY DEF CallGoesOn, SetIdle, Silence, Put, SetPaused, Continue, AskPause, AskContinue, AskStop
  <2>2. QED
    BY <2>1 DEF PlayerOK, Statuses, Playing
<1>3. FlagsOK'
  <2>1. UNCHANGED <<finished, started, error, unwaited>> /\ stopFlag' \in {stopFlag, TRUE}
    BY DEF CallGoesOn, SetIdle, Silence, Put, SetPaused, Continue, AskPause, AskContinue, AskStop
  <2>2. completely' \in BOOLEAN
    BY DEF CallGoesOn, SetIdle, Silence, Put, SetPaused, Continue, AskPause, AskContinue, AskStop,
           FlagsOK
  <2>3. signal' \in BOOLEAN
    BY DEF CallGoesOn, SetIdle, Silence, Put, SetPaused, Continue, AskPause, AskContinue, AskStop,
           FlagsOK
  <2>4. prevPaused' \in BOOLEAN
    BY DEF CallGoesOn, SetIdle, Silence, Put, SetPaused, Continue, AskPause, AskContinue, AskStop,
           FlagsOK
  <2>5. QED
    BY <2>1, <2>2, <2>3, <2>4 DEF FlagsOK
<1>4. ASSUME NEW place \in Places, GoTo(c, place),
             place \in {"stop", "silence", "put"} => caller[c].of.id # 0,
             place = "put" => caller[c].of.kind \in Kinds
      PROVE  CallersOK'
  <2>1. caller \in [Callers -> Call] /\ caller' = [caller EXCEPT ![c].at = place]
    BY <1>4 DEF GoTo, CallersOK
  <2>2. /\ caller' \in [Callers -> Call]
        /\ caller'[c].at = place /\ caller'[c].of = caller[c].of
        /\ \A d \in Callers : d # c => caller'[d] = caller[d]
    BY ONLY <1>4, <2>1 DEF Call
  <2>3. QED
    BY <1>4, <2>2 DEF CallersOK
<1>5. ASSUME Return(c) PROVE CallersOK'
  <2>1. Rest \in Call /\ Rest.at = "idle"
    BY DEF Rest, Call, Places, Statuses, NoMedia
  <2>2. QED
    BY <1>5, <2>1 DEF Return, CallersOK
<1>6. CASE \E kind \in Jobs : AskStop(c, kind)
  <2>1. PICK kind \in Jobs : AskStop(c, kind)
    BY <1>6
  <2>2. /\ calls < MaxCalls /\ calls' = calls + 1 /\ UNCHANGED <<mail, cur, prev, ended>>
        /\ caller' = [caller EXCEPT ![c] = [at |-> "stop", old |-> status,
                                            of |-> [id |-> calls + 1, kind |-> kind]]]
    BY <2>1 DEF AskStop, Called
  <2>3. MediaOK'
    BY <2>2 DEF MediaOK
  <2>4. calls + 1 \in 1 .. MaxCalls /\ status \in Statuses
    BY <2>2 DEF MediaOK, PlayerOK
  <2>5. [at |-> "stop", old |-> status, of |-> [id |-> calls + 1, kind |-> kind]] \in Call
    BY <2>4 DEF Call, Places
  <2>6. CallersOK'
    BY <2>2, <2>4, <2>5 DEF CallersOK
  <2>7. QED
    BY <1>1, <1>2, <1>3, <2>3, <2>6
<1>7. CASE SetIdle(c) \/ Silence(c) \/ SetPaused(c)
  <2>1. MediaOK'
    BY <1>7 DEF SetIdle, Silence, SetPaused, MediaOK, Media
  <2>2. ASSUME SetIdle(c) \/ SetPaused(c) PROVE CallersOK'
    <3>1. CASE SetIdle(c)
      <4>1. GoTo(c, "silence") /\ caller[c].at = "stop"
        BY <3>1 DEF SetIdle
      <4>2. caller[c].of.id # 0
        BY <4>1 DEF CallersOK
      <4>3. QED
        BY <1>4, <4>1, <4>2 DEF Places
    <3>2. CASE SetPaused(c)
      BY <1>5, <3>2 DEF SetPaused
    <3>3. QED
      BY <2>2, <3>1, <3>2
  <2>3. ASSUME Silence(c) PROVE CallersOK'
    <3>1. caller[c].at = "silence" /\ caller[c].of.id # 0
      BY <2>3 DEF Silence, CallersOK
    <3>2. (caller[c].of.kind \in Kinds /\ GoTo(c, "put")) \/ Return(c)
      BY <2>3 DEF Silence
    <3>3. QED
      BY <1>4, <1>5, <3>1, <3>2 DEF Places
  <2>4. QED
    BY <1>1, <1>2, <1>3, <1>7, <2>1, <2>2, <2>3
<1>8. CASE Put(c)
  <2>1. caller[c].of \in Media
    BY <1>8 DEF Put, CallersOK, Call, Media
  <2>2. MediaOK'
    BY <1>8, <2>1 DEF Put, MediaOK
  <2>3. QED
    BY <1>1, <1>2, <1>3, <1>5, <1>8, <2>2 DEF Put
<1>9. CASE AskPause(c) \/ AskContinue(c)
  <2>1. MediaOK'
    <3>1. calls' \in 0 .. MaxCalls
      <4>1. calls < MaxCalls /\ calls' = calls + 1
        BY <1>9 DEF AskPause, AskContinue, Called
      <4>2. QED
        BY <4>1 DEF MediaOK
    <3>2. UNCHANGED <<mail, cur, prev, ended>>
      BY <1>9 DEF AskPause, AskContinue
    <3>3. QED
      BY <3>1, <3>2 DEF MediaOK
  <2>2. CallersOK'
    <3>1. \/ caller' = caller
          \/ \E place \in {"resume", "pause", "continue"} : GoTo(c, place)
      BY <1>9 DEF AskPause, AskContinue
    <3>2. QED
      BY <1>4, <3>1 DEF CallersOK, Places
  <2>3. QED
    BY <1>1, <1>2, <1>3, <2>1, <2>2
<1>10. CASE Continue(c)
  <2>1. MediaOK'
    BY <1>10 DEF Continue, MediaOK, Media
  <2>2. QED
    BY <1>1, <1>2, <1>3, <1>5, <1>10, <2>1 DEF Continue
<1>11. QED
  BY <1>6, <1>7, <1>8, <1>9, <1>10 DEF CallGoesOn

LEMMA TypeNext == TypeInv /\ [Next]_vars => TypeInv'
  BY TypeMdm, TypePlayer, TypeCallers DEF Next

\* The manager, the player and the callers keep their variables in their sets,
\* for any number of callers, calls and chunks.
THEOREM PipelineTypeCorrect == Spec => []TypeOK
<1>1. QED
  BY InvIsTyped, TypeInit, TypeNext, PTL DEF Spec

(***************************************************************************)
(* While the manager waited for the end of each medium (~unwaited), what   *)
(* it does tells what the buffer and the player hold.                      *)
(***************************************************************************)
Working == player \in {"starting", "writing", "ending", "draining"}
AtStop == player \in {"ending", "draining"}

\* Nothing of a medium is left.
Quiet == buffer = <<>> /\ ~Working /\ token = 0

\* The last chunk is not written yet.
Open ==
  /\ \A i \in DOMAIN buffer : buffer[i].command # "STOP"
  /\ ~AtStop /\ token = 0

\* The last chunk is written: it is the last one in the buffer, or the player
\* works on it, or it is played and the semaphore may be released.
StopWaits ==
  /\ buffer # <<>> /\ token = 0 /\ ~AtStop
  /\ \A i \in DOMAIN buffer : buffer[i].command = "STOP" <=> i = Len(buffer)
StopPlays == buffer = <<>> /\ AtStop /\ token = 0
StopDone == buffer = <<>> /\ ~Working /\ token <= 1
Closed == StopWaits \/ StopPlays \/ StopDone

OfCur ==
  /\ \A i \in DOMAIN buffer : buffer[i].of = cur
  /\ Working => hand.of = cur

Phases ==
  /\ mdm \in {"idle", "taken", "settle"} => Quiet
  /\ mdm \in {"get", "write"} => Open
  /\ (mdm = "get" /\ sent = 0) => Quiet
  /\ mdm \in {"report", "nap"} =>
       \/ Quiet /\ sent = 0
       \/ ((Open /\ error) \/ Closed) /\ sent > 0
  /\ mdm = "waiting" => Closed

PhaseInv == ~unwaited => OfCur /\ Phases

LEMMA PhaseImplies == TypeInv /\ PhaseInv => MediaAreNotMixed /\ EndsAreCounted
<1> SUFFICES ASSUME TypeInv, PhaseInv, ~unwaited PROVE MediaAreNotMixed /\ EndsAreCounted
  BY DEF MediaAreNotMixed, EndsAreCounted
<1>1. MediaAreNotMixed
  BY DEF PhaseInv, OfCur, Working, MediaAreNotMixed
<1>2. token \in Nat /\ mdm \in {"idle", "taken", "get", "write", "report", "nap", "waiting", "settle"}
  BY DEF TypeInv, PlayerOK, ManagerOK
<1>3. EndsAreCounted
  BY <1>2 DEF PhaseInv, Phases, Quiet, Open, Closed, StopWaits, StopPlays, StopDone, EndsAreCounted
<1>4. QED
  BY <1>1, <1>3

LEMMA PhaseInit == Init => PhaseInv
  BY DEF Init, PhaseInv, Phases, OfCur, Quiet, Working

\* An action of the manager that neither writes nor takes the semaphore.
LEMMA PhaseMdm ==
  ASSUME TypeInv, PhaseInv, ~unwaited', Mdm
  PROVE  OfCur' /\ Phases'
<1>0. ~unwaited
  BY DEF Mdm, Take, ResetStopFlag, GetNothing, GetChunk, GiveUp, Refuse, StopNow, Write, Report, WakeUp,
         PlayHasEnded, Settle, vars, history
<1>1. OfCur /\ Phases /\ ManagerOK /\ ChunksOK /\ PlayerOK
  BY <1>0 DEF PhaseInv, TypeInv
<1> USE Bounds DEF history, pipe, thread, manager, play
<1>2. CASE UNCHANGED <<buffer, token, player, hand>>
  <2>1. /\ Quiet' = Quiet /\ Open' = Open /\ Closed' = Closed /\ Working' = Working
    BY <1>2 DEF Quiet, Open, Closed, StopWaits, StopPlays, StopDone, Working, AtStop
  <2>2. CASE Take
    BY <1>1, <2>1, <2>2, <1>2 DEF Take, OfCur, Phases, Quiet
  <2>3. CASE ResetStopFlag
    BY <1>1, <2>1, <2>3, <1>2 DEF ResetStopFlag, OfCur, Phases, Quiet, Open, Working, AtStop
  <2>4. CASE GetNothing
    BY <1>1, <2>1, <2>4, <1>2 DEF GetNothing, OfCur, Phases
  <2>5. CASE GetChunk
    BY <1>1, <2>1, <2>5, <1>2 DEF GetChunk, OfCur, Phases
  <2>6. CASE GiveUp
    <3>1. /\ mdm' = "report" /\ Open' /\ error' /\ sent' = sent /\ sent \in Nat
          /\ sent = 0 => Quiet'
      BY <1>1, <2>1, <2>6 DEF GiveUp, Phases, ManagerOK
    <3>2. Phases'
      BY <3>1 DEF Phases
    <3>3. QED
      BY <1>1, <2>1, <2>6, <3>2, <1>2 DEF GiveUp, OfCur
  <2>7. CASE Refuse
    <3>1. /\ mdm' \in {"write", "report"} /\ sent' = sent /\ sent = 0
          /\ UNCHANGED <<cur, error>> /\ Quiet'
      BY <1>1, <2>1, <2>7 DEF Refuse, Phases
    <3>2. Open'
      BY <3>1 DEF Quiet, Open, Working, AtStop
    <3>3. Phases'
      BY <3>1, <3>2 DEF Phases
    <3>4. QED
      BY <1>1, <2>1, <3>1, <3>3, <1>2 DEF OfCur
  <2>8. CASE Report
    BY <1>1, <2>1, <2>8, <1>2 DEF Report, OfCur, Phases
  <2>9. CASE WakeUp
    <3>1. OfCur'
      BY <1>1, <2>1, <2>9, <1>2 DEF WakeUp, OfCur
    <3>2. CASE mdm' = "settle"
      <4>1. ~(sent > 0) /\ mdm = "nap"
        BY <2>9, <3>2 DEF WakeUp
      <4>2. Quiet'
        BY <1>1, <2>1, <4>1 DEF Phases
      <4>3. QED
        BY <3>1, <3>2, <4>2 DEF Phases
    <3>3. CASE mdm' = "waiting"
      <4>1. mdm = "nap" /\ started /\ ~error
        BY <2>9, <3>3 DEF WakeUp
      <4>2. Quiet => Closed
        BY DEF Quiet, Closed, StopDone
      <4>3. Closed'
        BY <1>1, <2>1, <4>1, <4>2 DEF Phases
      <4>4. QED
        BY <3>1, <3>3, <4>3 DEF Phases
    <3>4. QED
      BY <2>9, <3>2, <3>3 DEF WakeUp
  <2>10. CASE Settle
    BY <1>1, <2>1, <2>10, <1>2 DEF Settle, OfCur, Phases, Quiet
  <2>11. CASE Write
    <3>1. buffer' # buffer
      BY <1>1, <2>11 DEF Write, ChunksOK
    <3>2. QED
      BY <1>2, <3>1
  <2>12. CASE PlayHasEnded
    BY <1>1, <1>2, <2>12 DEF PlayHasEnded, PlayerOK
  <2>13. QED
    BY <2>2, <2>3, <2>4, <2>5, <2>6, <2>7, <2>8, <2>9, <2>10, <2>11, <2>12 DEF Mdm
<1>3. CASE Write
  <2>1. /\ mdm = "write" /\ sent' = sent + 1 /\ sent \in Nat
        /\ buffer' = Append(buffer, [command |-> command, of |-> cur])
        /\ UNCHANGED <<cur, command, token, player, hand>>
        /\ mdm' = IF command = "STOP" THEN "report" ELSE "get"
    BY <1>1, <1>3 DEF Write, ManagerOK
  <2>2. /\ buffer \in Seq(Chunk) /\ [command |-> command, of |-> cur] \in Chunk
    BY <1>1 DEF ChunksOK, ManagerOK, Chunk, TypeInv, MediaOK
  <2>3. /\ Len(buffer') = Len(buffer) + 1 /\ buffer' # <<>>
        /\ DOMAIN buffer' = 1 .. Len(buffer) + 1
        /\ \A i \in DOMAIN buffer : i \in 1 .. Len(buffer) /\ buffer'[i] = buffer[i]
        /\ buffer'[Len(buffer) + 1] = [command |-> command, of |-> cur]
        /\ DOMAIN buffer = 1 .. Len(buffer) /\ Len(buffer) \in Nat
    BY <2>1, <2>2
  <2>4. OfCur'
    BY <1>1, <2>1, <2>3 DEF OfCur, Working
  <2>5. Open
    BY <1>1, <2>1 DEF Phases
  <2>6. CASE command = "STOP"
    <3>1. StopWaits'
      BY <2>1, <2>3, <2>5, <2>6 DEF StopWaits, Open, AtStop
    <3>2. QED
      BY <2>1, <2>4, <2>6, <3>1 DEF Phases, Closed
  <2>7. CASE command # "STOP"
    <3>1. Open'
      BY <2>1, <2>3, <2>5, <2>7 DEF Open, AtStop
    <3>2. QED
      BY <2>1, <2>4, <2>7, <3>1 DEF Phases
  <2>8. QED
    BY <2>6, <2>7
<1>4. CASE PlayHasEnded
  <2>1. /\ mdm = "waiting" /\ token > 0 /\ mdm' = "settle" /\ token' = token - 1
        /\ UNCHANGED <<cur, buffer, player, hand>> /\ token \in Nat
    BY <1>1, <1>4 DEF PlayHasEnded, PlayerOK
  <2>2. StopDone
    BY <1>1, <2>1 DEF Phases, Closed, StopWaits, StopPlays
  <2>3. Quiet'
    BY <2>1, <2>2 DEF StopDone, Quiet, Working
  <2>4. QED
    BY <1>1, <2>1, <2>3 DEF OfCur, Phases, Working
<1>5. QED
  BY <1>2, <1>3, <1>4 DEF Mdm, Take, ResetStopFlag, GetNothing, GetChunk, GiveUp, Refuse, StopNow, Report, WakeUp,
     Settle

\* The chunk that is read leaves the others as they were.
LEMMA HeadLeaves ==
  ASSUME buffer \in Seq(Chunk), buffer # <<>>, buffer' = Tail(buffer), NEW P, NEW Q,
         \A i \in DOMAIN buffer : buffer[i].of = P
  PROVE  /\ \A i \in DOMAIN buffer' : buffer'[i].of = P /\ i + 1 \in DOMAIN buffer
                                      /\ buffer'[i] = buffer[i + 1]
         /\ Head(buffer) = buffer[1] /\ 1 \in DOMAIN buffer
         /\ Len(buffer') = Len(buffer) - 1 /\ Len(buffer) \in Nat
         /\ buffer' = <<>> <=> Len(buffer) = 1
<1>1. /\ Len(buffer) \in Nat /\ Len(buffer) > 0 /\ DOMAIN buffer = 1 .. Len(buffer)
      /\ Len(buffer') = Len(buffer) - 1 /\ buffer' \in Seq(Chunk)
      /\ DOMAIN buffer' = 1 .. Len(buffer) - 1
  OBVIOUS
<1>2. \A i \in 1 .. Len(buffer) - 1 : buffer'[i] = buffer[i + 1]
  BY <1>1
<1>3. Head(buffer) = buffer[1]
  OBVIOUS
<1>4. buffer' = <<>> <=> Len(buffer) = 1
  BY <1>1
<1>5. QED
  BY <1>1, <1>2, <1>3, <1>4

\* The player reads a chunk: the medium is the manager's, and the last chunk of
\* a medium is read after all the others.
LEMMA ReadsInPhase ==
  ASSUME TypeInv, OfCur, Phases, NEW cmd \in Commands, Reads(cmd)
  PROVE  /\ ~Working /\ ~Quiet /\ token = 0
         /\ hand'.of = cur /\ hand'.command = cmd /\ \A i \in DOMAIN buffer' : buffer'[i].of = cur
         /\ Open => /\ cmd # "STOP" /\ \A i \in DOMAIN buffer' : buffer'[i].command # "STOP"
         /\ Closed => /\ StopWaits
                      /\ cmd = "STOP" <=> buffer' = <<>>
                      /\ \A i \in DOMAIN buffer' : buffer'[i].command = "STOP" <=> i = Len(buffer')
<1>1. /\ player \in {"awake", "loop"} /\ buffer # <<>> /\ Head(buffer).command = cmd
      /\ hand' = Head(buffer) /\ buffer' = Tail(buffer)
  BY DEF Reads
<1>2. buffer \in Seq(Chunk)
  BY DEF TypeInv, ChunksOK
<1>3. /\ \A i \in DOMAIN buffer' : buffer'[i].of = cur /\ i + 1 \in DOMAIN buffer
                                   /\ buffer'[i] = buffer[i + 1]
      /\ Head(buffer) = buffer[1] /\ 1 \in DOMAIN buffer
      /\ Len(buffer') = Len(buffer) - 1 /\ Len(buffer) \in Nat
      /\ buffer' = <<>> <=> Len(buffer) = 1
  BY <1>1, <1>2, HeadLeaves DEF OfCur
<1>4. ~Working /\ ~Quiet
  BY <1>1 DEF Working, Quiet
<1>5. hand'.of = cur /\ hand'.command = cmd
  BY <1>1, <1>3 DEF OfCur
<1>6. ASSUME Closed
      PROVE  /\ StopWaits
             /\ cmd = "STOP" <=> buffer' = <<>>
             /\ \A i \in DOMAIN buffer' : buffer'[i].command = "STOP" <=> i = Len(buffer')
  <2>1. StopWaits
    BY <1>1, <1>6 DEF Closed, StopPlays, StopDone
  <2>2. cmd = "STOP" <=> 1 = Len(buffer)
    BY <1>1, <1>3, <2>1 DEF StopWaits
  <2>3. DOMAIN buffer' \subseteq Int
    BY <1>1, <1>2
  <2>4. \A i \in DOMAIN buffer' : buffer'[i].command = "STOP" <=> i + 1 = Len(buffer)
    BY <1>3, <2>1 DEF StopWaits
  <2>5. QED
    BY <1>3, <2>1, <2>2, <2>3, <2>4
<1>7. Open \/ Closed
  BY <1>4 DEF Phases, TypeInv, ManagerOK
<1>8. token = 0
  BY <1>6, <1>7 DEF Open, StopWaits
<1>9. Open => /\ cmd # "STOP" /\ \A i \in DOMAIN buffer' : buffer'[i].command # "STOP"
  BY <1>1, <1>3 DEF Open
<1>10. QED
  BY <1>3, <1>4, <1>5, <1>6, <1>8, <1>9

\* What the player does keeps the phase the manager is in.
LEMMA PhasesKept ==
  ASSUME OfCur, Phases, UNCHANGED <<mdm, sent, cur>>, OfCur',
         error => error', Quiet => Quiet', Open => Open', Closed => Closed'
  PROVE  OfCur' /\ Phases'
  BY DEF Phases

LEMMA PhasePlayer ==
  ASSUME TypeInv, PhaseInv, ~unwaited', Player
  PROVE  OfCur' /\ Phases'
<1>1. UNCHANGED <<mdm, sent, cur, unwaited>>
  BY DEF Player, Pause, Resume, ReadStart, Start, ReadContinue, WriteCodec, ReadStop, End,
         Finish, vars, manager, history
<1>2. OfCur /\ Phases /\ ChunksOK /\ PlayerOK /\ FlagsOK
  BY <1>1 DEF PhaseInv, TypeInv
<1> USE DEF manager, pipe, thread, play, history
<1>3. CASE Pause \/ Resume
  <2>1. /\ UNCHANGED <<buffer, token, error, hand>>
        /\ player \notin {"starting", "writing", "ending", "draining"}
        /\ player' \notin {"starting", "writing", "ending", "draining"}
    BY <1>3 DEF Pause, Resume
  <2>2. OfCur'
    BY <1>1, <1>2, <2>1 DEF OfCur, Working
  <2>3. (Quiet => Quiet') /\ (Open => Open') /\ (Closed => Closed')
    BY <2>1 DEF Quiet, Open, Closed, StopWaits, StopPlays, StopDone, Working, AtStop
  <2>4. QED
    BY <1>1, <1>2, <2>1, <2>2, <2>3, PhasesKept
<1>4. CASE ReadStart \/ ReadContinue
  <2>1. PICK cmd \in {"START", "CONTINUE"} : Reads(cmd)
    BY <1>4 DEF ReadStart, ReadContinue
  <2>2. /\ UNCHANGED token /\ ~AtStop'
        /\ error => error'
    BY <1>2, <1>4 DEF ReadStart, ReadContinue, AtStop
  <2>3. cmd \in Commands /\ cmd # "STOP"
    BY <2>1 DEF Commands
  <2>4. /\ ~Working /\ ~Quiet /\ token = 0
        /\ hand'.of = cur /\ \A i \in DOMAIN buffer' : buffer'[i].of = cur
        /\ Open => \A i \in DOMAIN buffer' : buffer'[i].command # "STOP"
        /\ Closed => /\ StopWaits /\ buffer' # <<>>
                     /\ \A i \in DOMAIN buffer' : buffer'[i].command = "STOP" <=> i = Len(buffer')
    BY <1>2, <2>1, <2>3, ReadsInPhase
  <2>5. OfCur'
    BY <1>1, <2>4 DEF OfCur
  <2>6. (Open => Open') /\ (Closed => Closed')
    BY <2>2, <2>4 DEF Open, Closed, StopWaits
  <2>7. QED
    BY <1>1, <1>2, <2>2, <2>4, <2>5, <2>6, PhasesKept
<1>5. CASE ReadStop
  <2>1. Reads("STOP") /\ "STOP" \in Commands /\ UNCHANGED error
    BY <1>5 DEF ReadStop, Commands
  <2>2. /\ ~Working /\ ~Quiet /\ token = 0 /\ ~Open
        /\ hand'.of = cur /\ \A i \in DOMAIN buffer' : buffer'[i].of = cur
        /\ Closed => buffer' = <<>>
    BY <1>2, <2>1, ReadsInPhase
  <2>3. \/ player' = "ending" /\ token' = 0
        \/ player' = "loop" /\ token' \in {0, 1}
    BY <1>5, <2>2 DEF ReadStop
  <2>4. OfCur'
    BY <1>1, <2>2 DEF OfCur
  <2>5. Closed => Closed'
    BY <2>2, <2>3 DEF Closed, StopPlays, StopDone, AtStop, Working
  <2>6. QED
    BY <1>1, <1>2, <2>1, <2>2, <2>4, <2>5, PhasesKept
<1>6. CASE Start \/ WriteCodec
  <2>1. /\ player \in {"starting", "writing"} /\ player' = "loop"
        /\ UNCHANGED <<buffer, token, hand>>
    BY <1>6 DEF Start, WriteCodec
  <2>0. error => error'
    BY <1>6, Zenon DEF Start, WriteCodec
  <2>2. OfCur'
    BY <1>1, <1>2, <2>1 DEF OfCur, Working
  <2>3. ~Quiet /\ (Open => Open') /\ (Closed => Closed')
    BY <2>1 DEF Quiet, Open, Closed, StopWaits, StopPlays, StopDone, Working, AtStop
  <2>4. QED
    BY <1>1, <1>2, <2>0, <2>1, <2>2, <2>3, PhasesKept
<1>7. CASE End
  <2>1. /\ player = "ending" /\ player' \in {"draining", "loop"}
        /\ UNCHANGED <<buffer, token, hand>> /\ (error => error')
    BY <1>2, <1>7 DEF End
  <2>2. OfCur'
    BY <1>1, <1>2, <2>1 DEF OfCur, Working
  <2>3. ~Quiet /\ ~Open /\ (Closed => Closed')
    BY <1>2, <2>1 DEF Quiet, Open, Closed, StopWaits, StopPlays, StopDone, Working, AtStop
  <2>4. QED
    BY <1>1, <1>2, <2>1, <2>2, <2>3, PhasesKept
<1>8. CASE Finish
  <2>1. /\ player = "draining" /\ player' = "loop" /\ token' \in {token, token + 1}
        /\ UNCHANGED <<buffer, hand>>
    BY <1>8 DEF Finish
  <2>0. error => error'
    BY <1>8, Zenon DEF Finish
  <2>2. OfCur'
    BY <1>1, <1>2, <2>1 DEF OfCur, Working
  <2>3. ~Quiet /\ ~Open /\ (Closed => Closed')
    BY <2>1 DEF Quiet, Open, Closed, StopWaits, StopPlays, StopDone, Working, AtStop
  <2>4. QED
    BY <1>1, <1>2, <2>0, <2>1, <2>2, <2>3, PhasesKept
<1>9. QED
  BY <1>3, <1>4, <1>5, <1>6, <1>7, <1>8 DEF Player

\* Callers and the codec touch nothing of it.
LEMMA PhaseOthers ==
  ASSUME TypeInv, PhaseInv, ~unwaited',
         UNCHANGED <<mdm, sent, cur, buffer, token, player, hand, error, unwaited>>
  PROVE  OfCur' /\ Phases'
<1>1. OfCur /\ Phases
  BY DEF PhaseInv
<1>2. OfCur' /\ (Quiet => Quiet') /\ (Open => Open') /\ (Closed => Closed')
  BY <1>1 DEF OfCur, Quiet, Open, Closed, StopWaits, StopPlays, StopDone, Working, AtStop
<1>3. QED
  BY <1>1, <1>2, PhasesKept

LEMMA CallersTouchNothing ==
  ASSUME NEW c \in Callers,
         \/ CallGoesOn(c) \/ AskPause(c) \/ AskContinue(c)
         \/ \E kind \in Jobs : AskStop(c, kind)
  PROVE  UNCHANGED <<manager, pipe, player, hand, finished, history>>
  BY DEF CallGoesOn, SetIdle, Silence, Put, SetPaused, Continue, AskPause, AskContinue, AskStop,
         play, thread

LEMMA PhaseNext == TypeInv /\ PhaseInv /\ [Next]_vars => PhaseInv'
<1> SUFFICES ASSUME TypeInv, PhaseInv, [Next]_vars, ~unwaited' PROVE OfCur' /\ Phases'
  BY DEF PhaseInv
<1>1. CASE Mdm
  BY <1>1, PhaseMdm
<1>2. CASE Player
  BY <1>2, PhasePlayer
<1>3. CASE CodecStops \/ UNCHANGED vars
  <2>1. UNCHANGED <<mdm, sent, cur, buffer, token, player, hand, error, unwaited>>
    BY <1>3 DEF CodecStops, vars, manager, pipe, thread, history
  <2>2. QED
    BY <2>1, PhaseOthers
<1>4. ASSUME NEW c \in Callers,
             \/ CallGoesOn(c) \/ AskPause(c) \/ AskContinue(c)
             \/ \E kind \in Jobs : AskStop(c, kind)
      PROVE  OfCur' /\ Phases'
  <2>1. UNCHANGED <<mdm, sent, cur, buffer, token, player, hand, error, unwaited>>
    BY <1>4, CallersTouchNothing DEF manager, pipe, history
  <2>2. QED
    BY <2>1, PhaseOthers
<1>5. QED
  BY <1>1, <1>2, <1>3, <1>4 DEF Next

LEMMA PhaseAlways == Spec => [](TypeInv /\ PhaseInv)
<1>1. Init => TypeInv /\ PhaseInv
  BY TypeInit, PhaseInit
<1>2. TypeInv /\ PhaseInv /\ [Next]_vars => (TypeInv /\ PhaseInv)'
  BY TypeNext, PhaseNext
<1>3. QED
  BY <1>1, <1>2, PTL DEF Spec

\* While the manager waited for the end of each medium, the chunks in the
\* buffer and the one the player works on are of the medium it works on.
THEOREM MediaStayApart == Spec => []MediaAreNotMixed
<1>1. TypeInv /\ PhaseInv => MediaAreNotMixed
  BY PhaseImplies
<1>2. QED
  BY <1>1, PhaseAlways, PTL

\* As long as the manager waited for the end of everything it wrote, no release
\* of the semaphore is left over for the next medium.
THEOREM EndsStayCounted == Spec => []EndsAreCounted
<1>1. TypeInv /\ PhaseInv => EndsAreCounted
  BY PhaseImplies
<1>2. QED
  BY <1>1, PhaseAlways, PTL

(***************************************************************************)
(* What is kept.  A medium is in one place at a time: with a caller, in    *)
(* the mailbox, with the manager or kept; only what the manager works on   *)
(* can be played to its end, and then the manager knows that it finished.  *)
(***************************************************************************)
\* The medium that caller c is about to ask for.
Own(c) == IF caller[c].at \in {"stop", "silence", "put"} THEN caller[c].of.id ELSE 0

Apart ==
  /\ calls \in Nat /\ prev # NullUrl /\ ended \subseteq 0 .. calls
  /\ mail.id \in 0 .. calls /\ cur.id \in 0 .. calls /\ prev.id \in 0 .. calls
  /\ mail.id # 0 => mail.id \notin ended /\ mail.id # cur.id /\ mail.id # prev.id
  /\ prev.id # 0 => prev.id \notin ended /\ prev.id # cur.id
  /\ \A c \in Callers :
       /\ Own(c) \in 0 .. calls
       /\ Own(c) # 0 => /\ Own(c) \notin ended
                        /\ Own(c) # mail.id /\ Own(c) # cur.id /\ Own(c) # prev.id
       /\ \A d \in Callers : (c # d /\ Own(c) # 0) => Own(c) # Own(d)

Over ==
  /\ finished /\ buffer = <<>> /\ ~Working
  /\ mdm \in {"report", "nap", "waiting", "settle"}
EndIsKnown == (cur.id # 0 /\ cur.id \in ended) => Over

KeptInv == ~unwaited => Apart /\ EndIsKnown

LEMMA NoMediaHasNoId == NoMedia.id = 0 /\ NoMedia # NullUrl
  BY DEF NoMedia, NullUrl

LEMMA KeptImplies == TypeInv /\ KeptInv => KeptWasCut
<1> SUFFICES ASSUME TypeInv, KeptInv, ~unwaited, prev # NoMedia PROVE prev.id \notin ended
  BY DEF KeptWasCut
<1>1. prev.id # 0
  BY Bounds DEF KeptInv, Apart, TypeInv, MediaOK, Media, NullUrl
<1>2. QED
  BY <1>1 DEF KeptInv, Apart

LEMMA KeptInit == Init => KeptInv
<1> SUFFICES ASSUME Init PROVE Apart /\ EndIsKnown
  BY DEF KeptInv
<1>1. \A c \in Callers : Own(c) = 0
  BY DEF Init, Own, Rest
<1>2. QED
  BY <1>1 DEF Init, Apart, EndIsKnown, NoMedia, NullUrl

\* A new song of a queue has an id of its own.
LEMMA NewSongApart ==
  ASSUME MediaOK, Apart, PlayQueue, UNCHANGED <<cur, prev, caller>>,
         ended' \subseteq ended \cup {cur.id}
  PROVE  Apart'
<1>1. calls \in Nat /\ calls' \in {calls, calls + 1} /\ \A c \in Callers : Own(c)' = Own(c)
  BY Bounds DEF MediaOK, PlayQueue, NextSong, Called, Own
<1>2. mail'.id = mail.id \/ (mail'.id = calls + 1 /\ calls' = calls + 1)
  BY DEF PlayQueue, NextSong, Called
<1>3. QED
  BY <1>1, <1>2 DEF Apart

LEMMA KeptMdm ==
  ASSUME TypeInv, PhaseInv, Apart, EndIsKnown, ~unwaited', Mdm
  PROVE  Apart' /\ EndIsKnown'
<1> USE DEF requests, previous, manager, pipe, play, thread, history
<1>1. UNCHANGED <<caller, ended, finished, player>> /\ \A c \in Callers : Own(c)' = Own(c)
  BY DEF Mdm, Take, ResetStopFlag, GetNothing, GetChunk, GiveUp, Refuse, StopNow, Write, Report, WakeUp,
         PlayHasEnded, Settle, Own
<1>2. CASE Take
  <2>1. /\ UNCHANGED <<prev, calls>> /\ cur' = mail /\ mail' = NoMedia
    BY <1>2 DEF Take
  <2>2. Apart'
    <3>1. cur'.id = mail.id /\ mail'.id = 0
      BY <2>1, NoMediaHasNoId
    <3>2. prev' # NullUrl /\ prev'.id = prev.id
      BY <2>1 DEF Apart
    <3>3. QED
      BY <1>1, <2>1, <3>1, <3>2 DEF Apart
  <2>3. EndIsKnown'
    BY <1>1, <2>1 DEF Apart, EndIsKnown
  <2>4. QED
    BY <2>2, <2>3
<1>3. CASE ResetStopFlag \/ GetNothing \/ GetChunk \/ GiveUp \/ Refuse \/ Write
  <2>1. /\ UNCHANGED <<mail, cur, prev, calls>>
        /\ mdm \in {"taken", "get", "write"}
    BY <1>3 DEF ResetStopFlag, GetNothing, GetChunk, GiveUp, Refuse, StopNow, Write
  <2>2. Apart'
    BY <1>1, <2>1 DEF Apart
  <2>3. EndIsKnown'
    BY <1>1, <2>1 DEF EndIsKnown, Over
  <2>4. QED
    BY <2>2, <2>3
<1>4. CASE Report \/ WakeUp \/ PlayHasEnded
  <2>1. UNCHANGED <<cur, prev, buffer>> /\ mdm' \in {"nap", "waiting", "settle"}
    BY <1>4 DEF Report, WakeUp, PlayHasEnded
  <2>2. UNCHANGED <<mail, calls>> \/ PlayQueue
    BY <1>4 DEF Report, WakeUp, PlayHasEnded, PlayQueue, StopNow
  <2>3. Apart'
    <3>1. CASE PlayQueue
      BY <1>1, <2>1, <3>1, NewSongApart DEF TypeInv
    <3>2. CASE UNCHANGED <<mail, calls>>
      BY <1>1, <2>1, <3>2 DEF Apart
    <3>3. QED
      BY <2>2, <3>1, <3>2
  <2>4. EndIsKnown'
    BY <1>1, <2>1 DEF EndIsKnown, Over, Working
  <2>5. QED
    BY <2>3, <2>4
<1>5. CASE Settle
  <2>1. /\ UNCHANGED <<mail, calls>> /\ cur' = NoMedia
        /\ \/ prev' \in {prev, NoMedia}
           \/ prev' = cur /\ cur # NullUrl /\ ~finished
    BY <1>5 DEF Settle
  <2>2. Apart'
    <3>1. CASE prev' \in {prev, NoMedia}
      <4>1. cur'.id = 0 /\ prev'.id \in {prev.id, 0} /\ prev' # NullUrl
        BY <2>1, <3>1, NoMediaHasNoId DEF Apart
      <4>2. QED
        BY <1>1, <2>1, <4>1 DEF Apart
    <3>2. CASE prev' = cur /\ cur # NullUrl /\ ~finished
      <4>1. cur.id # 0 => cur.id \notin ended
        BY <3>2 DEF EndIsKnown, Over
      <4>2. cur'.id = 0 /\ prev'.id = cur.id /\ prev' # NullUrl
        BY <2>1, <3>2, NoMediaHasNoId
      <4>3. QED
        BY <1>1, <2>1, <4>1, <4>2 DEF Apart
    <3>3. QED
      BY <2>1, <3>1, <3>2
  <2>3. EndIsKnown'
    BY <2>1 DEF EndIsKnown, NoMedia
  <2>4. QED
    BY <2>2, <2>3
<1>6. QED
  BY <1>2, <1>3, <1>4, <1>5 DEF Mdm

LEMMA KeptPlayer ==
  ASSUME TypeInv, OfCur, Phases, Apart, EndIsKnown, Player
  PROVE  Apart' /\ EndIsKnown'
<1> USE DEF requests, previous, manager, pipe, play, thread, history
<1>1. UNCHANGED <<caller, cur, mdm>> /\ \A c \in Callers : Own(c)' = Own(c)
  BY DEF Player, Pause, Resume, ReadStart, Start, ReadContinue, WriteCodec, ReadStop, End,
         Finish, Own
<1>2. CASE ~Finish
  <2>1. UNCHANGED <<mail, prev, calls, ended>>
    BY <1>2 DEF Player, Pause, Resume, ReadStart, Start, ReadContinue, WriteCodec, ReadStop, End
  <2>2. Apart'
    BY <1>1, <2>1 DEF Apart
  <2>3. CASE Pause \/ Resume
    <3>1. UNCHANGED <<finished, buffer>> /\ ~Working'
      BY <2>3 DEF Pause, Resume, Working
    <3>2. QED
      BY <1>1, <2>1, <2>2, <3>1 DEF EndIsKnown, Over
  <2>4. CASE ReadStart \/ ReadContinue \/ ReadStop
    <3>1. buffer # <<>>
      BY <2>4 DEF ReadStart, ReadContinue, ReadStop, Reads
    <3>2. QED
      BY <1>1, <2>1, <2>2, <3>1 DEF EndIsKnown, Over
  <2>5. CASE Start \/ WriteCodec \/ End
    <3>1. Working
      BY <2>5 DEF Start, WriteCodec, End, Working
    <3>2. QED
      BY <1>1, <2>1, <2>2, <3>1 DEF EndIsKnown, Over
  <2>6. QED
    BY <1>2, <2>2, <2>3, <2>4, <2>5 DEF Player
<1>3. CASE Finish
  <2>1. /\ player = "draining" /\ player' = "loop" /\ buffer' = buffer
        /\ \/ UNCHANGED <<finished, ended, mail, calls, prev>>
           \/ finished' = TRUE /\ ended' = ended \cup {hand.of.id} /\ OnFinish
    BY <1>3 DEF Finish
  <2>2. hand.of = cur /\ ~Quiet /\ ~Open
    BY <2>1 DEF OfCur, Working, Quiet, Open, AtStop
  <2>3. Closed /\ mdm \in {"report", "nap", "waiting"}
    BY <2>2 DEF Phases, TypeInv, ManagerOK
  <2>4. buffer' = <<>> /\ ~Working' /\ mdm' \in {"report", "nap", "waiting"}
    BY <1>1, <2>1, <2>3 DEF Closed, StopWaits, StopPlays, StopDone, AtStop, Working
  <2>5. CASE UNCHANGED <<finished, ended, mail, calls, prev>>
    BY <1>1, <2>1, <2>5 DEF Apart, EndIsKnown, Over, Working
  <2>6. CASE finished' = TRUE /\ ended' = ended \cup {hand.of.id} /\ OnFinish
    <3>1. EndIsKnown'
      BY <2>4, <2>6 DEF EndIsKnown, Over
    <3>2. ended' = ended \cup {cur.id}
      BY <2>2, <2>6
    <3>3. CASE PlayQueue /\ UNCHANGED prev
      BY <1>1, <3>1, <3>2, <3>3, NewSongApart DEF TypeInv
    <3>4. CASE UNCHANGED <<mail, prev, calls>>
      BY <1>1, <3>1, <3>2, <3>4 DEF Apart
    <3>5. CASE mail' = prev /\ prev' = NoMedia /\ UNCHANGED calls
      <4>1. mail'.id = prev.id /\ prev'.id = 0 /\ prev' # NullUrl
        BY <3>5, NoMediaHasNoId
      <4>2. QED
        <5>1. prev.id # 0 => prev.id # cur.id /\ prev.id \notin ended
          BY DEF Apart
        <5>2. prev.id # 0 => prev.id \notin ended'
          BY <3>2, <5>1
        <5>3. ended' \subseteq 0 .. calls'
          BY <3>2, <3>5 DEF Apart
        <5>4. \A c \in Callers : Own(c) # 0 => Own(c) \notin ended'
          BY <3>2 DEF Apart
        <5>5. QED
          BY <1>1, <3>1, <3>5, <4>1, <5>2, <5>3, <5>4 DEF Apart
    <3>6. QED
      BY <2>6, <3>3, <3>4, <3>5 DEF OnFinish
  <2>7. QED
    BY <2>1, <2>5, <2>6
<1>4. QED
  BY <1>2, <1>3

\* A caller that goes on keeps its medium, drops it or hands it over.
LEMMA OwnGoesOn ==
  ASSUME CallersOK, NEW c \in Callers, NEW place \in Places,
         GoTo(c, place) \/ Return(c) \/ UNCHANGED caller,
         place \in {"stop", "silence", "put"} => caller[c].at \in {"stop", "silence", "put"}
  PROVE  /\ Own(c)' \in {Own(c), 0} /\ (Return(c) => Own(c)' = 0)
         /\ \A d \in Callers : d # c => Own(d)' = Own(d)
<1> caller \in [Callers -> Call]
  BY DEF CallersOK
<1>1. CASE GoTo(c, place)
  <2>1. caller' = [caller EXCEPT ![c].at = place]
    BY <1>1 DEF GoTo
  <2>2. /\ caller'[c].at = place /\ caller'[c].of = caller[c].of
        /\ \A d \in Callers : d # c => caller'[d] = caller[d]
    BY <2>1 DEF Call
  <2>3. Return(c) => caller'[c] = Rest
    BY DEF Return
  <2>4. QED
    BY <2>2, <2>3 DEF Own, Rest
<1>2. CASE Return(c)
  BY <1>2 DEF Return, Own, Rest
<1>3. CASE UNCHANGED caller
  <2>1. Return(c) => caller'[c] = Rest
    BY DEF Return
  <2>2. QED
    BY <1>3, <2>1 DEF Own, Rest
<1>4. QED
  BY <1>1, <1>2, <1>3

LEMMA KeptCallers ==
  ASSUME TypeInv, Apart, EndIsKnown, NEW c \in Callers,
         \/ CallGoesOn(c) \/ AskPause(c) \/ AskContinue(c)
         \/ \E kind \in Jobs : AskStop(c, kind)
  PROVE  Apart' /\ EndIsKnown'
<1> USE DEF requests, previous, manager, pipe, play, thread, history
<1>1. UNCHANGED <<cur, mdm, ended, buffer, player, finished>>
  BY CallersTouchNothing
<1>2. EndIsKnown'
  BY <1>1 DEF EndIsKnown, Over, Working
<1>3. CallersOK /\ MediaOK /\ calls \in Nat
  BY Bounds DEF TypeInv, MediaOK
<1>4. CASE \E kind \in Jobs : AskStop(c, kind)
  <2>1. PICK kind \in Jobs : AskStop(c, kind)
    BY <1>4
  <2>2. /\ calls' = calls + 1 /\ UNCHANGED <<mail, prev>>
        /\ caller' = [caller EXCEPT ![c] = [at |-> "stop", old |-> status,
                                            of |-> [id |-> calls + 1, kind |-> kind]]]
    BY <2>1 DEF AskStop, Called
  <2>3. Own(c)' = calls + 1 /\ \A d \in Callers : d # c => Own(d)' = Own(d)
    BY <1>3, <2>2 DEF Own, CallersOK
  <2>4. Apart'
    BY <1>1, <1>3, <2>2, <2>3 DEF Apart
  <2>5. QED
    BY <1>2, <2>4
<1>5. CASE Put(c)
  <2>1. /\ Return(c) /\ mail' \in {mail, caller[c].of} /\ UNCHANGED <<prev, calls>>
        /\ Own(c) = caller[c].of.id
    BY <1>5 DEF Put, Own
  <2>2. Own(c)' = 0 /\ \A d \in Callers : d # c => Own(d)' = Own(d)
    BY <1>3, <2>1, OwnGoesOn DEF Places
  <2>3. mail'.id = mail.id \/ mail'.id = Own(c)
    BY <2>1
  <2>4. prev' = prev /\ calls' = calls
    BY <2>1
  <2>5. Apart'
    BY <1>1, <2>2, <2>3, <2>4 DEF Apart
  <2>6. QED
    BY <1>2, <2>5
<1>6. CASE Continue(c)
  <2>1. /\ Return(c) /\ UNCHANGED calls
        /\ \/ UNCHANGED <<mail, prev>>
           \/ mail'.id \in {0, prev.id} /\ prev' = NoMedia
    BY <1>6 DEF Continue, NullUrl
  <2>2. Own(c)' = 0 /\ \A d \in Callers : d # c => Own(d)' = Own(d)
    BY <1>3, <2>1, OwnGoesOn DEF Places
  <2>3. Apart'
    <3>1. CASE UNCHANGED <<mail, prev>>
      BY <1>1, <2>1, <2>2, <3>1 DEF Apart
    <3>2. CASE mail'.id \in {0, prev.id} /\ prev' = NoMedia
      <4>1. prev'.id = 0 /\ prev' # NullUrl
        BY <3>2, NoMediaHasNoId
      <4>2. QED
        BY <1>1, <2>1, <2>2, <3>2, <4>1 DEF Apart
    <3>3. QED
      BY <2>1, <3>1, <3>2
  <2>4. QED
    BY <1>2, <2>3
<1>7. CASE SetIdle(c) \/ Silence(c) \/ SetPaused(c) \/ AskPause(c) \/ AskContinue(c)
  <2>1. /\ calls' \in {calls, calls + 1} /\ UNCHANGED mail
        /\ prev' = prev \/ prev' = NoMedia
    BY <1>7 DEF SetIdle, Silence, SetPaused, AskPause, AskContinue, Called
  <2>2. \E place \in Places :
           /\ GoTo(c, place) \/ Return(c) \/ UNCHANGED caller
           /\ place \in {"stop", "silence", "put"} => caller[c].at \in {"stop", "silence", "put"}
    BY <1>7 DEF SetIdle, Silence, SetPaused, AskPause, AskContinue, Places
  <2>3. Own(c)' \in {Own(c), 0} /\ \A d \in Callers : d # c => Own(d)' = Own(d)
    BY <1>3, <2>2, OwnGoesOn
  <2>4. Apart'
    BY <1>1, <1>3, <2>1, <2>3 DEF Apart, NoMedia, NullUrl
  <2>5. QED
    BY <1>2, <2>4
<1>8. QED
  BY <1>4, <1>5, <1>6, <1>7 DEF CallGoesOn

LEMMA KeptNext == TypeInv /\ PhaseInv /\ KeptInv /\ [Next]_vars => KeptInv'
<1> SUFFICES ASSUME TypeInv, PhaseInv, KeptInv, [Next]_vars, ~unwaited'
             PROVE  Apart' /\ EndIsKnown'
  BY DEF KeptInv
<1>1. ~unwaited
  BY CallersTouchNothing
     DEF Next, Mdm, Take, ResetStopFlag, GetNothing, GetChunk, GiveUp, Refuse, StopNow, Write, Report, WakeUp,
         PlayHasEnded, Settle, Player, Pause, Resume, ReadStart, Start, ReadContinue, WriteCodec,
         ReadStop, End, Finish, CodecStops, vars, history
<1>2. OfCur /\ Phases /\ Apart /\ EndIsKnown
  BY <1>1 DEF PhaseInv, KeptInv
<1>3. CASE CodecStops \/ UNCHANGED vars
  <2>1. /\ UNCHANGED <<mail, cur, prev, ended, calls, caller, finished, buffer, player, mdm>>
    BY <1>3 DEF CodecStops, vars, requests, previous, manager, pipe, play, thread, history
  <2>2. \A c \in Callers : Own(c)' = Own(c)
    BY <2>1 DEF Own
  <2>3. QED
    BY <1>2, <2>1, <2>2 DEF Apart, EndIsKnown, Over, Working
<1>4. QED
  BY <1>2, <1>3, KeptMdm, KeptPlayer, KeptCallers DEF Next

\* As long as the manager waited for the end of everything it wrote, what is kept
\* to be continued was not played to its end.
THEOREM KeptIsCut == Spec => []KeptWasCut
<1>1. Init => KeptInv
  BY KeptInit
<1>2. TypeInv /\ PhaseInv /\ KeptInv /\ [Next]_vars => KeptInv'
  BY KeptNext
<1>3. TypeInv /\ KeptInv => KeptWasCut
  BY KeptImplies
<1>4. QED
  BY <1>1, <1>2, <1>3, PhaseAlways, PTL DEF Spec
=============================================================================
