--------------------------------- MODULE Codec ----------------------------------
(***************************************************************************)
(* What the player believes to do (s_media_player_status of                *)
(* baidu_media_play.cpp) and what the codec does (_s_status of MediaBase). *)
(* The codec's status is changed under a lock, the player's by every       *)
(* thread without one: main's thread stops, pauses, records and becomes a  *)
(* loudspeaker, the recording thread ends the recording, and the player's  *)
(* thread, which sleeps while it is paused, takes the media's data.        *)
(*                                                                         *)
(* The player's thread has a higher priority than main's: what it tests    *)
(* and sets at once is one step.  A write to the codec waits for the       *)
(* codec, and main's thread runs on meanwhile.                             *)
(***************************************************************************)
EXTENDS Integers

CONSTANT MaxMedia   \* bound: media asked for

VARIABLES
    status,    \* s_media_player_status
    codec,     \* MediaBase::_s_status
    signal,    \* S_RESUME_SIGNAL is set
    thread,    \* where the player's thread is
    stream,    \* the data of a medium has begun and not ended
    media,     \* media asked for and not begun
    asked,     \* media asked for so far
    main,      \* where main's thread is
    old,       \* oldStatus of media_play_stop
    rec,       \* where the recording thread is
    overtaken  \* history: which steps another thread came between

codecVars == <<status, codec, signal, thread, stream, media, asked, main, old, rec, overtaken>>
data == <<stream, media, asked>>

Statuses == {"IDLE", "PLAYING", "PAUSE", "RECORDING", "BT"}
CodecStatuses == Statuses \cup {"STOPPING"}
CodecPlays == codec \in {"PLAYING", "PAUSE"}
Busy == status \in {"BT", "RECORDING"}

CodecInit ==
    /\ status = "IDLE" /\ codec = "IDLE" /\ signal = FALSE /\ thread = "loop"
    /\ stream = FALSE /\ media = 0 /\ asked = 0
    /\ main = "idle" /\ old = "IDLE" /\ rec = "none" /\ overtaken = {}
-----------------------------------------------------------------------------
(* MediaBase: each one under its lock.                                     *)
StartPlay == codec' = "PLAYING"                             \* start_play
WriteData == codec' = IF CodecPlays THEN "PLAYING" ELSE codec \* write
WriteEnd == codec' = IF CodecPlays THEN "STOPPING" ELSE codec \* write(NULL, 0)
PausePlay == codec' = IF codec = "PLAYING" THEN "PAUSE" ELSE codec
\* A medium that is being ended is not stopped.
StopPlayNotEnding == codec' = IF CodecPlays THEN "IDLE" ELSE codec
StopPlay == codec' = IF CodecPlays \/ codec = "STOPPING" THEN "IDLE" ELSE codec
StartRecord == codec' = "RECORDING"
StopRecord == codec' = IF codec = "RECORDING" THEN "IDLE" ELSE codec
SetBtMode == codec' = IF codec = "IDLE" THEN "BT" ELSE codec
SetUartMode == codec' = IF codec = "BT" THEN "IDLE" ELSE codec
-----------------------------------------------------------------------------
(* Main's thread.  MediaManager looks at the status before it calls.       *)
MainKeeps == UNCHANGED <<thread, stream, asked, rec>>
Calls(at) == /\ main = "idle" /\ main' = at
             /\ UNCHANGED <<status, codec, signal, media, old, overtaken>> /\ MainKeeps

\* play_url and the like; the data manager passes the medium on.
AskPlay == /\ main = "idle" /\ ~Busy /\ asked < MaxMedia
           /\ media' = media + 1 /\ asked' = asked + 1
           /\ UNCHANGED <<status, codec, signal, thread, stream, main, old, rec, overtaken>>

\* media_play_stop in three parts: the status, the codec, the signal.
AskStop == ~Busy /\ Calls("stop")
StopStatus ==
    /\ main = "stop" /\ main' = "silence"
    /\ old' = status /\ status' = "IDLE"
    /\ overtaken' = overtaken \cup (IF Busy THEN {"check"} ELSE {})
                              \cup (IF thread \in {"start", "write"} THEN {"start"} ELSE {})
    /\ UNCHANGED <<codec, signal, media>> /\ MainKeeps
StopCodec ==
    /\ main = "silence" /\ main' = "wake" /\ StopPlay
    /\ UNCHANGED <<status, signal, media, old, overtaken>> /\ MainKeeps
StopWakes ==
    /\ main = "wake" /\ main' = "idle"
    /\ signal' = (signal \/ old = "PAUSE")
    /\ UNCHANGED <<status, codec, media, old, overtaken>> /\ MainKeeps

\* media_play_pause_or_resume: the signal comes before the status.
AskPause == ~Busy /\ status = "PLAYING" /\ Calls("pause")
SetPause ==
    /\ main = "pause" /\ main' = "idle" /\ status' = "PAUSE"
    /\ overtaken' = overtaken \cup (IF status # "PLAYING" THEN {"pause"} ELSE {})
    /\ UNCHANGED <<codec, signal, media, old>> /\ MainKeeps
AskResume == status = "PAUSE" /\ Calls("resume")
SetSignal ==
    /\ main = "resume" /\ main' = "resumed" /\ signal' = TRUE
    /\ UNCHANGED <<status, codec, media, old, overtaken>> /\ MainKeeps
SetPlaying ==
    /\ main = "resumed" /\ main' = "idle" /\ status' = "PLAYING"
    /\ overtaken' = overtaken \cup (IF status # "PAUSE" THEN {"pause"} ELSE {})
    /\ UNCHANGED <<codec, signal, media, old>> /\ MainKeeps

\* media_play_set_bt_mode and media_play_set_uart_mode
AskBtMode == status = "IDLE" /\ Calls("bt")
BtStatus ==
    /\ main = "bt" /\ main' = "bt mode" /\ status' = "BT"
    /\ overtaken' = overtaken \cup (IF status # "IDLE" THEN {"check"} ELSE {})
    /\ UNCHANGED <<codec, signal, media, old>> /\ MainKeeps
BtCodec ==
    /\ main = "bt mode" /\ main' = "idle" /\ SetBtMode
    /\ UNCHANGED <<status, signal, media, old, overtaken>> /\ MainKeeps
AskUartMode == status = "BT" /\ Calls("uart")
UartCodec ==
    /\ main = "uart" /\ main' = "uart mode" /\ SetUartMode
    /\ UNCHANGED <<status, signal, media, old, overtaken>> /\ MainKeeps
UartStatus ==
    /\ main = "uart mode" /\ main' = "idle" /\ status' = "IDLE"
    /\ UNCHANGED <<codec, signal, media, old, overtaken>> /\ MainKeeps

\* media_record_start_record; the recording thread is started anyway.
AskRecord == rec = "none" /\ status = "IDLE" /\ Calls("record")
RecordStatus ==
    /\ main = "record" /\ main' = "recording" /\ status' = "RECORDING"
    /\ overtaken' = overtaken \cup (IF status # "IDLE" THEN {"check"} ELSE {})
                              \cup (IF thread \in {"wait", "end"} THEN {"wait"} ELSE {})
    /\ UNCHANGED <<codec, signal, media, old>> /\ MainKeeps
RecordCodec ==
    /\ main = "recording" /\ main' = "idle" /\ StartRecord /\ rec' = "reads"
    /\ UNCHANGED <<status, signal, thread, data, old, overtaken>>
-----------------------------------------------------------------------------
(* The recording thread: media_record_stop_record.                         *)
RecKeeps == UNCHANGED <<signal, thread, data, main, old, overtaken>>
\* The codec goes on recording.
StopsRecordStatus ==
    /\ rec = "reads" /\ rec' = "none"
    /\ status' = IF status = "RECORDING" THEN "IDLE" ELSE status
    /\ UNCHANGED codec /\ RecKeeps
StopsRecord ==
    /\ rec = "reads"
    /\ IF status = "RECORDING"
         THEN StopRecord /\ rec' = "stopped"
         ELSE rec' = "none" /\ UNCHANGED codec
    /\ UNCHANGED status /\ RecKeeps
RecordEnds ==
    /\ rec = "stopped" /\ rec' = "none" /\ status' = "IDLE"
    /\ UNCHANGED codec /\ RecKeeps
-----------------------------------------------------------------------------
(* The player's thread: media_play_thread and handle_event_play.           *)
PlayerKeeps == UNCHANGED <<asked, main, old, rec>>
Takes == thread = "awake" \/ (thread = "loop" /\ status # "PAUSE")

\* It sleeps without a look at the codec.
PauseCodec ==
    /\ thread = "loop" /\ status = "PAUSE" /\ PausePlay /\ thread' = "asleep"
    /\ UNCHANGED <<status, signal, stream, media, overtaken>> /\ PlayerKeeps
Wakes ==
    /\ thread = "asleep" /\ signal /\ signal' = FALSE /\ thread' = "awake"
    /\ UNCHANGED <<status, codec, stream, media, overtaken>> /\ PlayerKeeps

Start ==
    /\ Takes /\ ~stream /\ media > 0
    /\ stream' = TRUE /\ media' = media - 1
    /\ IF status = "IDLE"
         THEN status' = "PLAYING" /\ thread' = "start"
         ELSE thread' = "loop" /\ UNCHANGED status
    /\ overtaken' = overtaken \cup (IF main \in {"silence", "wake"} THEN {"start"} ELSE {})
    /\ UNCHANGED <<codec, signal>> /\ PlayerKeeps
\* A codec that does not start is not written to; its status is PLAYING.
StartCodec ==
    /\ thread = "start" /\ StartPlay /\ thread' \in {"write", "loop"}
    /\ UNCHANGED <<status, signal, stream, media, overtaken>> /\ PlayerKeeps
Continue ==
    /\ Takes /\ stream
    /\ thread' = IF status \in {"PLAYING", "PAUSE"} THEN "write" ELSE "loop"
    /\ UNCHANGED <<status, codec, signal, stream, media, overtaken>> /\ PlayerKeeps
WriteCodec ==
    /\ thread = "write" /\ main # "resumed" /\ WriteData /\ thread' = "loop"
    /\ UNCHANGED <<status, signal, stream, media, overtaken>> /\ PlayerKeeps
Stop ==
    /\ Takes /\ stream /\ stream' = FALSE
    /\ thread' = IF status \in {"PLAYING", "PAUSE"} THEN "end" ELSE "loop"
    /\ UNCHANGED <<status, codec, signal, media, overtaken>> /\ PlayerKeeps
EndCodec ==
    /\ thread = "end" /\ main # "resumed" /\ WriteEnd /\ thread' = "wait"
    /\ UNCHANGED <<status, signal, stream, media, overtaken>> /\ PlayerKeeps
\* is_play_stopped, every 100 ms; whatever the status is then is IDLE now.
PlayStopped ==
    /\ thread = "wait" /\ ~CodecPlays /\ thread' = "loop"
    /\ codec' = IF codec = "STOPPING" THEN "IDLE" ELSE codec
    /\ status' = "IDLE"
    /\ overtaken' = overtaken \cup (IF Busy THEN {"wait"} ELSE {})
    /\ UNCHANGED <<signal, stream, media>> /\ PlayerKeeps

CodecNext ==
    \/ AskPlay
    \/ AskStop \/ StopStatus \/ StopCodec \/ StopWakes
    \/ AskPause \/ SetPause \/ AskResume \/ SetSignal \/ SetPlaying
    \/ AskBtMode \/ BtStatus \/ BtCodec
    \/ AskUartMode \/ UartCodec \/ UartStatus
    \/ AskRecord \/ RecordStatus \/ RecordCodec
    \/ StopsRecord \/ RecordEnds
    \/ PauseCodec \/ Wakes
    \/ Start \/ StartCodec \/ Continue \/ WriteCodec \/ Stop \/ EndCodec \/ PlayStopped
CodecSpec == CodecInit /\ [][CodecNext]_codecVars
-----------------------------------------------------------------------------
CodecTypeOK ==
    /\ status \in Statuses /\ codec \in CodecStatuses /\ signal \in BOOLEAN
    /\ thread \in {"loop", "asleep", "awake", "start", "write", "end", "wait"}
    /\ rec \in {"none", "reads", "stopped"} /\ old \in Statuses
    /\ media \in 0..MaxMedia /\ stream \in BOOLEAN

AtRest == main = "idle" /\ rec # "stopped"

\* What the player believes and what the codec does agree whenever nobody is
\* between the two, unless one thread came between the test and the set of
\* another.
PlayerAndCodecAgree ==
    AtRest /\ overtaken = {} =>
        /\ status \in {"RECORDING", "BT"} => codec = status
        /\ status = "IDLE" => codec = "IDLE"
        /\ codec \in {"RECORDING", "BT"} => codec = status
        /\ status = "PAUSE" /\ thread = "asleep" => codec # "PLAYING"

\* The player's thread does not sleep for ever in the middle of a medium: while
\* it sleeps the player is paused, or the signal is on its way.
SleeperIsPaused ==
    thread = "asleep" /\ ~signal => status = "PAUSE" \/ main \in {"silence", "wake"}
                                    \/ overtaken # {}

\* While a medium is played the codec is where the player's thread left it.
HandInHand ==
    \/ thread = "start" /\ codec = "IDLE"
    \/ thread \in {"loop", "write", "end"} /\ codec = "PLAYING"
    \/ thread \in {"asleep", "awake", "write", "end"} /\ codec = "PAUSE"
    \/ thread = "wait" /\ codec = "STOPPING"
\* What the status says of main's thread, of the recording thread, of the
\* player's thread and of the codec, while no thread came between the steps of
\* another.
StatusTells ==
    /\ status = "IDLE" =>
          /\ rec = "none" /\ thread \notin {"start", "write"} /\ main \notin {"bt mode", "uart", "uart mode", "recording"}
          /\ codec = "IDLE" \/ (main = "silence" /\ (HandInHand \/ (thread = "loop" /\ codec = "PAUSE")))
    /\ status \in {"PLAYING", "PAUSE"} =>
          /\ rec = "none" /\ main \in {"idle", "stop", "pause", "resume", "resumed", "bt", "record"}
          /\ HandInHand /\ (stream \/ thread \in {"end", "wait"})
    /\ status = "RECORDING" =>
          /\ thread \in {"loop", "asleep", "awake"}
          /\ \/ main = "idle" /\ rec = "reads" /\ codec = "RECORDING"
             \/ main = "idle" /\ rec = "stopped" /\ codec = "IDLE"
             \/ main = "recording" /\ rec = "none" /\ codec = "IDLE"
    /\ status = "BT" =>
          /\ rec = "none" /\ thread \notin {"start", "write"}
          /\ \/ main \in {"idle", "uart"} /\ codec = "BT"
             \/ main \in {"bt mode", "uart mode"} /\ codec = "IDLE"
\* Who is asleep without a signal is paused, or will be woken.
SleeperWillWake ==
    /\ thread = "asleep" /\ ~signal =>
          status = "PAUSE" \/ (main \in {"silence", "wake"} /\ old = "PAUSE")
    /\ main = "resumed" => signal \/ thread \notin {"start", "loop", "asleep"} \/ status # "PAUSE"
CodecInv ==
    /\ CodecTypeOK
    /\ main \in {"idle", "stop", "silence", "wake", "pause", "resume", "resumed", "bt", "bt mode",
                 "uart", "uart mode", "record", "recording"}
    /\ asked \in Nat /\ media \in Nat /\ media <= asked /\ asked <= MaxMedia
    /\ overtaken \subseteq {"check", "start", "wait", "pause"}
    /\ overtaken = {} => StatusTells /\ SleeperWillWake
=============================================================================
