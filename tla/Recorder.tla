-------------------------------- MODULE Recorder --------------------------------
(***************************************************************************)
(* A spoken question from the talk key to the speech service: events.cpp,  *)
(* talk_start of deepbrain_app.cpp, duer_recorder.cpp and its ring buffer  *)
(* (src/dueros/external/Ringbuff).                                         *)
(*                                                                         *)
(* The key puts an event into a queue; main's thread takes it and has a    *)
(* tone played; when the tone has ended the player puts the event that     *)
(* starts the recording; main's thread then starts two threads.  rec reads *)
(* the microphone into the ring, amr takes the frames out of it, finds out *)
(* when the child has ended, and hands them to the speech service.         *)
(*                                                                         *)
(* rec is of a higher priority than main's thread and amr, so that the     *)
(* lines it runs between two reads are one step for these; while a read of *)
(* the microphone waits the others run.                                    *)
(***************************************************************************)
EXTENDS Integers, Sequences

CONSTANTS
    QueueSize,   \* events the queue takes (5)
    MaxFlame,    \* frames in the ring (4)
    MaxSpeech,   \* frames after which a speech is cut (7 s)
    MaxPresses,  \* bound: how often the key is pressed
    MaxOthers    \* bound: how often another thread wants a medium played

ASSUME RecorderAssumption ==
    /\ MaxFlame \in Nat \ {0}
    /\ QueueSize \in Nat /\ MaxSpeech \in Nat /\ MaxPresses \in Nat /\ MaxOthers \in Nat

VARIABLES
    queue,     \* g_message_q
    presses,   \* how often the key was pressed
    mainAt,    \* main's thread: "loop", "waits" 500 ms in talk_start, "starts" the threads
    state,     \* _state, without the prefix DUER_REC_
    rec,       \* duer_rec_thread runs
    amr,       \* duer_amr_thread: "none" or where it is
    pieces,    \* parts of the frame that is being read
    remain, writePtr, readPtr, memory,  \* the ring: counts are in frames
    held,      \* the place amr got from get_readPtr
    loaded,    \* remain as read_done of amr has read it
    vad,       \* "silence", "speech" or "end"
    spoken,    \* frames of this speech
    media,     \* s_media_player_status: "IDLE", "PLAYING" or "RECORDING"
    playing,   \* the medium that is played: "tone" or "other"
    toPlay,    \* the medium the manager was told to play, or "none"
    others,    \* how often others wanted one
    recorded,  \* history: frames read since rec began
    heard,     \* history: the last frame amr handed on
    whole,     \* history: the frames came one after the other
    spoilt,    \* history: the ring was full, or remain lost a frame
    overtaken  \* history: amr looked at _state before rec had begun, or a
               \* recording was begun while the last one was not over

recorder == <<state, rec, amr>>
ring == <<remain, writePtr, readPtr, memory>>
reading == <<held, loaded, vad, spoken>>
player == <<media, playing, toPlay, others>>
history == <<recorded, heard, whole, spoilt, overtaken>>
recVars == <<queue, presses, mainAt, recorder, pieces, ring, reading, player, history>>

Half == 0
RecInit ==
    /\ queue = <<>> /\ presses = 0 /\ mainAt = "loop"
    /\ state = "STOPPED" /\ rec = FALSE /\ amr = "none"
    /\ pieces = 0 /\ remain = 0 /\ writePtr = 0 /\ readPtr = 0
    /\ memory = [i \in 0 .. MaxFlame - 1 |-> Half]
    /\ held = 0 /\ loaded = 0 /\ vad = "silence" /\ spoken = 0
    /\ media = "IDLE" /\ playing = "none" /\ toPlay = "none" /\ others = 0
    /\ recorded = 0 /\ heard = 0 /\ whole = TRUE /\ spoilt = FALSE /\ overtaken = FALSE
-----------------------------------------------------------------------------
(* events.cpp                                                              *)

\* event_trigger: an event for which there is no place is lost.
Triggered(event) == IF Len(queue) < QueueSize THEN Append(queue, event) ELSE queue

\* talk_button_fall_handle, in the key thread.
TalkKey ==
    /\ presses < MaxPresses /\ presses' = presses + 1
    /\ queue' = Triggered("REC_PRESS")
    /\ UNCHANGED <<mainAt, recorder, pieces, ring, reading, player, history>>
-----------------------------------------------------------------------------
(* The player, as far as the recorder meets it.                            *)

\* play_data and the like: nothing is played over a recording; whether there
\* is one is asked long before the player begins.
Plays(medium) == toPlay' = IF media = "RECORDING" THEN toPlay ELSE medium

\* Another thread: the battery, a message, the time limit of an answer.
OtherPlays ==
    /\ others < MaxOthers /\ others' = others + 1 /\ Plays("other")
    /\ UNCHANGED <<queue, presses, mainAt, recorder, pieces, ring, reading, media, playing, history>>
PlayerStarts ==
    /\ toPlay # "none" /\ toPlay' = "none" /\ media' = "PLAYING" /\ playing' = toPlay
    /\ UNCHANGED <<queue, presses, mainAt, recorder, pieces, ring, reading, others, history>>
\* on_finish: the end of the tone starts the recording.
PlayerEnds ==
    /\ media = "PLAYING" /\ media' = "IDLE" /\ playing' = "none"
    /\ queue' = IF playing = "tone" THEN Triggered("START_RECORD") ELSE queue
    /\ UNCHANGED <<presses, mainAt, recorder, pieces, ring, reading, toPlay, others, history>>
-----------------------------------------------------------------------------
(* Main's thread: event_loop_run.                                          *)

\* rec that reads while the player is not recording gets nothing at once and
\* tries again: no thread of a lower priority runs any more.
RecSpins == rec /\ media # "RECORDING"
MainRuns == ~RecSpins

\* duer_recorder_is_busy, duer_recorder_stop
IsBusy == amr # "none"
\* A recorder that has stopped is stopped again.
StopsAlways == state' = "STOPPING"
Stops == state' = IF state \in {"STARTING", "STARTED"} THEN "STOPPING" ELSE state

\* talk_start
TalkStart ==
    /\ MainRuns /\ mainAt = "loop" /\ queue # <<>> /\ Head(queue) = "REC_PRESS"
    /\ queue' = Tail(queue)
    /\ IF IsBusy
         THEN Stops /\ mainAt' = "waits" /\ UNCHANGED toPlay
         ELSE Plays("tone") /\ UNCHANGED <<state, mainAt>>
    /\ UNCHANGED <<presses, rec, amr, pieces, ring, reading, media, playing, others, history>>
TalkStartWaited ==
    /\ MainRuns /\ mainAt = "waits" /\ mainAt' = "loop"
    /\ IF IsBusy THEN UNCHANGED toPlay ELSE Plays("tone")
    /\ UNCHANGED <<queue, presses, recorder, pieces, ring, reading, media, playing, others, history>>

\* start_recorder: the media player begins only when it is idle; a thread that
\* runs is not started again.
StartRecorder ==
    /\ MainRuns /\ mainAt = "loop" /\ queue # <<>> /\ Head(queue) = "START_RECORD"
    /\ queue' = Tail(queue) /\ mainAt' = "starts"
    /\ state' = "STARTING" /\ media' = IF media = "IDLE" THEN "RECORDING" ELSE media
    /\ amr' = IF amr = "none" THEN "start" ELSE amr
    /\ overtaken' = (overtaken \/ rec \/ amr # "none")
    /\ UNCHANGED <<presses, rec, pieces, ring, reading, playing, toPlay, others,
                   recorded, heard, whole, spoilt>>
\* The first lines of duer_rec_thread_main.
RecStarts ==
    /\ MainRuns /\ mainAt = "starts" /\ mainAt' = "loop"
    /\ rec' = TRUE
    /\ IF rec THEN UNCHANGED <<state, pieces, ring, recorded, heard, whole, spoilt>>
       ELSE /\ state' = "STARTED" /\ pieces' = 0
            /\ remain' = 0 /\ writePtr' = 0 /\ readPtr' = 0
            /\ memory' = [i \in 0 .. MaxFlame - 1 |-> Half]
            /\ recorded' = 0 /\ heard' = 0 /\ whole' = TRUE /\ spoilt' = FALSE
    /\ UNCHANGED <<queue, presses, amr, reading, player, overtaken>>
-----------------------------------------------------------------------------
(* duer_rec_thread_main                                                    *)
Next1(ptr) == (ptr + 1) % MaxFlame

\* A read has got one half of a frame, or the other; then write_done counts
\* the frame and, when the ring is full, drops the oldest one.
\* The ring is never full.
RecReadsUnchecked ==
    /\ rec /\ media = "RECORDING" /\ state = "STARTED" /\ recorded < MaxFlame + MaxSpeech
    /\ pieces' = (pieces + 1) % 2
    /\ IF pieces = 0
         THEN /\ memory' = [memory EXCEPT ![writePtr] = Half]
              /\ UNCHANGED <<remain, writePtr, readPtr, recorded, spoilt>>
         ELSE /\ recorded' = recorded + 1
              /\ memory' = [memory EXCEPT ![writePtr] = recorded']
              /\ writePtr' = Next1(writePtr) /\ remain' = remain + 1
              /\ UNCHANGED <<readPtr, spoilt>>
    /\ UNCHANGED <<queue, presses, mainAt, recorder, reading, player, heard, whole, overtaken>>
RecReads ==
    /\ rec /\ media = "RECORDING" /\ state = "STARTED" /\ recorded < MaxFlame + MaxSpeech
    /\ pieces' = (pieces + 1) % 2
    /\ IF pieces = 0
         THEN /\ memory' = [memory EXCEPT ![writePtr] = Half]
              /\ UNCHANGED <<remain, writePtr, readPtr, recorded, spoilt>>
         ELSE /\ recorded' = recorded + 1
              /\ memory' = [memory EXCEPT ![writePtr] = recorded']
              /\ writePtr' = Next1(writePtr)
              /\ IF remain + 1 = MaxFlame
                   THEN readPtr' = Next1(readPtr) /\ spoilt' = TRUE /\ UNCHANGED remain
                   ELSE remain' = remain + 1 /\ UNCHANGED <<readPtr, spoilt>>
    /\ UNCHANGED <<queue, presses, mainAt, recorder, reading, player, heard, whole, overtaken>>

\* _state is looked at when a read returns; rec_stop.
RecEnds ==
    /\ rec /\ state # "STARTED" /\ rec' = FALSE
    /\ media' = IF media = "RECORDING" THEN "IDLE" ELSE media
    /\ state' = "STOPPED"
    /\ UNCHANGED <<queue, presses, mainAt, amr, pieces, ring, reading, playing, toPlay, others, history>>
-----------------------------------------------------------------------------
(* duer_amr_thread_main                                                    *)
AmrAt(here, there) == MainRuns /\ amr = here /\ amr' = there

\* duer_recorder_on_start
AmrStarts ==
    /\ AmrAt("start", "loop") /\ vad' = "silence" /\ spoken' = 0
    /\ UNCHANGED <<queue, presses, mainAt, state, rec, pieces, ring, held, loaded, player, history>>
\* get_readPtr, in the loop and, when the recording has ended, behind it.
AmrTakes ==
    /\ \/ AmrAt("loop", "data") /\ state = "STARTED"
       \/ AmrAt("drain", "last")
    /\ remain > 0 /\ held' = readPtr
    /\ UNCHANGED <<queue, presses, mainAt, state, rec, pieces, ring, loaded, vad, spoken, player, history>>
AmrLeaves ==
    /\ AmrAt("loop", "drain") /\ state # "STARTED"
    /\ overtaken' = (overtaken \/ state = "STARTING")
    /\ UNCHANGED <<queue, presses, mainAt, state, rec, pieces, ring, reading, player,
                   recorded, heard, whole, spoilt>>
\* duer_recorder_on_data: what is heard goes to the service from where the
\* speech begins on; its end, or its length, stops the recorder.
AmrData ==
    /\ \/ AmrAt("data", "done") \/ AmrAt("last", "lastDone")
    /\ heard' = memory[held] /\ whole' = (whole /\ heard' = heard + 1)
    /\ \/ vad = "end" /\ UNCHANGED <<vad, spoken, state>>
       \/ vad = "silence" /\ UNCHANGED <<vad, spoken, state>>
       \/ vad # "end" /\ spoken < MaxSpeech
          /\ vad' = "speech" /\ spoken' = spoken + 1 /\ UNCHANGED state
       \/ vad # "end" /\ vad' = "end" /\ UNCHANGED spoken /\ Stops
    /\ UNCHANGED <<queue, presses, mainAt, rec, pieces, ring, held, loaded, player, recorded, spoilt, overtaken>>
\* read_done: remain -= size is not one step for rec; a frame that is counted
\* in between is lost.
AmrReadDone ==
    /\ \/ AmrAt("done", "store") \/ AmrAt("lastDone", "lastStore")
    /\ loaded' = remain
    /\ UNCHANGED <<queue, presses, mainAt, state, rec, pieces, ring, held, vad, spoken, player, history>>
AmrStores ==
    /\ \/ AmrAt("store", "loop") \/ AmrAt("lastStore", "drain")
    /\ remain' = loaded - 1 /\ readPtr' = Next1(readPtr)
    /\ spoilt' = (spoilt \/ loaded # remain)
    /\ UNCHANGED <<queue, presses, mainAt, state, rec, pieces, writePtr, memory, reading, player,
                   recorded, heard, whole, overtaken>>
\* Only when rec has ended the service is told that the speech has.
\* It does not wait for rec.
AmrEndsAtOnce ==
    /\ AmrAt("drain", "none") /\ remain = 0
    /\ UNCHANGED <<queue, presses, mainAt, state, rec, pieces, ring, reading, player, history>>
AmrEnds ==
    /\ AmrAt("drain", "none") /\ remain = 0 /\ ~rec
    /\ UNCHANGED <<queue, presses, mainAt, state, rec, pieces, ring, reading, player, history>>

Main == TalkStart \/ TalkStartWaited \/ StartRecorder \/ RecStarts
Rec == RecReads \/ RecEnds
Amr == AmrStarts \/ AmrTakes \/ AmrLeaves \/ AmrData \/ AmrReadDone \/ AmrStores \/ AmrEnds
Player == PlayerStarts \/ PlayerEnds
RecNext == TalkKey \/ OtherPlays \/ Main \/ Rec \/ Amr \/ Player
RecSpec == RecInit /\ [][RecNext]_recVars

\* Threads run when nothing keeps them from it; the microphone goes on giving
\* frames, and media come to an end.
RecFairSpec == RecSpec /\ WF_recVars(Main) /\ WF_recVars(Rec) /\ WF_recVars(Amr) /\ WF_recVars(Player)
-----------------------------------------------------------------------------
RecTypeOK ==
    /\ Len(queue) <= QueueSize /\ mainAt \in {"loop", "waits", "starts"}
    /\ state \in {"STOPPING", "STOPPED", "STARTING", "STARTED"}
    /\ amr \in {"none", "start", "loop", "data", "done", "store", "drain", "last", "lastDone", "lastStore"}
    /\ remain \in Int /\ writePtr \in 0 .. MaxFlame - 1 /\ readPtr \in 0 .. MaxFlame - 1
    /\ ~spoilt /\ ~overtaken => remain \in 0 .. MaxFlame - 1
    /\ media \in {"IDLE", "PLAYING", "RECORDING"} /\ toPlay \in {"none", "tone", "other"}

\* The frames the service gets are those of the microphone, one after the
\* other and complete, whatever the threads do, as long as amr is fast enough
\* for the ring and no count of a frame is lost (ringbuff.cpp).
SpeechArrivesWhole == ~spoilt /\ ~overtaken => whole

\* When nobody is at the microphone any more the recorder is off: otherwise
\* nothing is played and the talk key does nothing for ever.  Only a time
\* slice that ends between the two starts of duer_recorder_start breaks it, and
\* the ends of two tones that main's thread finds one behind the other.
MicrophoneIsOff ==
    amr = "none" /\ mainAt = "loop" /\ ~overtaken => ~rec /\ media # "RECORDING"

\* A recorder that was told to stop does so.
StopIsObeyed == state = "STOPPING" ~> state # "STOPPING"

\* Violated: "if value of rs is bigger than size, _plugin is not RECORDING"
\* (duer_recorder.cpp:304): a medium that takes the player away ends the
\* recording.  The read gives 0 then, and rec tries again for ever.
TakenIsNoticed == RecSpins ~> ~rec
=============================================================================
