---------------------------- MODULE MediaPipeline ----------------------------
(***************************************************************************)
(* What the device plays (dueros/src/media-data-manager, media-player).    *)
(* Callers ask for a medium by leaving a message in a mailbox of one slot. *)
(* The media data manager takes it, gets the data and writes chunks with a *)
(* command into the play buffer; the player reads them and drives the      *)
(* codec.  When the last chunk is played the player releases a semaphore,  *)
(* and the manager decides whether the medium was cut and is kept, to be   *)
(* continued after what cut it.                                            *)
(*                                                                         *)
(* Nothing but the mailbox has a lock: callers write the player's status   *)
(* and the manager's stop flag while both threads run.  Their priorities   *)
(* are above those of the callers, so that what a thread does between two  *)
(* calls that block is one step, and a caller may be held up anywhere.     *)
(* The buffer is a queue of chunks here; MediaPlayBuffer has its inside.   *)
(***************************************************************************)
EXTENDS Integers, Sequences

CONSTANTS
    Callers,      \* threads that use MediaManager
    MaxCalls,     \* bound: media asked for and other calls
    MaxChunks,    \* bound: chunks of a medium with its last one
    BufCap        \* chunks in the play buffer

ASSUME BoundsAssumption == MaxCalls \in Nat /\ MaxChunks \in Nat /\ MaxChunks >= 2
ASSUME BufCapAssumption == BufCap \in Nat \ {0}

\* song: a url.  speech: SPEECH and SAVE_PREVIOUS.  tone: PROMPT_TONE.
Kinds == {"song", "speech", "tone"}
NoMedia == [id |-> 0, kind |-> "none"]
Commands == {"START", "CONTINUE", "STOP"}
Playing == {"PLAYING", "PAUSE"}

VARIABLES
    mail,         \* s_mdm_msg
    stopFlag, completely,      \* s_mdm_stop_flag, s_stop_completely
    prev, prevPaused,          \* s_previous_media, s_previous_media_paused
    mdm,          \* the manager: idle, taken, get, write, nap or waiting
    cur,          \* the medium it works on
    command,      \* of the chunk it writes next
    sent,         \* chunks it has written of cur
    buffer,       \* g_media_play_buffer
    token,        \* s_play_end_sem
    status,       \* s_media_player_status
    player,       \* the player: loop, paused, starting, writing or ending
    hand,         \* the chunk it works on
    started,      \* s_write_codec_size > 0
    finished,     \* s_finished
    error,        \* s_error < 0
    signal,       \* S_RESUME_SIGNAL
    codec,        \* _s_status of the codec: idle, playing or stopping
    caller,       \* where each caller is
    calls,        \* history: media asked for and other calls
    unwaited,     \* history: the manager did not wait for what it wrote: the
                  \* player had not begun in time or had an error, or the
                  \* medium was refused and only its end was written
    ended         \* history: media that were played to their end

requests == <<mail, stopFlag, completely>>
previous == <<prev, prevPaused>>
manager == <<mdm, cur, command, sent>>
pipe == <<buffer, token, started, error>>
play == <<status, finished, codec>>
thread == <<player, hand, signal>>
history == <<unwaited, ended>>
vars == <<requests, previous, manager, pipe, play, thread, caller, calls, history>>

NullUrl == [id |-> 0, kind |-> "song"]
Media == [id : 1 .. MaxCalls, kind : Kinds] \cup {NoMedia, NullUrl}
Jobs == Kinds \cup {"stop", "completely"}
Rest == [at |-> "idle", old |-> "IDLE", of |-> NoMedia]
NoChunk == [command |-> "STOP", of |-> NoMedia]

Init ==
    /\ mail = NoMedia /\ stopFlag = FALSE /\ completely = FALSE
    /\ prev = NoMedia /\ prevPaused = FALSE
    /\ mdm = "idle" /\ cur = NoMedia /\ command = "START" /\ sent = 0
    /\ buffer = <<>> /\ token = 0
    /\ status = "IDLE" /\ player = "loop" /\ hand = NoChunk
    /\ started = FALSE /\ finished = FALSE /\ error = FALSE
    /\ signal = FALSE /\ codec = "idle"
    /\ caller = [c \in Callers |-> Rest] /\ calls = 0
    /\ unwaited = FALSE /\ ended = {}

(***************************************************************************)
(* Callers.  A medium is asked for by stopping what plays and then leaving *)
(* the message in the mailbox.                                             *)
(***************************************************************************)
\* s_previous_media_paused after a stop of a player that had this status.
Pauses(old) == old = "PAUSE" \/ (old # "PLAYING" /\ prevPaused)

Called == calls < MaxCalls /\ calls' = calls + 1
Return(c) == caller' = [caller EXCEPT ![c] = Rest]
GoTo(c, place) == caller' = [caller EXCEPT ![c].at = place]

AskStop(c, kind) ==
    /\ caller[c].at = "idle" /\ Called
    /\ stopFlag' = TRUE
    /\ completely' = (completely \/ kind = "completely")
    /\ caller' = [caller EXCEPT ![c] = [at |-> "stop", old |-> status,
                                        of |-> [id |-> calls + 1, kind |-> kind]]]
    /\ UNCHANGED <<mail, previous, manager, pipe, play, thread, history>>

SetIdle(c) ==
    /\ caller[c].at = "stop" /\ GoTo(c, "silence")
    /\ status' = "IDLE"
    /\ UNCHANGED <<requests, previous, manager, pipe, finished, codec, thread, calls, history>>

\* The codec is stopped and the player waked; what played is remembered as
\* paused or not, and what was kept is forgotten if nothing played and it
\* stops completely.
Silence(c) ==
    /\ caller[c].at = "silence"
    /\ codec' = "idle"
    /\ signal' = (signal \/ caller[c].old = "PAUSE")
    /\ LET forget == caller[c].of.kind = "completely" /\ caller[c].old = "IDLE"
       IN /\ prev' = IF forget THEN NoMedia ELSE prev
          /\ prevPaused' = (~forget /\ Pauses(caller[c].old))
    /\ IF caller[c].of.kind \in Kinds THEN GoTo(c, "put") ELSE Return(c)
    /\ UNCHANGED <<requests, manager, pipe, status, finished, player, hand, calls, history>>

\* The message replaces the one that waits, unless malloc fails.
Put(c) ==
    /\ caller[c].at = "put" /\ Return(c)
    /\ mail' \in {mail, caller[c].of}
    /\ UNCHANGED <<stopFlag, completely, previous, manager, pipe, play, thread, calls, history>>

\* The key for pause and resume.  The player is waked before the status says
\* that it plays.
AskPause(c) ==
    /\ caller[c].at = "idle" /\ Called
    /\ \/ /\ status = "PAUSE" /\ signal' = TRUE
          /\ GoTo(c, "resume") /\ UNCHANGED prevPaused
       \/ /\ status = "PLAYING"
          /\ GoTo(c, "pause") /\ UNCHANGED <<signal, prevPaused>>
       \/ /\ status = "IDLE" /\ prevPaused /\ prevPaused' = FALSE
          /\ IF prev # NoMedia THEN GoTo(c, "continue") ELSE UNCHANGED caller
          /\ UNCHANGED signal
    /\ UNCHANGED <<requests, prev, manager, pipe, play, player, hand, history>>

SetPaused(c) ==
    /\ caller[c].at \in {"pause", "resume"} /\ Return(c)
    /\ status' = IF caller[c].at = "pause" THEN "PAUSE" ELSE "PLAYING"
    /\ UNCHANGED <<requests, previous, manager, pipe, finished, codec, thread, calls, history>>

CanContinue == status # "PLAYING" /\ prev # NoMedia /\ ~prevPaused

AskContinue(c) ==
    /\ caller[c].at = "idle" /\ Called
    /\ CanContinue /\ GoTo(c, "continue")
    /\ UNCHANGED <<requests, previous, manager, pipe, play, thread, history>>

\* After its malloc it uses the url of that moment, which may be NULL by now.
Continue(c) ==
    /\ caller[c].at = "continue" /\ Return(c)
    /\ \/ UNCHANGED <<mail, prev>>
       \/ /\ mail' = IF prev = NoMedia THEN NullUrl ELSE prev
          /\ prev' = NoMedia
    /\ UNCHANGED <<stopFlag, completely, prevPaused, manager, pipe, play, thread, calls, history>>

(***************************************************************************)
(* The manager.                                                            *)
(***************************************************************************)
Take ==
    /\ mdm = "idle" /\ mail # NoMedia /\ mdm' = "taken"
    /\ cur' = mail /\ mail' = NoMedia
    /\ error' = FALSE /\ started' = FALSE
    /\ UNCHANGED <<stopFlag, completely, previous, command, sent, buffer, token, play, thread,
                   caller, calls, history>>

ResetStopFlag ==
    /\ mdm = "taken" /\ mdm' = "get" /\ sent' = 0
    /\ stopFlag' = FALSE /\ completely' = FALSE
    /\ UNCHANGED <<mail, previous, cur, command, pipe, play, thread, caller, calls, history>>

\* The url cannot be got, or the stop flag is set before its first byte.  A
\* tone is in memory.
GetNothing ==
    /\ mdm = "get" /\ sent = 0 /\ cur.kind # "tone" /\ mdm' = "report"
    /\ UNCHANGED <<requests, previous, cur, command, sent, pipe, play, thread,
                   caller, calls, history>>

\* mdm_media_data_out_handler up to the write, which may block.  The last chunk
\* of a url is one of its own, which may be empty; so is that of a tone as long
\* as tones are longer than FRAME_SIZE, which the firmware's are taken to be
\* (their data are not in the repository; MediaData.tla has a tone of one frame).
GetChunk ==
    /\ mdm = "get" /\ ~error /\ cur # NullUrl /\ mdm' = "write"
    /\ command' \in IF sent = 0 THEN {"START"}
                    ELSE IF stopFlag \/ sent = MaxChunks - 1 THEN {"STOP"}
                    ELSE {"CONTINUE", "STOP"}
    /\ UNCHANGED <<requests, previous, cur, sent, pipe, play, thread, caller, calls, history>>

\* mdm_notify_to_stop in a thread that no caller holds up.
StopNow ==
    /\ stopFlag' = TRUE
    /\ status' = "IDLE" /\ codec' = "idle" /\ signal' = (signal \/ status = "PAUSE")
    /\ prevPaused' = Pauses(status)

\* After an error of the player nothing more is written, not even the last
\* chunk, and the player is stopped.
GiveUp ==
    /\ mdm = "get" /\ error /\ mdm' = "report" /\ StopNow
    /\ UNCHANGED <<mail, completely, prev, cur, command, sent, pipe, finished, player, hand,
                   caller, calls, history>>

\* The format of the first piece is not one that is played; that of speech is
\* not looked at.  The player is stopped and the piece dropped, but the http
\* client knows nothing of it: it still hands over the end, after the piece it
\* has in hand, if there is one, and both are written.  Only a tag's length
\* that is left of the medium before may swallow them.
Refuse ==
    /\ mdm = "get" /\ sent = 0 /\ cur.kind = "song" /\ cur # NullUrl /\ ~error
    /\ StopNow
    /\ \/ mdm' = "write" /\ command' \in {"CONTINUE", "STOP"}
       \/ mdm' = "report" /\ UNCHANGED command
    /\ UNCHANGED <<mail, completely, prev, cur, sent, pipe, finished, player, hand,
                   caller, calls, history>>

\* A write that does not wait for room.
WriteUnchecked ==
    /\ mdm = "write"
    /\ buffer' = Append(buffer, [command |-> command, of |-> cur])
    /\ sent' = sent + 1
    /\ mdm' = IF command = "STOP" THEN "report" ELSE "get"
    /\ UNCHANGED <<requests, previous, cur, command, token, started, error, play, thread,
                   caller, calls, history>>

Write ==
    /\ mdm = "write" /\ Len(buffer) < BufCap
    /\ buffer' = Append(buffer, [command |-> command, of |-> cur])
    /\ sent' = sent + 1
    /\ mdm' = IF command = "STOP" THEN "report" ELSE "get"
    /\ UNCHANGED <<requests, previous, cur, command, token, started, error, play, thread,
                   caller, calls, history>>

\* The next song of the queue, if there is one, is asked for by the thread that
\* calls a callback.
NextSong == Called /\ mail' \in {mail, [id |-> calls + 1, kind |-> "song"]}
PlayQueue ==
    \/ UNCHANGED <<mail, stopFlag, calls>>
    \/ NextSong /\ stopFlag' = TRUE

\* Of a medium that failed, with an error of the player or of the http client
\* and not by a stop, the callback is told.
Report ==
    /\ mdm = "report" /\ mdm' = "nap"
    /\ \/ UNCHANGED <<mail, calls, stopFlag, prevPaused, status, codec, signal>>
       \/ cur.kind # "tone" /\ (error \/ ~stopFlag) /\ NextSong /\ StopNow
    /\ UNCHANGED <<completely, prev, cur, command, sent, pipe, finished, player, hand,
                   caller, history>>

\* After 100 ms it waits for the player, if that has begun and had no error.
WakeUp ==
    /\ mdm = "nap"
    /\ mdm' = IF started /\ ~error THEN "waiting" ELSE "settle"
    /\ unwaited' = (unwaited \/ (mdm' = "settle" /\ sent > 0))
    /\ UNCHANGED <<requests, previous, cur, command, sent, pipe, play, thread,
                   caller, calls, ended>>

\* A wait that ends by itself.
PlayHasEndedOrNot ==
    /\ mdm = "waiting" /\ mdm' = "settle"
    /\ token' = IF token > 0 THEN token - 1 ELSE 0
    /\ UNCHANGED <<requests, previous, cur, command, sent, buffer, started, error, play, thread,
                   caller, calls, history>>

PlayHasEnded ==
    /\ mdm = "waiting" /\ token > 0 /\ mdm' = "settle"
    /\ token' = token - 1
    /\ UNCHANGED <<requests, previous, cur, command, sent, buffer, started, error, play, thread,
                   caller, calls, history>>

\* A song that was cut is kept.  A song forgets what was kept before it;
\* speech and tones leave it.
Settle ==
    /\ mdm = "settle" /\ mdm' = "idle" /\ cur' = NoMedia
    /\ LET keep == ~completely /\ ~finished /\ ~error /\ cur.kind = "song"
           forget == ~keep /\ (completely \/ cur.kind = "song")
       IN /\ prev' = IF forget \/ (keep /\ cur = NullUrl) THEN NoMedia
                     ELSE IF keep THEN cur ELSE prev
          /\ prevPaused' = (prevPaused /\ ~forget)
    /\ UNCHANGED <<requests, command, sent, pipe, play, thread, caller, calls, history>>

(***************************************************************************)
(* The player.  After a pause it reads without looking at the status.      *)
(***************************************************************************)
Pause ==
    /\ player = "loop" /\ status = "PAUSE" /\ player' = "paused"
    /\ UNCHANGED <<requests, previous, manager, pipe, play, hand, signal, caller, calls, history>>

Resume ==
    /\ player = "paused" /\ signal /\ player' = "awake"
    /\ signal' = FALSE
    /\ UNCHANGED <<requests, previous, manager, pipe, play, hand, caller, calls, history>>

Reads(cmd) ==
    /\ player = "awake" \/ (player = "loop" /\ status # "PAUSE")
    /\ buffer # <<>> /\ Head(buffer).command = cmd
    /\ hand' = Head(buffer) /\ buffer' = Tail(buffer)

ReadStart ==
    /\ Reads("START")
    /\ started' = FALSE
    /\ IF status = "IDLE"
       THEN status' = "PLAYING" /\ finished' = FALSE /\ player' = "starting" /\ UNCHANGED error
       ELSE error' = TRUE /\ player' = "loop" /\ UNCHANGED <<status, finished>>
    /\ UNCHANGED <<requests, previous, manager, token, codec, signal, caller, calls, history>>

\* The codec is started and gets the first data; either may fail.
Start ==
    /\ player = "starting" /\ player' = "loop"
    /\ codec' = "playing"
    /\ \E began, ok \in BOOLEAN :
          /\ ~began => ~ok
          /\ started' = began /\ error' = (error \/ ~ok)
    /\ UNCHANGED <<requests, previous, manager, buffer, token, status, finished, hand, signal,
                   caller, calls, history>>

ReadContinue ==
    /\ Reads("CONTINUE")
    /\ player' = IF status \in Playing THEN "writing" ELSE "loop"
    /\ UNCHANGED <<requests, previous, manager, token, started, error, play, signal,
                   caller, calls, history>>

WriteCodec ==
    /\ player = "writing" /\ player' = "loop"
    /\ started' = TRUE
    /\ error' \in {error, TRUE}
    /\ UNCHANGED <<requests, previous, manager, buffer, token, play, hand, signal,
                   caller, calls, history>>

\* The semaphore is released before the codec is through, and again after it.
ReadStopReleases ==
    /\ Reads("STOP")
    /\ player' = IF status \in Playing THEN "ending" ELSE "loop"
    /\ token' = IF error THEN token ELSE token + 1
    /\ UNCHANGED <<requests, previous, manager, started, error, play, signal,
                   caller, calls, history>>

\* Nobody is told of the end of a medium that was stopped halfway.
ReadStopHalfway ==
    /\ Reads("STOP")
    /\ player' = IF status \in Playing THEN "ending" ELSE "loop"
    /\ UNCHANGED <<requests, previous, manager, token, started, error, play, signal,
                   caller, calls, history>>

ReadStop ==
    /\ Reads("STOP")
    /\ IF status \in Playing THEN player' = "ending" /\ UNCHANGED token
       ELSE player' = "loop" /\ token' = IF error THEN token ELSE token + 1
    /\ UNCHANGED <<requests, previous, manager, started, error, play, signal,
                   caller, calls, history>>

\* The last data and the command to stop when it is played.  When the data
\* cannot be written the handler is left without the release.
End ==
    /\ player = "ending"
    /\ \/ /\ player' = "draining"
          /\ codec' = IF codec = "playing" THEN "stopping" ELSE codec
          /\ started' = (started \/ hand.of.kind = "tone")
          /\ UNCHANGED error
       \/ /\ hand.of.kind = "tone"
          /\ player' = "loop" /\ error' = TRUE
          /\ UNCHANGED <<codec, started>>
    /\ UNCHANGED <<requests, previous, manager, buffer, token, status, finished, hand, signal,
                   caller, calls, history>>

CodecStops ==
    /\ codec = "stopping" /\ codec' = "idle"
    /\ UNCHANGED <<requests, previous, manager, pipe, status, finished, thread,
                   caller, calls, history>>

\* on_finish: the song that a tone interrupted goes on, or the next one plays.
OnFinish ==
    IF hand.of.kind # "tone" THEN PlayQueue /\ UNCHANGED prev
    ELSE /\ UNCHANGED <<stopFlag, calls>>
         /\ \/ UNCHANGED <<mail, prev>>
            \/ prev # NoMedia /\ ~prevPaused /\ mail' = prev /\ prev' = NoMedia

\* s_finished is not set.
FinishSilently ==
    /\ player = "draining" /\ codec = "idle" /\ player' = "loop"
    /\ token' = IF error THEN token ELSE token + 1
    /\ error' \in {error, TRUE}
    /\ IF status # "IDLE"
       THEN /\ status' = "IDLE"
            /\ ended' = ended \cup {hand.of.id}
            /\ OnFinish
       ELSE UNCHANGED <<status, ended, mail, stopFlag, calls, prev>>
    /\ UNCHANGED <<completely, prevPaused, manager, buffer, finished, started, codec, hand, signal,
                   caller, unwaited>>

\* Nothing is left in the codec.  If it was not stopped meanwhile the medium
\* has finished.
Finish ==
    /\ player = "draining" /\ codec = "idle" /\ player' = "loop"
    /\ token' = IF error THEN token ELSE token + 1
    /\ error' \in {error, TRUE}
    /\ IF status # "IDLE"
       THEN /\ finished' = TRUE /\ status' = "IDLE"
            /\ ended' = ended \cup {hand.of.id}
            /\ OnFinish
       ELSE UNCHANGED <<finished, status, ended, mail, stopFlag, calls, prev>>
    /\ UNCHANGED <<completely, prevPaused, manager, buffer, started, codec, hand, signal,
                   caller, unwaited>>

(***************************************************************************)
(* The specification.                                                      *)
(***************************************************************************)
Mdm == Take \/ ResetStopFlag \/ GetNothing \/ GetChunk \/ GiveUp \/ Refuse \/ Write
       \/ Report \/ WakeUp \/ PlayHasEnded \/ Settle
Player == Pause \/ Resume \/ ReadStart \/ Start \/ ReadContinue \/ WriteCodec \/ ReadStop
          \/ End \/ Finish
CallGoesOn(c) == SetIdle(c) \/ Silence(c) \/ Put(c) \/ SetPaused(c) \/ Continue(c)

Next ==
    \/ Mdm \/ Player \/ CodecStops
    \/ \E c \in Callers :
          \/ CallGoesOn(c) \/ AskPause(c) \/ AskContinue(c)
          \/ \E kind \in Jobs : AskStop(c, kind)

Spec == Init /\ [][Next]_vars

\* The threads are scheduled and the codec plays what it has.
FairSpec ==
    Spec /\ WF_vars(Mdm) /\ WF_vars(Player) /\ WF_vars(CodecStops)
         /\ \A c \in Callers : WF_vars(CallGoesOn(c))

(***************************************************************************)
(* Properties.                                                             *)
(***************************************************************************)
\* Every variable stays in its set.
TypeOK ==
    /\ {mail, cur, prev} \subseteq Media
    /\ {stopFlag, completely, prevPaused, finished, started, error, signal, unwaited} \subseteq BOOLEAN
    /\ mdm \in {"idle", "taken", "get", "write", "report", "nap", "waiting", "settle"}
    /\ command \in Commands /\ sent \in 0 .. MaxChunks
    /\ buffer \in Seq([command : Commands, of : Media]) /\ Len(buffer) <= BufCap
    /\ hand \in [command : Commands, of : Media]
    /\ token \in Nat /\ status \in {"IDLE"} \cup Playing
    /\ player \in {"loop", "paused", "awake", "starting", "writing", "ending", "draining"}
    /\ codec \in {"idle", "playing", "stopping"}
    /\ caller \in [Callers -> [at : {"idle", "stop", "silence", "put", "pause", "resume", "continue"},
                               old : {"IDLE"} \cup Playing, of : [id : 0 .. MaxCalls, kind : Jobs \cup {"none"}]]]
    /\ calls \in 0 .. MaxCalls /\ ended \subseteq 0 .. MaxCalls

\* While the manager waited for the end of each medium it wrote, the chunks of
\* two media never meet: all that is in the buffer, and what the player works
\* on, is of the medium the manager works on, and nothing is left at its end.
MediaAreNotMixed ==
    ~unwaited =>
        /\ \A i \in DOMAIN buffer : buffer[i].of = cur
        /\ player \in {"starting", "writing", "ending", "draining"} => hand.of = cur

\* While the manager waited for the end of each medium it wrote anything of, one
\* release of the semaphore is waited for at each end; none is left for the next
\* medium, which would then be taken for ended at once.  A refused medium leaves
\* one: its end is written and played, and nobody waits for it (unwaited).
EndsAreCounted ==
    ~unwaited => IF mdm \in {"idle", "taken"} THEN token = 0 ELSE token <= 1

\* What is kept to be continued was cut: it was not played to its end.
KeptWasCut == (~unwaited /\ prev # NoMedia) => prev.id \notin ended

\* While the manager waited for the end of each medium it comes to the end of
\* this one, unless the player is paused or has an error meanwhile.
MediaComeToAnEnd ==
    mdm # "idle" ~> (mdm = "idle" \/ unwaited \/ player = "paused" \/ (mdm = "waiting" /\ error))

\* "If play has not started or error occurred, don't need to wait"
\* (baidu_media_play.cpp:553): an error ends the wait too.
ErrorEndsWait == (mdm = "waiting" /\ error) ~> mdm # "waiting"
=============================================================================
