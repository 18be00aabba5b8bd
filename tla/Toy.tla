---------------------------------- MODULE Toy ----------------------------------
(***************************************************************************)
(* What the toy does with its keys, with the answers to its questions and  *)
(* with the ends of media: the handlers of deepbrain_app.cpp, which main's *)
(* thread runs, and the queues and listeners of yt_src/YTManage.cpp.       *)
(*                                                                         *)
(* The end of a medium decides what comes next: a tone starts a recording, *)
(* an answer that was spoken makes the toy listen again, after the name of *)
(* a song comes the song, after a song the next one.                       *)
(*                                                                         *)
(* The player is left with one medium that is played and one that was      *)
(* asked for (MediaPipeline.tla has the rest), the recorder with its first *)
(* and last step (Recorder.tla), and the way of a question to the cloud    *)
(* with its number: the answers come in the order of the questions, each   *)
(* with the number the question had (AsrSession.tla has the rest).  Of the *)
(* two boards the one that is built (HB_PCBA) is modelled.                 *)
(***************************************************************************)
EXTENDS Integers, Sequences

CONSTANTS
    QueueSize,   \* events the queue takes
    MaxNumber,   \* bound: numbers given between two resets
    MaxOwed      \* bound: questions without an answer yet

VARIABLES
    queue,      \* g_message_q of events.cpp
    status,     \* s_media_player_status, without BT's codec; a player that
                \* pauses is one that plays and does not end
    playing,    \* the medium that is played
    asked,      \* the medium the manager was told to play
    question,   \* "none", "recording", "lost" or "sent"
    arming,     \* rec_on_stop has still to start the timer
    timer,      \* dcl_timeout_timer runs
    record_sn,  \* the number of the last question, 0 after a reset
    owed,       \* the numbers of the answers that are still to come
    NO_ASR_TIMES,
    unheard,    \* history: how often in a row the toy asked again though it
                \* had heard nothing
    reactions,  \* history: what came of the last question, counted until excused
    excused     \* history: a timer began or ran on after its question had its
                \* answer, or record_sn became a number whose answer was to come

player == <<status, playing, asked>>
asking == <<question, arming, timer, record_sn, owed>>
history == <<unheard, reactions, excused>>
toyVars == <<queue, player, asking, NO_ASR_TIMES, history>>

None == "none"
\* The media by what follows their end.
Media == {"tone",    \* RECORD_TONE
          "chat",    \* URL_CHAT
          "song",    \* DCS_URL; SPEECH, the name of a song or a notice
          "prompt",  \* PROMPT_TONE and SAVE_PREVIOUS
          "bye",     \* PROMPT_TONE
          "bt"}      \* BT_TONE

Init ==
    /\ queue = <<>> /\ status = "IDLE" /\ playing = None /\ asked = None
    /\ question = "none" /\ arming = FALSE /\ timer = FALSE /\ NO_ASR_TIMES = 0
    /\ record_sn = 0 /\ owed = <<>>
    /\ unheard = 0 /\ reactions = 0 /\ excused = FALSE
-----------------------------------------------------------------------------
(* YTManage.cpp and the media manager under it.                            *)
Triggered(event) == IF Len(queue) < QueueSize THEN Append(queue, event) ELSE queue

\* play_url, play_data, play_local: nothing in BT's time or over a recording.
Refused == status \in {"BT", "RECORDING"}
Asks(m) == IF Refused THEN asked ELSE m
Play(m) == asked' = Asks(m)

\* play_queue, play_queue_v2, play_previous_media_continue: a song, if there is
\* one (SongQueue.tla), or if one was cut (MediaPipeline.tla).
PlaySong == asked' \in {asked, Asks("song")}

\* on_finish
OnFinish ==
    \/ playing \in {"song", "prompt"} /\ PlaySong /\ UNCHANGED queue
    \/ /\ \/ playing = "chat" /\ queue' = Triggered("REC_PRESS")
          \/ playing = "tone" /\ queue' = Triggered("START_RECORD")
          \/ playing = "bt" /\ queue' = Triggered("ENTER_BT")
       /\ UNCHANGED asked
    \/ playing = "bye" /\ UNCHANGED <<queue, asked>>

\* The manager stops what is played, also a recording and BT.
PlayerStarts ==
    /\ asked # None /\ asked' = None
    /\ status' = "PLAYING" /\ playing' = asked
    /\ UNCHANGED <<queue, asking, NO_ASR_TIMES, history>>
PlayerEnds ==
    /\ status = "PLAYING" /\ status' = "IDLE" /\ playing' = None /\ OnFinish
    /\ UNCHANGED <<asking, NO_ASR_TIMES, history>>
\* yt_media_play_failed_cb
PlayFails ==
    /\ asked # None /\ playing = None
    /\ asked' \in (IF asked = "song" /\ ~Refused THEN {None, "song"} ELSE {None})
    /\ UNCHANGED <<queue, status, playing, asking, NO_ASR_TIMES, history>>
\* A prompt of another service: wifi, the battery, a message.
OtherPlays ==
    /\ Play("prompt")
    /\ UNCHANGED <<queue, status, playing, asking, NO_ASR_TIMES, history>>
-----------------------------------------------------------------------------
(* The keys, and the handlers in main's thread.                            *)
Keys == {"REC_PRESS", "SWITCH_MODE", "PAUSE", "PLAY_PREV", "PLAY_NEXT", "RESET_WIFI"}
Key ==
    /\ queue = <<>> /\ \E k \in Keys : queue' = <<k>>
    /\ UNCHANGED <<player, asking, NO_ASR_TIMES, history>>

Event(e) == queue # <<>> /\ Head(queue) = e
Taken == queue' = Tail(queue)
Busy == question \in {"recording", "lost"}

\* A key whose handler yt_dcl_stop took away, until yt_dcl_start gives it back.
Unhandled ==
    /\ queue # <<>> /\ Head(queue) \in Keys /\ Taken
    /\ UNCHANGED <<player, asking, NO_ASR_TIMES, history>>

\* talk_start; a recorder that is still busy after 500 ms keeps the event's
\* handler from doing more.  Whether the network is up, or ever was, is left to
\* WifiManage.tla: the toy gets ready to record, says in a notice that there is no
\* network, or looks for one.
TalkStart ==
    /\ Event("REC_PRESS")
    /\ \/ Busy /\ Taken /\ UNCHANGED asked
       \/ ~Busy /\ Taken /\ (Play("tone") \/ Play("song"))
       \/ ~Busy
          /\ queue' = Append(Tail(queue), "RESET_WIFI") /\ UNCHANGED asked
    /\ UNCHANGED <<status, playing, asking, NO_ASR_TIMES, history>>

\* The number may be one that a question had which has no answer yet.
Owes(sn) == \E i \in DOMAIN owed : owed[i] = sn
ResetNumber == record_sn' = 0 /\ excused' = (excused \/ Owes(0))

\* start_recorder and, in its thread, yt_dcl_rec_on_start: the next number.  The
\* timer of the last question runs on.
StartRecorder ==
    /\ Event("START_RECORD") /\ Taken
    /\ IF status = "IDLE" /\ ~Busy
         THEN /\ status' = "RECORDING" /\ question' = "recording" /\ reactions' = 0
              /\ record_sn < MaxNumber /\ record_sn' = record_sn + 1
              /\ excused' = (timer \/ arming \/ Owes(record_sn + 1))
         ELSE UNCHANGED <<status, question, reactions, record_sn, excused>>
    /\ UNCHANGED <<playing, asked, arming, timer, owed, NO_ASR_TIMES, unheard>>

\* wifi_bt: switch_bt
SwitchMode ==
    /\ Event("SWITCH_MODE") /\ Taken
    /\ IF status = "BT" THEN status' = "IDLE" /\ asked' = "bye"
                        ELSE Play("bt") /\ UNCHANGED status
    /\ UNCHANGED <<playing, asking, NO_ASR_TIMES, history>>
\* start_bt
StartBt ==
    /\ Event("ENTER_BT") /\ Taken
    /\ status' = IF status = "IDLE" THEN "BT" ELSE status
    /\ UNCHANGED <<playing, asked, asking, NO_ASR_TIMES, history>>
\* play_pause: pause_or_resume; what pauses or goes on again is played either way.
PlayPause ==
    /\ Event("PAUSE") /\ Taken
    /\ UNCHANGED <<player, asking, NO_ASR_TIMES, history>>
\* play_prev, play_next; in BT's time the phone gets them.
PlayPrevNext ==
    /\ Event("PLAY_PREV") \/ Event("PLAY_NEXT")
    /\ Taken /\ (IF status = "BT" THEN UNCHANGED asked ELSE PlaySong)
    /\ UNCHANGED <<status, playing, asking, NO_ASR_TIMES, history>>
\* reset_wifi, which touches nothing of this.
ResetWifi ==
    /\ Event("RESET_WIFI") /\ Taken
    /\ UNCHANGED <<player, asking, NO_ASR_TIMES, history>>
-----------------------------------------------------------------------------
(* A question and its answer.                                              *)

Reacts == reactions' = IF excused THEN reactions ELSE reactions + 1

\* The recorder ends and yt_dcl_rec_on_stop sends the last object.  It is
\* refused, and answered by a tone at once, when the number is not that of the
\* objects before it or there was none; without memory nothing comes of it.
RecOnStop ==
    /\ Busy /\ status' = IF status = "RECORDING" THEN "IDLE" ELSE status
    /\ \/ /\ question = "recording" /\ Len(owed) < MaxOwed
          /\ question' = "sent" /\ arming' = TRUE /\ owed' = Append(owed, record_sn)
          /\ UNCHANGED <<asked, reactions>>
       \/ /\ question' = "none" /\ asked' = (IF status = "BT" THEN asked ELSE "prompt")
          /\ Reacts /\ UNCHANGED <<arming, owed>>
       \/ question' = "none" /\ UNCHANGED <<asked, reactions, arming, owed>>
    /\ UNCHANGED <<queue, playing, timer, record_sn, NO_ASR_TIMES, unheard, excused>>
\* Only then the timer is started, be the answer there or not.
ArmTimer ==
    /\ arming /\ arming' = FALSE /\ timer' = TRUE
    /\ excused' = (excused \/ question # "sent")
    /\ UNCHANGED <<queue, player, question, record_sn, owed, NO_ASR_TIMES, unheard, reactions>>

\* Of a recording that goes on the rest is refused, if some of it was sent.
Cut == IF question = "recording" THEN {"recording", "lost"} ELSE {question}

\* yt_dcl_rec_on_result_timeout: the answer will not be taken any more, unless
\* its number comes again.
ResultTimeout ==
    /\ timer /\ timer' = FALSE /\ Play("prompt")
    /\ ResetNumber
    /\ question' \in (IF Busy THEN Cut ELSE {"none"})
    /\ IF Busy THEN UNCHANGED reactions ELSE Reacts
    /\ UNCHANGED <<queue, status, playing, arming, owed, NO_ASR_TIMES, unheard>>
\* yt_dcl_start, when the network comes, after an update or a search for it that
\* ended; yt_dcl_stop, when it goes or an update begins.
DclStart ==
    /\ ResetNumber /\ question' \in Cut
    /\ UNCHANGED <<queue, player, arming, timer, owed, NO_ASR_TIMES, unheard, reactions>>
DclStop ==
    /\ timer /\ timer' = FALSE
    /\ UNCHANGED <<queue, player, question, arming, record_sn, owed, NO_ASR_TIMES, history>>

\* yt_dcl_rec_on_result, in the order of the questions.  The answer counts if it
\* has the number of the last one; it is the last one's if no other is to come.
\* The service may have it only as an error, of which nothing comes.
NextAnswer ==
    /\ owed # <<>> /\ owed' = Tail(owed) /\ Head(owed) = record_sn
    /\ question' = IF question = "sent" /\ Len(owed) = 1 THEN "none" ELSE question
    /\ UNCHANGED record_sn
\* The timer runs on.
AnsweredInTime == NextAnswer /\ UNCHANGED timer
Answered == NextAnswer /\ timer' = FALSE
OnResultIgnored ==
    /\ owed # <<>> /\ owed' = Tail(owed) /\ Head(owed) # record_sn
    /\ UNCHANGED <<queue, player, question, arming, timer, record_sn, NO_ASR_TIMES, history>>
OnResultError ==
    /\ Answered
    /\ UNCHANGED <<queue, player, arming, NO_ASR_TIMES, history>>

\* yt_dcl_process_result.  A chat in which nothing was heard is counted, and
\* after the third one the toy is silent.
\* Nothing is counted.
CountedNever(heard) == NO_ASR_TIMES
Counted(heard) == IF heard THEN NO_ASR_TIMES ELSE NO_ASR_TIMES + 1
Chat(heard, bye) ==
    /\ Answered /\ (bye => heard)
    /\ LET times == Counted(heard) IN
         IF times <= 2
           THEN /\ NO_ASR_TIMES' = times /\ Reacts
                /\ unheard' = IF heard THEN 0 ELSE unheard + 1
                /\ \/ Play(IF bye THEN "bye" ELSE "chat")
                   \* no speech can be had for the answer
                   \/ IF bye THEN UNCHANGED asked ELSE PlaySong
           ELSE NO_ASR_TIMES' = 0 /\ unheard' = 0 /\ UNCHANGED <<asked, reactions>>
    /\ UNCHANGED <<queue, status, playing, arming, excused>>
OnResultChat == unheard <= 2 /\ \E heard, bye \in BOOLEAN : Chat(heard, bye)
\* Songs; their name is said first, also when there are none.  The service
\* names no songs and gives no command when nothing was heard (external).
OnResultLink ==
    /\ Answered
    /\ Play("song") /\ unheard' = 0 /\ Reacts
    /\ UNCHANGED <<queue, status, playing, arming, NO_ASR_TIMES, excused>>
\* The volume is not touched here: one of six sentences is said.
OnResultVolume ==
    /\ Answered /\ Play("chat") /\ unheard' = 0 /\ Reacts
    /\ UNCHANGED <<queue, status, playing, arming, NO_ASR_TIMES, excused>>

Next ==
    \/ PlayerStarts \/ PlayerEnds \/ PlayFails \/ OtherPlays
    \/ Key \/ Unhandled \/ TalkStart \/ StartRecorder \/ SwitchMode \/ StartBt \/ PlayPause \/ PlayPrevNext
    \/ ResetWifi
    \/ RecOnStop \/ ArmTimer \/ ResultTimeout \/ DclStart \/ DclStop
    \/ OnResultIgnored \/ OnResultError \/ OnResultChat \/ OnResultLink \/ OnResultVolume
Spec == Init /\ [][Next]_toyVars
-----------------------------------------------------------------------------
ToyTypeOK ==
    /\ Len(queue) <= QueueSize
    /\ status \in {"IDLE", "PLAYING", "RECORDING", "BT"}
    /\ playing \in Media \cup {None} /\ asked \in Media \cup {None}
    /\ question \in {"none", "recording", "lost", "sent"}
    /\ arming \in BOOLEAN /\ timer \in BOOLEAN /\ NO_ASR_TIMES \in 0 .. 2
    /\ record_sn \in 0 .. MaxNumber /\ Len(owed) <= MaxOwed

\* A toy that hears nothing stops asking by itself: of three questions in a
\* row in which nothing was heard one is not followed by another, whatever was
\* heard before.
SilenceEndsDialogue == unheard <= 2

\* Of a question comes one thing: its answer, or the tone for a weak network.
\* Two things of the code add another, and the toy then reacts twice: a timer
\* that was started after the answer had come, or that is left of the question
\* before; and the numbers, which begin again after each reset, so that
\* the answer to an earlier question can have the number of this one.
OneReaction == ~excused => reactions <= 1

\* What the toy keeps at every step.  It never counts less silence than there
\* was.  While no timer was late and no number given twice, a timer belongs to
\* the question that waits, and so does an answer with its number.
ToyInv ==
    /\ ToyTypeOK
    /\ queue \in Seq(Keys \cup {"START_RECORD", "ENTER_BT"}) /\ owed \in Seq(0 .. MaxNumber)
    /\ excused \in BOOLEAN /\ unheard \in 0 .. NO_ASR_TIMES /\ reactions \in Nat
    /\ ~excused =>
        /\ Busy => reactions = 0 /\ ~timer /\ ~arming
        /\ question = "sent" => reactions = 0
        /\ question = "none" => reactions <= 1 /\ ~timer
        /\ \A i \in DOMAIN owed : owed[i] = record_sn => question = "sent" /\ i = Len(owed)
=============================================================================
