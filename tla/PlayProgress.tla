---------------------------- MODULE PlayProgress ----------------------------
(***************************************************************************)
(* How long a medium has played, and when it stutters                      *)
(* (baidu_media_play_progress.cpp): the player and the play buffer tell    *)
(* the listeners when a medium starts and ends and when the player waits   *)
(* for data, a timer of 200 ms tells a stutter from a short wait, and what *)
(* it says is handled by the loop of the emitter (EventLoop), later.  The  *)
(* toy does not create the emitter, so that each event is refused there.   *)
(***************************************************************************)
EXTENDS Integers

CONSTANTS
    EventMax,  \* events of the timer that wait in the loop of the emitter
    MaxTime    \* bound: of the clock

VARIABLES
    now,       \* duer_timestamp()
    last,      \* s_last_record_time
    played,    \* s_play_progress.play_time
    kept,      \* s_pre_play_progress.play_time
    stucked,   \* s_is_stucked
    empty,     \* s_is_buffer_empty
    goesOn,    \* s_is_play_previous
    timer,     \* s_timer runs
    events,    \* calls of mdm_media_stucked in the loop of the emitter
    status,    \* the player is IDLE or PLAYING
    waits,     \* the player waits for data
    begun,     \* history: since when the time of this medium is counted
    base,      \* history: played at that time
    stuckTime, \* history: how long it was stucked since
    left       \* history: stopped, or told of a stutter again, while it was stucked
record == <<last, played>>
history == <<begun, base, stuckTime>>
progressVars == <<now, record, kept, stucked, empty, goesOn, timer, events, status, waits,
                   history, left>>
-----------------------------------------------------------------------------
\* The time since the last record is counted.
CountTime == played' = played + now - last /\ last' = now
\* A record that forgets that it counted.
CountAgain == played' = played + now - last /\ UNCHANGED last
CountAtStop == CountTime

Tick ==
    /\ now < MaxTime /\ now' = now + 1
    /\ stuckTime' = stuckTime + (IF stucked THEN 1 ELSE 0)
    /\ UNCHANGED <<record, kept, stucked, empty, goesOn, timer, events, status, waits,
                   begun, base, left>>

\* MdmMeaidaPlayerListener::on_start.
OnStart ==
    /\ status = "IDLE" /\ ~waits /\ status' = "PLAYING"
    /\ stucked' = FALSE /\ empty' = FALSE /\ goesOn' = FALSE /\ last' = now
    /\ played' = IF goesOn THEN played ELSE 0
    /\ begun' = now /\ base' = played' /\ stuckTime' = 0 /\ left' = FALSE
    /\ UNCHANGED <<now, kept, timer, events, waits>>

\* The timer runs on when it has told the wait already.
StopTimer == timer' = (timer /\ ~(empty /\ ~stucked))
\* on_stop: media_play_stop, in any thread and whether the player waits or not.
OnStop ==
    /\ status = "PLAYING" /\ status' = "IDLE"
    /\ IF stucked THEN UNCHANGED record ELSE CountAtStop
    /\ StopTimer /\ stucked' = FALSE /\ empty' = FALSE /\ kept' = played'
    /\ left' = (left \/ stucked)
    /\ UNCHANGED <<now, goesOn, events, waits, history>>
\* on_finish.
OnFinish ==
    /\ status = "PLAYING" /\ ~waits /\ status' = "IDLE"
    /\ CountTime /\ StopTimer /\ stucked' = FALSE /\ empty' = FALSE
    /\ UNCHANGED <<now, kept, goesOn, events, waits, history, left>>

\* MediaPlayBufferListener::on_wait_read.
OnWaitRead ==
    /\ ~waits /\ waits' = TRUE /\ empty' = TRUE /\ timer' = TRUE
    /\ UNCHANGED <<now, record, kept, stucked, goesOn, events, status, history, left>>
\* on_release_read: the time before the wait is not counted, unless it was a stutter.
OnReleaseRead ==
    /\ waits /\ waits' = FALSE /\ last' = now
    /\ StopTimer /\ empty' = FALSE /\ stucked' = FALSE
    /\ UNCHANGED <<now, played, kept, goesOn, events, status, history, left>>

\* mdm_stuck_timer_cb; the loop may be full, or not there.
TimerFires ==
    /\ timer /\ timer' = FALSE
    /\ \/ events < EventMax /\ events' = events + 1
       \/ UNCHANGED events
    /\ UNCHANGED <<now, record, kept, stucked, empty, goesOn, status, waits, history, left>>
\* mdm_media_stucked.
Stucked ==
    /\ events > 0 /\ events' = events - 1
    /\ IF empty THEN CountTime /\ stucked' = TRUE
       ELSE UNCHANGED <<record, stucked>>
    /\ left' = (left \/ (empty /\ stucked))
    /\ UNCHANGED <<now, kept, empty, goesOn, timer, status, waits, history>>

\* mdm_restore_previous_play_progress.
Restore ==
    /\ status = "IDLE" /\ goesOn' = TRUE /\ played' = kept
    /\ begun' = last /\ base' = kept /\ stuckTime' = 0
    /\ UNCHANGED <<now, last, kept, stucked, empty, timer, events, status, waits, left>>
\* mdm_get_play_progress.
GetProgress ==
    /\ IF stucked THEN UNCHANGED record ELSE CountTime
    /\ kept' = played'
    /\ UNCHANGED <<now, stucked, empty, goesOn, timer, events, status, waits, history, left>>
-----------------------------------------------------------------------------
ProgressInit ==
    /\ now = 0 /\ last = 0 /\ played = 0 /\ kept = 0 /\ events = 0
    /\ stucked = FALSE /\ empty = FALSE /\ goesOn = FALSE /\ timer = FALSE
    /\ status = "IDLE" /\ waits = FALSE
    /\ begun = 0 /\ base = 0 /\ stuckTime = 0 /\ left = FALSE
ProgressNext ==
    \/ Tick \/ OnStart \/ OnStop \/ OnFinish \/ OnWaitRead \/ OnReleaseRead
    \/ TimerFires \/ Stucked \/ Restore \/ GetProgress
ProgressSpec == ProgressInit /\ [][ProgressNext]_progressVars
-----------------------------------------------------------------------------
ProgressTypeOK ==
    /\ {now, last, played, kept, begun, base, stuckTime} \subseteq Nat /\ last <= now
    /\ {stucked, empty, goesOn, timer, waits, left} \subseteq BOOLEAN
    /\ status \in {"IDLE", "PLAYING"} /\ events \in 0..EventMax

\* No time is counted twice, and none while the medium stutters, whatever
\* thread asks, stops or tells.  Not so once a medium was stopped while it
\* stuttered, for the time of the stutter is counted when the progress is asked
\* for, and when the event of an earlier wait is handled in a stutter.
TimeIsCountedOnce == left \/ played - base <= now - begun - stuckTime
-----------------------------------------------------------------------------
\* A stutter is told of while the player waits, and then the time until it
\* began is counted; at other times that until the last record.
ProgressInv ==
    /\ ProgressTypeOK
    /\ (stucked => empty) /\ (empty => waits)
    /\ ~left => IF stucked THEN played - base <= now - begun - stuckTime
                           ELSE played - base <= last - begun - stuckTime
=============================================================================
