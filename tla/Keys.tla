---------------------------------- MODULE Keys ----------------------------------
(***************************************************************************)
(* The keys (yt_src/yt_key/yt_key.cpp, lightduer_timers.cpp).  The driver  *)
(* reports presses and releases, a thread answers them; a timer of which   *)
(* there is one for all keys reports that one is held.                     *)
(*                                                                         *)
(* There is one place for a message to the thread and one for the message  *)
(* it works on, whose index the timer reads when it fires.                 *)
(***************************************************************************)
EXTENDS Integers, FiniteSets

CONSTANTS
    FallKeys,  \* keys that answer when they are pressed: talk, play
    LongKeys,  \* keys that answer when they are released or held: volume, wifi
    NoMessage       \* no message

Keys == FallKeys \cup LongKeys

VARIABLES
    down,         \* keys that are held
    s_key_msg,    \* the message of the driver
    signalled,    \* the thread was signalled
    idx,          \* key_msg.idx
    timer,        \* key_timer runs
    isLongPress,  \* the keys whose _isLongPress is set
    cleared,      \* yt_key_clear took the handlers away
    owed,         \* history: presses of a key less the answers to it
    overwritten   \* history: a message was overwritten before it was read

keyVars == <<down, s_key_msg, signalled, idx, timer, isLongPress, cleared, owed, overwritten>>

KeysInit ==
    /\ down = {} /\ s_key_msg = NoMessage /\ signalled = FALSE
    /\ idx \in Keys \* the memory of key_msg is zero
    /\ timer = FALSE /\ isLongPress = {} /\ cleared = FALSE
    /\ owed = [k \in Keys |-> 0] /\ overwritten = FALSE
-----------------------------------------------------------------------------
(* The driver's interrupt.                                                 *)
Reports(evt, k) ==
    /\ s_key_msg' = [evt |-> evt, idx |-> k] /\ signalled' = TRUE
    /\ overwritten' = (overwritten \/ s_key_msg # NoMessage)
KeyFall ==
    \E k \in Keys \ down :
       /\ owed[k] < 2 /\ Reports("KEY_PRESS", k) /\ down' = down \cup {k}
       /\ owed' = [owed EXCEPT ![k] = IF cleared THEN 0 ELSE @ + 1]
       /\ UNCHANGED <<idx, timer, isLongPress, cleared>>
KeyRise ==
    \E k \in down :
       /\ Reports("KEY_RELEASE", k) /\ down' = down \ {k}
       /\ UNCHANGED <<idx, timer, isLongPress, cleared, owed>>
-----------------------------------------------------------------------------
(* The thread and the timer.                                               *)
Answers(k) == owed' = [owed EXCEPT ![k] = @ - 1]
Nobody == UNCHANGED owed
TakesMessage(evt) ==
    /\ signalled /\ s_key_msg # NoMessage /\ s_key_msg.evt = evt
    /\ signalled' = FALSE /\ s_key_msg' = NoMessage /\ idx' = s_key_msg.idx

\* yt_key_thread, KEY_PRESS: yt_key_fall
KeyPress ==
    /\ TakesMessage("KEY_PRESS")
    /\ timer' = (timer \/ (idx' \in LongKeys /\ ~cleared))
    /\ IF idx' \in FallKeys /\ ~cleared THEN Answers(idx') ELSE Nobody
    /\ isLongPress' = isLongPress \ {idx'}
    /\ UNCHANGED <<down, cleared, overwritten>>
\* KEY_RELEASE: yt_key_rise.  duer_timer_stop says OK also of a timer that has
\* fired, so that it is _isLongPress that keeps a held key from two answers.
KeyReleaseAlways ==
    /\ TakesMessage("KEY_RELEASE")
    /\ timer' = (timer /\ (idx' \in FallKeys \/ cleared))
    /\ IF idx' \in LongKeys /\ ~cleared THEN Answers(idx') ELSE Nobody
    /\ isLongPress' = isLongPress \ {idx'}
    /\ UNCHANGED <<down, cleared, overwritten>>
KeyRelease ==
    /\ TakesMessage("KEY_RELEASE")
    /\ timer' = (timer /\ (idx' \in FallKeys \/ cleared))
    /\ IF idx' \in LongKeys \ isLongPress /\ ~cleared THEN Answers(idx') ELSE Nobody
    /\ isLongPress' = isLongPress \ {idx'}
    /\ UNCHANGED <<down, cleared, overwritten>>
\* yt_key_longpress, of the key that was reported last.
KeyLongPress ==
    /\ timer /\ timer' = FALSE
    /\ IF idx \in LongKeys /\ ~cleared
         THEN Answers(idx) /\ isLongPress' = isLongPress \cup {idx}
         ELSE Nobody /\ UNCHANGED isLongPress
    /\ UNCHANGED <<down, s_key_msg, signalled, idx, cleared, overwritten>>
\* yt_key_clear, when the battery is empty.
KeyClear ==
    /\ ~cleared /\ cleared' = TRUE /\ owed' = [k \in Keys |-> 0]
    /\ UNCHANGED <<down, s_key_msg, signalled, idx, timer, isLongPress, overwritten>>

KeysNext == KeyFall \/ KeyRise \/ KeyPress \/ KeyRelease \/ KeyLongPress \/ KeyClear
KeysSpec == KeysInit /\ [][KeysNext]_keyVars
-----------------------------------------------------------------------------
\* Each press of a key is answered once, be it short or long, also when other
\* keys are used at the same time - as long as the thread reads every message.
PressIsAnsweredOnce ==
    ~overwritten => \A k \in Keys :
       /\ owed[k] \in {0, 1}
       /\ k \notin down /\ s_key_msg = NoMessage => owed[k] = 0
-----------------------------------------------------------------------------
\* A message of the driver, and a key whose press is not over for the thread.
Message(evt, k) == [evt |-> evt, idx |-> k]
IsPressed(k) == s_key_msg = Message("KEY_PRESS", k)
IsReleased(k) == s_key_msg = Message("KEY_RELEASE", k)
Goes(k) == k \in down \/ IsReleased(k)

KeysTypeOK ==
    /\ down \subseteq Keys /\ isLongPress \subseteq LongKeys /\ idx \in Keys
    /\ s_key_msg \in {NoMessage} \cup [evt : {"KEY_PRESS", "KEY_RELEASE"}, idx : Keys]
    /\ signalled \in BOOLEAN /\ timer \in BOOLEAN /\ cleared \in BOOLEAN /\ overwritten \in BOOLEAN
    /\ owed \in [Keys -> Int]
\* What is owed to each key, which follows from where its press is.
Owed(k) ==
    IF cleared \/ ~Goes(k) THEN 0
    ELSE IF IsPressed(k) THEN 1
    ELSE IF k \in FallKeys \/ k \in isLongPress THEN 0 ELSE 1
KeysInv ==
    /\ KeysTypeOK
    /\ ~overwritten =>
         /\ \A k \in Keys : /\ owed[k] = Owed(k)
                            /\ IsPressed(k) => k \in down
                            /\ IsReleased(k) => k \notin down
         /\ timer /\ idx \in LongKeys /\ ~cleared =>
              Goes(idx) /\ idx \notin isLongPress /\ ~IsPressed(idx)
=============================================================================
