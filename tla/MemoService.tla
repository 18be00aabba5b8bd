----------------------------- MODULE MemoService -----------------------------
(***************************************************************************)
(* The memos (src/deepbrain/apps/memo_service): the child asks for one,    *)
(* the speech service's thread puts it into one of a few places and starts *)
(* its timer; the timer's thread makes it the current event; the memo      *)
(* service's thread speaks the current event and frees its place.  The     *)
(* places are saved in flash and loaded again at the next start.           *)
(*                                                                         *)
(* init_memo and init_clock have paths that return nothing: what the       *)
(* callers read then is a choice.                                          *)
(***************************************************************************)
EXTENDS Integers, FiniteSets

CONSTANTS
    MaxMemos,        \* bound: memos the child asks for
    MEMO_EVENT_MAX,  \* places
    MaxTimers,       \* bound: timers duer_timer_acquire gives
    MaxTime,         \* bound: times of the server's clock
    MaxStarts        \* bound: how often the power goes

Places == 1 .. MEMO_EVENT_MAX
Memos == 1 .. MaxMemos
NoPlace == 0
NoTimer == 0
Quiet == -1
Empty == [timer |-> NoTimer, is_valid |-> FALSE, set_time |-> 0, memo |-> 0]

VARIABLES
    status,   \* memo_status
    event,    \* memo_array->event
    cur_evt,  \* the place of the current event
    saying,   \* memo_event_process holds the mutex and speaks this memo, or Quiet
    unsaved,  \* threads that are about to save the places: "service", "asr"
    running,  \* timers that run, with the place each was acquired for
    timers,   \* timers acquired so far
    saved,    \* the places in flash
    starts,   \* how often the power went
    asked,    \* memos asked for so far
    fate,     \* history: what became of each memo
    played,   \* history: how often each memo was spoken
    excused   \* history: something happened that makes memos speak twice

clock == <<running, timers>>
history == <<fate, played, excused>>
memoVars == <<status, event, cur_evt, saying, unsaved, clock, saved, starts, asked, history>>

Init ==
    /\ status = "MEMO_IDLE" /\ event = [p \in Places |-> Empty]
    /\ cur_evt = NoPlace /\ saying = Quiet /\ unsaved = {}
    /\ running = {} /\ timers = 0 /\ saved = event /\ starts = 0 /\ asked = 0
    /\ fate = [m \in Memos |-> "none"] /\ played = [m \in Memos |-> 0]
    /\ excused = FALSE
-----------------------------------------------------------------------------
(* Timers (lightduer_timers.cpp).                                          *)

\* start_one_memo for the places of a set: each gets a timer if it has none;
\* one that gets none, or whose timer does not start, is left as it was.
Fresh(ps) == [p \in ps |-> timers + Cardinality({q \in ps : q <= p})]
StartMemos(ps, works, places, runs, now) ==
    LET needs == {p \in ps : places[p].timer = NoTimer}
        got == {p \in needs : Fresh(needs)[p] <= MaxTimers}
        Timer(p) == IF p \in got THEN Fresh(needs)[p] ELSE places[p].timer
        started == {p \in ps \cap works : Timer(p) # NoTimer}
    IN /\ timers' = timers + Cardinality(got)
       /\ running' = runs \cup {[timer |-> Timer(p), place |-> p] : p \in started}
       /\ event' = [p \in Places |->
             IF p \notin ps THEN places[p]
             ELSE IF p \in started
               THEN [places[p] EXCEPT !.timer = Timer(p), !.is_valid = TRUE, !.set_time = now]
             ELSE [places[p] EXCEPT !.timer = Timer(p)]]

\* memo_event_handle, in the timer's thread: a second event is forgotten while
\* there is a current one.
\* The later event replaces the current one.
MemoEventHandleReplaces ==
    /\ saying = Quiet
    /\ \E t \in running : running' = running \ {t} /\ cur_evt' = t.place
    /\ UNCHANGED <<status, event, saying, unsaved, timers, saved, starts, asked, history>>
MemoEventHandle ==
    /\ saying = Quiet
    /\ \E t \in running :
          /\ running' = running \ {t}
          /\ IF cur_evt = NoPlace
               THEN cur_evt' = t.place /\ UNCHANGED fate
               ELSE /\ fate' = [m \in Memos |-> IF m = event[t.place].memo THEN "missed" ELSE fate[m]]
                    /\ UNCHANGED cur_evt
    /\ UNCHANGED <<status, event, saying, unsaved, timers, saved, starts, asked, played, excused>>
-----------------------------------------------------------------------------
(* The service's thread.                                                   *)
BeginInit ==
    /\ status = "MEMO_IDLE" /\ status' = "MEMO_INIT"
    /\ UNCHANGED <<event, cur_evt, saying, unsaved, clock, saved, starts, asked, history>>

\* init_memo: memos that are past, or without a timer, are dropped, the others
\* get a new timer; what it returns then is not said.
Restorable(p, past) == saved[p].is_valid /\ saved[p].timer # NoTimer /\ p \notin past
InitMemo ==
    /\ status = "MEMO_INIT"
    /\ \/ status' = "MEMO_IDLE" /\ UNCHANGED <<event, clock, saved, history>>
       \/ \E past \in SUBSET Places, works \in SUBSET Places, now \in 1 .. MaxTime :
             LET old == {p \in Places : Restorable(p, past)}
                 places == [p \in Places |->
                               IF p \in old THEN [saved[p] EXCEPT !.timer = NoTimer, !.is_valid = FALSE]
                               ELSE Empty]
             IN /\ StartMemos(old, works, places, running, now)
                /\ saved' = event'
                /\ fate' = [m \in Memos |->
                      IF fate[m] = "kept" /\ ~\E p \in old \cap works : event'[p].memo = m /\ event'[p].is_valid
                        THEN "dropped" ELSE fate[m]]
                /\ excused' = (excused \/ running # {} \/ cur_evt # NoPlace)
                /\ status' \in {"MEMO_IDLE", "MEMO_LOOP"} /\ UNCHANGED played
    /\ UNCHANGED <<cur_evt, saying, unsaved, starts, asked>>

\* memo_event_process takes the mutex and speaks the text of the place, which
\* takes seconds; two requests for the speech may fail.
ProcessBegins ==
    /\ status = "MEMO_LOOP" /\ cur_evt # NoPlace /\ saying = Quiet /\ "service" \notin unsaved
    /\ saying' = event[cur_evt].memo
    /\ UNCHANGED <<status, event, cur_evt, unsaved, clock, saved, starts, asked, history>>
Spoken ==
    \E spoken \in BOOLEAN :
        /\ played' = [m \in Memos |-> IF spoken /\ m = saying THEN played[m] + 1 ELSE played[m]]
        /\ fate' = [m \in Memos |->
              IF m = saying /\ fate[m] = "kept" THEN IF spoken THEN "spoken" ELSE "silent"
              ELSE fate[m]]
ProcessEnds ==
    /\ saying # Quiet /\ Spoken
    /\ saying' = Quiet /\ cur_evt' = NoPlace /\ unsaved' = unsaved \cup {"service"}
    /\ LET same == {p \in Places : event[p].timer = event[cur_evt].timer}
           first == CHOOSE p \in same : \A q \in same : p <= q
       IN event' = [event EXCEPT ![first].is_valid = FALSE]
    /\ UNCHANGED <<status, clock, saved, starts, asked, excused>>
-----------------------------------------------------------------------------
(* The speech service's thread, get_memo_result.                           *)

\* add_one_memo: the first free place, or else that of the memo set first.
Free == {p \in Places : ~event[p].is_valid}
Eldest == CHOOSE p \in Places : \A q \in Places :
             event[p].set_time < event[q].set_time \/ (event[p].set_time = event[q].set_time /\ p <= q)
PlaceForNext ==
    IF Free = {} THEN Eldest ELSE CHOOSE p \in Free : \A q \in Free : p <= q

Adding(runs) ==
    /\ "asr" \notin unsaved /\ asked < MaxMemos /\ asked' = asked + 1
    /\ LET p == PlaceForNext
           gone == IF Free = {} THEN {event[p].memo} ELSE {}
       IN \E works \in {{}, {p}}, now \in 1 .. MaxTime :
             /\ StartMemos({p}, works, [event EXCEPT ![p].memo = asked'], runs, now)
             /\ fate' = [m \in Memos |->
                   IF m = asked'
                     THEN IF [timer |-> event'[p].timer, place |-> p] \in running' THEN "kept" ELSE "dropped"
                   ELSE IF m \in gone /\ fate[m] = "kept" THEN "displaced" ELSE fate[m]]
             /\ excused' = (excused \/ cur_evt = p)
    /\ unsaved' = unsaved \cup {"asr"}
    /\ UNCHANGED <<status, cur_evt, saying, saved, starts, played>>
AddOneMemo ==
    Adding(IF Free = {} THEN {t \in running : t.timer # event[PlaceForNext].timer} ELSE running)

\* No time from the server: the memo is not added, although the cloud said it
\* is.
AddOneMemoFails ==
    /\ "asr" \notin unsaved /\ asked < MaxMemos /\ asked' = asked + 1
    /\ fate' = [fate EXCEPT ![asked'] = "dropped"]
    /\ UNCHANGED <<status, event, cur_evt, saying, unsaved, clock, saved, starts, played, excused>>

\* set_flash_cfg(FLASH_CFG_MEMO_PARAMS), by both threads: memos in flash that
\* were not loaded yet are overwritten.
SavePlaces ==
    \E who \in unsaved :
        /\ unsaved' = unsaved \ {who} /\ saved' = event
        /\ fate' = [m \in Memos |->
              IF fate[m] = "kept" /\ ~\E p \in Places : event[p].memo = m THEN "overwritten"
              ELSE fate[m]]
        /\ UNCHANGED <<status, event, cur_evt, saying, clock, starts, asked, played, excused>>

\* The power goes, and comes back.
Restart ==
    /\ starts < MaxStarts /\ starts' = starts + 1
    /\ status' = "MEMO_IDLE" /\ event' = [p \in Places |-> Empty]
    /\ cur_evt' = NoPlace /\ saying' = Quiet /\ unsaved' = {} /\ running' = {} /\ timers' = 0
    /\ fate' = [m \in Memos |->
          IF fate[m] = "kept" /\ ~\E p \in Places : saved[p].memo = m /\ saved[p].is_valid
            THEN "unsaved" ELSE fate[m]]
    /\ excused' = (excused \/ \E p \in Places, m \in Memos : saved[p].is_valid /\ saved[p].memo = m /\ played[m] > 0)
    /\ UNCHANGED <<saved, asked, played>>

Next == \/ MemoEventHandle \/ BeginInit \/ InitMemo \/ ProcessBegins \/ ProcessEnds
        \/ AddOneMemo \/ AddOneMemoFails \/ SavePlaces \/ Restart
Spec == Init /\ [][Next]_memoVars
-----------------------------------------------------------------------------
Place == [timer : 0 .. MaxTimers, is_valid : BOOLEAN, set_time : 0 .. MaxTime, memo : 0 .. MaxMemos]
MemoTypeOK ==
    /\ status \in {"MEMO_IDLE", "MEMO_INIT", "MEMO_LOOP"}
    /\ event \in [Places -> Place] /\ saved \in [Places -> Place]
    /\ cur_evt \in {NoPlace} \cup Places /\ saying \in Quiet .. MaxMemos
    /\ unsaved \subseteq {"service", "asr"} /\ timers \in 0 .. MaxTimers
    /\ running \subseteq [timer : 1 .. MaxTimers, place : Places]
    /\ played \in [Memos -> Nat]

\* Two things make a mess of the places, and excuse the service: init_memo
\* loads them over timers that run (it is repeated, or a memo was added before
\* it), and a place is given away while it is the current event.
\* Without them a memo that was kept is not forgotten: its place is taken, and
\* its timer runs or it is the current event, or it is in flash and the
\* service has not loaded it yet.  (What becomes of the others is in fate:
\* displaced by a newer one, missed because another was current, silent
\* because the cloud made no speech of it, lost with the power, by init_memo
\* or by a save before it.)
MemosAreRemembered ==
    ~excused => \A m \in Memos : fate[m] = "kept" =>
        \/ \E p \in Places :
              /\ event[p].memo = m /\ event[p].is_valid
              /\ cur_evt = p \/ \E t \in running : t.place = p
        \/ status # "MEMO_LOOP" /\ \E p \in Places : saved[p].memo = m /\ saved[p].is_valid

\* Without them, and when the power does not go before its place is saved as
\* free, a memo is spoken once, although three threads handle it.
MemosSpeakOnce == ~excused => \A m \in Memos : played[m] <= 1
-----------------------------------------------------------------------------
\* The places without what excuses the service.
InSomePlace(places, p, m) == places[p].memo = m /\ places[p].is_valid
Waits(p) == cur_evt = p \/ \E t \in running : t.place = p

\* A timer belongs to one place, which is taken, and a memo is in one place.
PlacesAreApart ==
    /\ \A t \in running : event[t.place].is_valid /\ event[t.place].timer = t.timer
    /\ \A p, q \in Places : event[p].timer = event[q].timer /\ event[p].timer # NoTimer => p = q
    /\ \A p, q \in Places : event[p].memo = event[q].memo /\ event[p].memo # 0 => p = q
    /\ \A p, q \in Places : saved[p].memo = saved[q].memo /\ saved[p].memo # 0 => p = q
\* The current event is in a place whose timer has fired, and is what is
\* spoken.
CurrentIsTaken ==
    /\ cur_evt # NoPlace =>
          /\ event[cur_evt].is_valid /\ event[cur_evt].timer # NoTimer
          /\ \A t \in running : t.place # cur_evt
    /\ saying # Quiet => status = "MEMO_LOOP" /\ cur_evt # NoPlace /\ saying = event[cur_evt].memo
\* What is kept waits in its place, or in flash as long as it was not loaded.
KeptIsSomewhere ==
    \A m \in Memos : fate[m] = "kept" =>
        /\ \A p \in Places : event[p].memo = m => event[p].is_valid /\ Waits(p)
        /\ \/ \E p \in Places : event[p].memo = m
           \/ status # "MEMO_LOOP" /\ \E p \in Places : InSomePlace(saved, p, m)
\* What was spoken is in no place any more.
SpokenIsGone ==
    /\ \A m \in Memos : played[m] <= 1
    /\ \A p \in Places, m \in Memos :
          /\ InSomePlace(event, p, m) => played[m] = 0
          /\ status # "MEMO_LOOP" /\ InSomePlace(saved, p, m) => played[m] = 0
\* Whatever happens: the types, and no number is used before its time.
MemoIsOrderly ==
    /\ MemoTypeOK /\ excused \in BOOLEAN
    /\ fate \in [Memos -> {"none", "kept", "spoken", "silent", "missed", "dropped", "displaced",
                           "overwritten", "unsaved"}]
    /\ asked \in 0 .. MaxMemos /\ starts \in Nat /\ saying <= asked
    /\ \A p \in Places : event[p].timer <= timers /\ event[p].memo <= asked /\ saved[p].memo <= asked
    /\ \A m \in Memos : m > asked => played[m] = 0 /\ fate[m] = "none"
PlacesAreTidy == PlacesAreApart /\ CurrentIsTaken /\ KeptIsSomewhere /\ SpokenIsGone
MemoInv == MemoIsOrderly /\ (~excused => PlacesAreTidy)
=============================================================================
