-------------------------------- MODULE StartUp --------------------------------
(***************************************************************************)
(* The start of the toy (main of app_main.cpp) and the creation of the     *)
(* services of deepbrain/apps: memory, a lock and a thread each, one after *)
(* the other.  The threads run as soon as they are there: each makes its   *)
(* app and joins the bus, where the wifi service may already tell that the *)
(* toy is connected.  Only then the speech service lets the talk key do    *)
(* anything.  Memory and threads may fail at every place.                  *)
(***************************************************************************)
EXTENDS Naturals, Sequences

CONSTANTS MaxFailures   \* bound: allocations that fail

\* The order of main; "bus" is APP_MAIN.
Order == <<"bus", "wifi", "asr", "authorize", "mpush", "ota", "memo", "lan">>
Services == {Order[i] : i \in DOMAIN Order}
\* The bus, the maker's authorization and the firmware update have no handle of their own.
WithHandle == {"wifi", "asr", "mpush", "memo", "lan"}
WithLock == {"wifi", "asr", "mpush", "lan"}
LockIsChecked == {"asr", "lan"}
\* What is said of the wifi changes more than their own place only here.
Listeners == {"asr", "ota"}

VARIABLES
    boot,      \* "play" (the greeting), which service main creates and how far, "loop" (event_loop) or "test"
    handle,    \* of each service: "none" (NULL), "live" or "freed" (memory given back, pointer left)
    lock,      \* of each service
    task,      \* thread of each service: "none", "created", "joined" (on the bus), "ended", "dead" (start failed)
    inbox,     \* what waits for the listeners
    talkKey,   \* EVT_KEY_REC_PRESS has its handler
    updating,  \* the firmware update is in its handler
    request,   \* asr_service_send_request: "none", or behind its check
    failed     \* history: the services one of whose allocations failed
startVars == <<boot, handle, lock, task, inbox, talkKey, updating, request, failed>>

None == [s \in Services |-> "none"]
StartInit ==
    /\ boot \in {<<"play">>, <<"test">>} /\ handle = None /\ lock = None /\ task = None
    /\ inbox = [s \in Listeners |-> <<>>] /\ talkKey = FALSE
    /\ updating = FALSE /\ request = "none" /\ failed = <<>>
-----------------------------------------------------------------------------
\* The thread before the lock it takes.
TaskFirst == <<"handle", "task", "lock">>
Stages == <<"handle", "lock", "task">>

Creates(s, stage) ==
    /\ Len(boot) = 2 /\ Order[boot[1]] = s /\ Stages[boot[2]] = stage
NextService == IF boot[1] < Len(Order) THEN <<boot[1] + 1, 1>> ELSE <<"loop">>
NextStage == IF boot[2] < Len(Stages) THEN <<boot[1], boot[2] + 1>> ELSE NextService
\* The first failure ends main.
EndsMain == <<"loop">>
\* Nobody looks at what the create functions return.
AfterFailure == NextService

MayFail == Len(failed) < MaxFailures
Fails(s) == MayFail /\ failed' = Append(failed, s)
Works == UNCHANGED failed

\* main: the greeting is over.
GreetingEnds ==
    /\ boot = <<"play">> /\ boot' = <<1, 1>>
    /\ UNCHANGED <<handle, lock, task, inbox, talkKey, updating, request, failed>>

\* The bus is tried for ever; the task of each app makes the app itself.
NewHandle(s) ==
    /\ Creates(s, "handle")
    /\ \/ /\ Works /\ boot' = NextStage
          /\ handle' = IF s \in WithHandle \cup {"bus"} THEN [handle EXCEPT ![s] = "live"] ELSE handle
       \/ /\ s \in WithHandle /\ Fails(s) /\ boot' = AfterFailure /\ UNCHANGED handle
    /\ UNCHANGED <<lock, task, inbox, talkKey, updating, request>>

\* A lock that is missing is passed over by SEMPHR_TRY_LOCK.
NewLock(s) ==
    /\ Creates(s, "lock")
    /\ \/ /\ Works /\ boot' = NextStage
          /\ lock' = IF s \in WithLock THEN [lock EXCEPT ![s] = "made"] ELSE lock
          /\ UNCHANGED handle
       \/ /\ s \in LockIsChecked /\ Fails(s) /\ boot' = AfterFailure
          /\ handle' = [handle EXCEPT ![s] = "none"] /\ UNCHANGED lock
       \/ /\ s \in WithLock \ LockIsChecked /\ Fails(s) /\ boot' = NextStage
          /\ lock' = [lock EXCEPT ![s] = "missing"] /\ UNCHANGED handle
    /\ UNCHANGED <<task, inbox, talkKey, updating, request>>

\* What a service does with its handle and its lock when its thread cannot be
\* created; that of the memos forgets to set its pointer to NULL.
Undone(s) ==
    CASE s = "memo" -> "freed"
      [] s \in WithHandle -> "none"
      [] OTHER -> handle[s]
StartTask(s) ==
    /\ Creates(s, "task")
    /\ \/ /\ Works /\ boot' = NextStage /\ task' = [task EXCEPT ![s] = "created"]
          /\ UNCHANGED <<handle, lock>>
       \/ /\ Fails(s) /\ boot' = AfterFailure /\ handle' = [handle EXCEPT ![s] = Undone(s)]
          /\ lock' = [lock EXCEPT ![s] = "none"] /\ UNCHANGED task
       \* Nor what the thread's start returns.
       \/ /\ Fails(s) /\ boot' = NextStage /\ task' = [task EXCEPT ![s] = "dead"]
          /\ UNCHANGED <<handle, lock>>
    /\ UNCHANGED <<inbox, talkKey, updating, request>>
-----------------------------------------------------------------------------
\* The threads: app_new, which needs the bus, and then app_msg_dispatch.  Those of
\* the speech service and of the discovery undo what was created; that of the
\* memos frees them; the others leave everything and end.
JoinBus(s) ==
    /\ task[s] = "created" /\ (s = "bus" \/ handle["bus"] = "live")
    /\ Works /\ task' = [task EXCEPT ![s] = "joined"]
    /\ UNCHANGED <<boot, handle, lock, inbox, talkKey, updating, request>>
Misses(s) ==
    /\ task[s] = "created" /\ s # "bus"
    /\ Fails(s) /\ task' = [task EXCEPT ![s] = "ended"]
    /\ handle' = IF s = "memo" THEN [handle EXCEPT ![s] = "freed"]
                 ELSE IF s \in LockIsChecked THEN [handle EXCEPT ![s] = "none"]
                 ELSE handle
    /\ lock' = IF s \in LockIsChecked THEN [lock EXCEPT ![s] = "none"] ELSE lock
    /\ UNCHANGED <<boot, inbox, talkKey, updating, request>>

\* The wifi service, connected or not any more, tells all that are on the bus.
Tell(what) ==
    /\ task["wifi"] = "joined" /\ task["bus"] = "joined"
    /\ \A s \in Listeners : inbox[s] = <<>>
    /\ inbox' = [s \in Listeners |-> IF task[s] = "joined" THEN <<what>> ELSE <<>>]
    /\ UNCHANGED <<boot, handle, lock, task, talkKey, updating, request, failed>>

Takes(s, what) == inbox[s] = <<what>> /\ inbox' = [inbox EXCEPT ![s] = <<>>]
\* asr_service_event_callback: yt_dcl_start and yt_dcl_stop.
SpeechHears(what) ==
    /\ Takes("asr", what) /\ talkKey' = (what = "connected")
    /\ UNCHANGED <<boot, handle, lock, task, updating, request, failed>>
\* ota_service_callback: an update takes the keys away and, when it failed, gives
\* them back.  It sleeps five seconds; the threads that were created before it
\* have begun by then.
UpdateStarts ==
    /\ ~updating /\ Takes("ota", "connected") /\ talkKey' = FALSE /\ updating' = TRUE
    /\ UNCHANGED <<boot, handle, lock, task, request, failed>>
NoUpdate(what) ==
    /\ ~updating /\ Takes("ota", what)
    /\ UNCHANGED <<boot, handle, lock, task, talkKey, updating, request, failed>>
UpdateFails ==
    /\ updating /\ \A s \in Services : task[s] # "created"
    /\ talkKey' = TRUE /\ updating' = FALSE
    /\ UNCHANGED <<boot, handle, lock, task, inbox, request, failed>>
-----------------------------------------------------------------------------
\* A question of the child, which main's loop lets begin; asr_service_send_request
\* looks at the handle and then uses it.
Ask ==
    /\ boot = <<"loop">> /\ talkKey /\ request = "none" /\ handle["asr"] # "none"
    /\ request' = "checked"
    /\ UNCHANGED <<boot, handle, lock, task, inbox, talkKey, updating, failed>>
Queue ==
    /\ request = "checked" /\ request' = "none"
    /\ UNCHANGED <<boot, handle, lock, task, inbox, talkKey, updating, failed>>

StartNext ==
    \/ GreetingEnds \/ Ask \/ Queue \/ UpdateStarts \/ UpdateFails
    \/ \E s \in Services :
         NewHandle(s) \/ NewLock(s) \/ StartTask(s) \/ JoinBus(s) \/ Misses(s)
    \/ \E what \in {"connected", "gone"} : Tell(what) \/ SpeechHears(what) \/ NoUpdate(what)
StartSpec == StartInit /\ [][StartNext]_startVars
-----------------------------------------------------------------------------
StartTypeOK ==
    /\ boot \in {<<"play">>, <<"test">>, <<"loop">>} \cup ((1..Len(Order)) \X (1..Len(Stages)))
    /\ handle \in [Services -> {"none", "live", "freed"}]
    /\ lock \in [Services -> {"none", "made", "missing"}]
    /\ task \in [Services -> {"none", "created", "joined", "ended", "dead"}]
    /\ inbox \in [Listeners -> {<<>>, <<"connected">>, <<"gone">>}]
    /\ talkKey \in BOOLEAN /\ updating \in BOOLEAN /\ request \in {"none", "checked"} /\ failed \in Seq(Services)

Unhurt(s) == \A i \in DOMAIN failed : failed[i] # s
\* A service that is on the bus has the memory and the lock its handlers use, on
\* whatever way of starting, and the one the child's question goes through is not
\* taken away under it.  What fails in one service hurts no other: all the others
\* have their threads when main enters its loop.
StartIsOrderly ==
    /\ \A s \in WithHandle : task[s] = "joined" =>
         /\ handle[s] = "live"
         /\ s \in WithLock /\ Unhurt(s) => lock[s] = "made"
    /\ request = "checked" => handle["asr"] = "live"
    /\ boot = <<"loop">> => \A s \in Services : Unhurt(s) => task[s] \in {"created", "joined"}
-----------------------------------------------------------------------------
(* Where main is decides how far each service was created.                 *)
At(i, j) == boot = <<i, j>>
Comes(i) == \/ boot \in {<<"play">>, <<"test">>}
            \/ \E k \in 1 .. i - 1, j \in 1 .. Len(Stages) : At(k, j)
            \/ At(i, 1)
Behind(i) == boot = <<"loop">> \/ \E k \in i + 1 .. Len(Order), j \in 1 .. Len(Stages) : At(k, j)

HasHandle(s) == s \in WithHandle => handle[s] = "live"
HasLock(s) == s \in WithLock => lock[s] = "made" \/ (lock[s] = "missing" /\ ~Unhurt(s))
CreatedSoFar(i) ==
    /\ Comes(i) => handle[Order[i]] = "none" /\ lock[Order[i]] = "none"
    /\ ~Behind(i) => task[Order[i]] = "none"
    /\ At(i, 2) => HasHandle(Order[i]) /\ lock[Order[i]] = "none"
    /\ At(i, 3) => HasHandle(Order[i]) /\ HasLock(Order[i])
    /\ Behind(i) /\ Unhurt(Order[i]) => task[Order[i]] \in {"created", "joined"}
CreatedInOrder == \A i \in 1 .. Len(Order) : CreatedSoFar(i)
RunsWithAll ==
    \A s \in Services : /\ task[s] \in {"created", "joined"} => HasHandle(s) /\ HasLock(s)
                        /\ handle[s] = "freed" => s = "memo"
HearsWhenJoined ==
    /\ \A s \in Listeners : inbox[s] # <<>> => task[s] = "joined"
    /\ updating => task["ota"] = "joined"
AsksWhenStarted ==
    /\ talkKey => Behind(3) /\ task["asr"] # "created"
    /\ request = "checked" =>
          boot = <<"loop">> /\ task["asr"] # "created" /\ handle["asr"] = "live"

StartInv == /\ StartTypeOK /\ CreatedInOrder /\ RunsWithAll
            /\ HearsWhenJoined /\ AsksWhenStarted
=============================================================================
