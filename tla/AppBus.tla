-------------------------------- MODULE AppBus --------------------------------
(***************************************************************************)
(* The message bus of src/deepbrain/components/app_framework: every        *)
(* service is an "app" with its own thread, its own message queue and a    *)
(* list of event callbacks.  A message is never put on the queue of its    *)
(* receiver by its sender: app_send_msg puts it on the queue of the app    *)
(* "main", whose thread copies it to the receivers one by one while it     *)
(* holds the lock of main.                                                 *)
(*                                                                         *)
(* A message is represented by its number in log, the history of what      *)
(* app_send_msg accepted.  The lock of main is held across steps only by   *)
(* main's own thread, while it distributes (mainPc = "locked"); every      *)
(* other critical section is one step that waits for that lock.            *)
(***************************************************************************)
EXTENDS Naturals, Sequences, FiniteSets

CONSTANTS
  Apps,        \* names of the services (main is not one of them)
  Main,        \* APP_MAIN_NAME
  ToAll,       \* APP_MSG_TO_ALL
  Traffic,     \* the messages the program sends: [from, to, event]
  MaxSends,    \* bound: messages accepted in a behaviour
  MaxLives,    \* bound: how often a service is started
  MallocFails  \* whether malloc may return NULL

ASSUME AppsAssumption == Main \notin Apps /\ ToAll \notin Apps
ASSUME BoundsAssumption == MaxSends \in Nat /\ MaxLives \in Nat
ASSUME MallocAssumption == MallocFails \in BOOLEAN

Events == {"DEFAULT_EXIT", "SERVICE_EVENT"}
Bases == {"DEFAULT_BASE", "SERVICE_BASE"}

Messages == [from : Apps \cup {Main}, to : Apps \cup {ToAll}, event : Events]
ASSUME TrafficAssumption == Traffic \subseteq Messages

\* Mutant: the event is compared with its base unmasked.
BaseOfUnmasked(event) == event

\* 0xffffff00 & event: the event class a callback is registered for.
BaseOf(event) == IF event = "DEFAULT_EXIT" THEN "DEFAULT_BASE" ELSE "SERVICE_BASE"

VARIABLES
  appsList,   \* APPS_LIST, the names linked into it
  mainQueue,  \* msg_queue of main
  mainPc,     \* where main's thread is in app_msg_dispatch
  inHand,     \* the message main's thread popped, 0 when none
  todo,       \* receivers the running distribution has still to visit
  task,       \* where the thread of each service is
  runStatus,  \* run_status of each app object
  callbacks,  \* event_list of each app object: the bases with a callback
  queue,      \* msg_queue of each app object
  current,    \* the message whose callback a service runs, 0 when none
  lives,      \* how often each service was started
  log,        \* history: the messages app_send_msg accepted
  since,      \* history: length of log when the app was linked
  taken,      \* history: what an app took from its queue, in order
  lost        \* history: what malloc failures kept from an app

mainVars == <<appsList, mainQueue, mainPc, inHand, todo>>
appVars == <<task, runStatus, callbacks, queue, current, lives>>
histVars == <<log, since, taken, lost>>
vars == <<mainVars, appVars, histVars>>

Numbers(s) == {s[i] : i \in DOMAIN s}
Addressed(m, a) == m.to = a \/ (m.to = ToAll /\ m.from # a)
MainLockFree == mainPc # "locked"

TypeOK ==
  /\ appsList \subseteq Apps
  /\ mainQueue \in Seq(Nat)
  /\ mainPc \in {"recv", "popped", "locked"}
  /\ inHand \in Nat
  /\ todo \subseteq Apps
  /\ task \in [Apps -> {"none", "created", "linked", "loop", "callback", "unlinked"}]
  /\ runStatus \in [Apps -> {"RUNNING", "EXIT"}]
  /\ callbacks \in [Apps -> SUBSET Bases]
  /\ queue \in [Apps -> Seq(Nat)]
  /\ current \in [Apps -> Nat]
  /\ lives \in [Apps -> Nat]
  /\ log \in Seq(Messages)
  /\ since \in [Apps -> Nat]
  /\ taken \in [Apps -> Seq(Nat)]
  /\ lost \in [Apps -> SUBSET Nat]
  /\ (inHand = 0) = (mainPc = "recv")
  /\ todo # {} => mainPc = "locked"
  /\ \A a \in Apps : (current[a] # 0) = (task[a] = "callback")

\* The state after app_main_create: main exists, no service was started.
Init ==
  /\ appsList = {} /\ mainQueue = <<>> /\ mainPc = "recv"
  /\ inHand = 0 /\ todo = {}
  /\ task = [a \in Apps |-> "none"]
  /\ runStatus = [a \in Apps |-> "RUNNING"]
  /\ callbacks = [a \in Apps |-> {}]
  /\ queue = [a \in Apps |-> <<>>]
  /\ current = [a \in Apps |-> 0]
  /\ lives = [a \in Apps |-> 0]
  /\ log = <<>>
  /\ since = [a \in Apps |-> 0]
  /\ taken = [a \in Apps |-> <<>>]
  /\ lost = [a \in Apps |-> {}]

-----------------------------------------------------------------------------
(* The life of a service thread: app_new, app_add_event, app_msg_dispatch, *)
(* app_delete.                                                             *)

\* app_new, first half: the object is allocated and emptied.
CreateObject(a) ==
  /\ task[a] = "none" /\ lives[a] < MaxLives
  /\ lives' = [lives EXCEPT ![a] = @ + 1]
  /\ task' = [task EXCEPT ![a] = "created"]
  /\ runStatus' = [runStatus EXCEPT ![a] = "RUNNING"]
  /\ queue' = [queue EXCEPT ![a] = <<>>]
  /\ callbacks' = [callbacks EXCEPT ![a] = {}]
  /\ taken' = [taken EXCEPT ![a] = <<>>]
  /\ lost' = [lost EXCEPT ![a] = {}]
  /\ UNCHANGED <<mainVars, current, log, since>>

\* app_new, second half: LIST_INSERT_HEAD under the lock of main.
LinkObject(a) ==
  /\ task[a] = "created" /\ MainLockFree
  /\ appsList' = appsList \cup {a}
  /\ since' = [since EXCEPT ![a] = Len(log)]
  /\ task' = [task EXCEPT ![a] = "linked"]
  /\ UNCHANGED <<mainQueue, mainPc, inHand, todo, runStatus, callbacks, queue,
                 current, lives, log, taken, lost>>

\* The app_add_event calls of a service; the services ignore their result.
Subscribe(a, B) ==
  /\ task[a] = "linked"
  /\ B = Bases \/ MallocFails
  /\ callbacks' = [callbacks EXCEPT ![a] = B]
  /\ task' = [task EXCEPT ![a] = "loop"]
  /\ UNCHANGED <<mainVars, runStatus, queue, current, lives, histVars>>

\* One turn of app_msg_dispatch up to the callback: pop the first message
\* and look for a callback; a message without one is freed and forgotten.
TakeMessage(a) ==
  /\ task[a] = "loop" /\ runStatus[a] = "RUNNING" /\ queue[a] # <<>>
  /\ LET n == Head(queue[a])
     IN /\ queue' = [queue EXCEPT ![a] = Tail(@)]
        /\ taken' = [taken EXCEPT ![a] = Append(@, n)]
        /\ IF BaseOf(log[n].event) \in callbacks[a]
             THEN /\ task' = [task EXCEPT ![a] = "callback"]
                  /\ current' = [current EXCEPT ![a] = n]
             ELSE UNCHANGED <<task, current>>
  /\ UNCHANGED <<mainVars, runStatus, callbacks, lives, log, since, lost>>

\* Mutant: the message freed after the callback is still referred to.
FinishCallbackKeepsMessage(a) ==
  /\ task[a] = "callback"
  /\ runStatus' = IF log[current[a]].event = "DEFAULT_EXIT"
                    THEN [runStatus EXCEPT ![a] = "EXIT"] ELSE runStatus
  /\ task' = [task EXCEPT ![a] = "loop"]
  /\ UNCHANGED <<mainVars, callbacks, queue, current, lives, histVars>>

\* The end of the callback; the callback of DEFAULT_EXIT calls app_exit.
\* What else a callback does to the bus are sends, which Send covers.
FinishCallback(a) ==
  /\ task[a] = "callback"
  /\ runStatus' = IF log[current[a]].event = "DEFAULT_EXIT"
                    THEN [runStatus EXCEPT ![a] = "EXIT"] ELSE runStatus
  /\ task' = [task EXCEPT ![a] = "loop"]
  /\ current' = [current EXCEPT ![a] = 0]
  /\ UNCHANGED <<mainVars, callbacks, queue, lives, histVars>>

\* Mutant: the app is unlinked without taking the lock of main.
UnlinkObjectUnlocked(a) ==
  /\ task[a] = "loop" /\ runStatus[a] = "EXIT"
  /\ appsList' = appsList \ {a}
  /\ task' = [task EXCEPT ![a] = "unlinked"]
  /\ UNCHANGED <<mainQueue, mainPc, inHand, todo, runStatus, callbacks, queue,
                 current, lives, histVars>>

\* app_delete, first half: the loop ended; LIST_REMOVE under main's lock.
UnlinkObject(a) ==
  /\ task[a] = "loop" /\ runStatus[a] = "EXIT" /\ MainLockFree
  /\ appsList' = appsList \ {a}
  /\ task' = [task EXCEPT ![a] = "unlinked"]
  /\ UNCHANGED <<mainQueue, mainPc, inHand, todo, runStatus, callbacks, queue,
                 current, lives, histVars>>

\* app_delete, second half: queued messages, callbacks and object are freed.
FreeObject(a) ==
  /\ task[a] = "unlinked"
  /\ task' = [task EXCEPT ![a] = "none"]
  /\ queue' = [queue EXCEPT ![a] = <<>>]
  /\ callbacks' = [callbacks EXCEPT ![a] = {}]
  /\ UNCHANGED <<mainVars, runStatus, current, lives, histVars>>

-----------------------------------------------------------------------------
(* Sending, by any thread, and the thread of main.                         *)

\* Mutant: the message goes to the head of the queue.
SendToHead(m) ==
  /\ MainLockFree /\ Len(log) < MaxSends
  /\ log' = Append(log, m)
  /\ mainQueue' = <<Len(log) + 1>> \o mainQueue
  /\ UNCHANGED <<appsList, mainPc, inHand, todo, appVars, since, taken, lost>>

\* app_send_message: a copy of the message goes to the tail of main's queue.
\* A failed malloc is returned to the sender and leaves the bus as it was.
Send(m) ==
  /\ MainLockFree /\ Len(log) < MaxSends
  /\ log' = Append(log, m)
  /\ mainQueue' = Append(mainQueue, Len(log) + 1)
  /\ UNCHANGED <<appsList, mainPc, inHand, todo, appVars, since, taken, lost>>

\* app_object_recv_msg of main.
MainReceive ==
  /\ mainPc = "recv" /\ mainQueue # <<>>
  /\ inHand' = Head(mainQueue)
  /\ mainQueue' = Tail(mainQueue)
  /\ mainPc' = "popped"
  /\ UNCHANGED <<appsList, todo, appVars, histVars>>

\* Mutant: a broadcast is not kept from its sender, nor a message from others.
MainLockEveryone ==
  /\ mainPc = "popped"
  /\ mainPc' = "locked"
  /\ todo' = appsList
  /\ UNCHANGED <<appsList, mainQueue, inHand, appVars, histVars>>

\* app_object_main_distribute_msg takes the lock and chooses the receivers.
MainLock ==
  /\ mainPc = "popped"
  /\ mainPc' = "locked"
  /\ todo' = {a \in appsList : Addressed(log[inHand], a)}
  /\ UNCHANGED <<appsList, mainQueue, inHand, appVars, histVars>>

\* Mutant: the walk over the list ends at the first receiver of a broadcast.
MainDeliverFirstOnly(a) ==
  /\ mainPc = "locked" /\ a \in todo
  /\ todo' = {}
  /\ queue' = [queue EXCEPT ![a] = Append(@, inHand)]
  /\ UNCHANGED <<appsList, mainQueue, mainPc, inHand, task, runStatus, callbacks,
                 current, lives, log, since, taken, lost>>

\* app_object_send_msg to one receiver; its result is ignored.
MainDeliver(a) ==
  /\ mainPc = "locked" /\ a \in todo
  /\ todo' = todo \ {a}
  /\ \/ /\ queue' = [queue EXCEPT ![a] = Append(@, inHand)]
        /\ UNCHANGED lost
     \/ /\ MallocFails
        /\ lost' = [lost EXCEPT ![a] = @ \cup {inHand}]
        /\ UNCHANGED queue
  /\ UNCHANGED <<appsList, mainQueue, mainPc, inHand, task, runStatus, callbacks,
                 current, lives, log, since, taken>>

\* Mutant: main's lock is not given back.
MainUnlockForgotten ==
  /\ mainPc = "locked" /\ todo = {}
  /\ UNCHANGED vars

\* The end of the distribution: unlock and free the message.
MainUnlock ==
  /\ mainPc = "locked" /\ todo = {}
  /\ mainPc' = "recv"
  /\ inHand' = 0
  /\ UNCHANGED <<appsList, mainQueue, todo, appVars, histVars>>

AppStep(a) ==
  \/ CreateObject(a) \/ LinkObject(a)
  \/ \E B \in SUBSET Bases : Subscribe(a, B)
  \/ TakeMessage(a) \/ FinishCallback(a)
  \/ UnlinkObject(a) \/ FreeObject(a)

MainStep ==
  \/ MainReceive \/ MainLock \/ MainUnlock
  \/ \E a \in Apps : MainDeliver(a)

Next ==
  \/ \E m \in Traffic : Send(m)
  \/ MainStep
  \/ \E a \in Apps : AppStep(a)

Spec == Init /\ [][Next]_vars

\* Every thread of the RTOS is scheduled again and again: nothing in the bus
\* waits except for main's lock, whose holder only copies messages.  A linked
\* service keeps running; when a service is started is not promised.
Fairness ==
  /\ WF_vars(MainStep)
  /\ \A a \in Apps : WF_vars(task[a] # "none" /\ AppStep(a))

FairSpec == Spec /\ Fairness

-----------------------------------------------------------------------------
(* What the bus owes a receiver. *)

\* The messages on their way to a: queued for it, being handed to it, or
\* still with main and addressed to it.
Pending(a) ==
  Numbers(queue[a])
    \cup (IF a \in todo \/ (mainPc = "popped" /\ Addressed(log[inHand], a))
            THEN {inHand} ELSE {})
    \cup {n \in Numbers(mainQueue) : Addressed(log[n], a)}

\* A message accepted after a service was linked, and addressed to it, is on
\* its way to the service, was taken by it, or fell to a failed malloc in
\* app_object_main_distribute_msg: it never vanishes on its two queues.
NothingVanishes ==
  \A a \in appsList : \A n \in since[a] + 1 .. Len(log) :
    Addressed(log[n], a) => n \in Pending(a) \cup Numbers(taken[a]) \cup lost[a]

\* Main copies messages only to linked app objects that are not yet freed,
\* although it visits them one by one while their threads go on running.
NoDeliveryToFreedObject ==
  /\ todo \subseteq appsList
  /\ \A a \in appsList : task[a] \in {"linked", "loop", "callback"}

\* Two services take the messages both receive in the same order, the order
\* in which app_send_msg accepted them, with nothing taken twice, although a
\* broadcast reaches their queues at different times.
SameOrderForAll ==
  \A a \in Apps : \A i, j \in DOMAIN taken[a] : i < j => taken[a][i] < taken[a][j]

\* The bus implements BusPromise: whatever the two hops, the lock of main and
\* the life of the services do, each service takes what is on its way to it in
\* the order of acceptance, and nothing is ever on its way twice.
Promise == INSTANCE BusPromise WITH
  published <- Len(log), pending <- [a \in Apps |-> Pending(a)], received <- taken
KeepsPromise == Promise!Spec

\* When malloc does not fail, a message that is due to a linked service is
\* taken by it in the end, unless the service exits first.
EventuallyTaken ==
  \A a \in Apps : \A n \in 1 .. MaxSends :
    (a \in appsList /\ n \in Pending(a))
      ~> (n \in Numbers(taken[a]) \/ a \notin appsList)

\* When malloc does not fail, an exit message that was taken by a service
\* that has all its callbacks ends the service's thread.
ExitEndsService ==
  \A a \in Apps :
    (\E i \in DOMAIN taken[a] : log[taken[a][i]].event = "DEFAULT_EXIT")
      ~> task[a] = "none"
=============================================================================
