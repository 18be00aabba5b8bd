------------------------------ MODULE EventLoop ------------------------------
(***************************************************************************)
(* A thread of DuerOS with a queue of callbacks (lightduer_events.cpp), as *)
(* the event emitter uses it (lightduer_event_emitter.c): threads post     *)
(* while another one destroys it.  The loop ends with the message that the *)
(* destruction puts into the queue, and deletes itself a little later.     *)
(***************************************************************************)
EXTENDS Integers, Sequences

CONSTANTS
    Posters,    \* threads that emit, one event each; "destroyer" destroys
    QueueMax    \* messages that fit into the queue

Destroyer == "destroyer"
Callers == Posters \cup {Destroyer}

VARIABLES
    handler,    \* g_events_handler is not NULL
    pc,         \* where each caller is
    terminate,  \* _terminate
    eventQueue, \* _queue
    loop,       \* "get", or the event that runs, "ended", "deleted"
    accepted,   \* history: the events whose post returned DUER_OK, in the order of the queue
    handled     \* history: the events whose callback ran
eventVars == <<handler, pc, terminate, eventQueue, loop, accepted, handled>>
-----------------------------------------------------------------------------
Goes(c, from, to) == pc[c] = from /\ pc' = [pc EXCEPT ![c] = to]

\* duer_emitter_emit and duer_emitter_destroy: g_events_handler is read and used
\* without a lock.
Emit(c) ==
    /\ Goes(c, "start", IF handler THEN "check" ELSE "failed")
    /\ UNCHANGED <<handler, terminate, eventQueue, loop, accepted, handled>>

\* DuerHandler::post, under the mutex.
Check(c) ==
    /\ Goes(c, "check", IF terminate THEN "failed" ELSE "put")
    /\ terminate' = (terminate \/ c = Destroyer)
    /\ UNCHANGED <<handler, eventQueue, loop, accepted, handled>>

\* DuerHandler::post, behind it; the queue has a millisecond.  An object that is
\* deleted by then is not looked at here.
Put(c) ==
    /\ loop # "deleted"
    /\ IF Len(eventQueue) < QueueMax
         THEN /\ Goes(c, "put", "ok") /\ eventQueue' = Append(eventQueue, c)
              /\ accepted' = Append(accepted, c)
         ELSE Goes(c, "put", "failed") /\ UNCHANGED <<eventQueue, accepted>>
    /\ UNCHANGED <<handler, terminate, loop, handled>>

\* duer_emitter_destroy, afterwards.
Forget ==
    /\ pc[Destroyer] \in {"ok", "failed"} /\ handler /\ handler' = FALSE
    /\ UNCHANGED <<pc, terminate, eventQueue, loop, accepted, handled>>
-----------------------------------------------------------------------------
\* The loop ends as soon as it is asked to.
EndsAtOnce(message) == terminate
EndsWith(message) == message = Destroyer
\* DuerHandler::loop.
Get ==
    /\ loop = "get" /\ eventQueue # <<>> /\ eventQueue' = Tail(eventQueue)
    /\ loop' = IF EndsWith(Head(eventQueue)) THEN "ended" ELSE Head(eventQueue)
    /\ UNCHANGED <<handler, pc, terminate, accepted, handled>>
Run ==
    /\ loop \in Posters /\ handled' = Append(handled, loop) /\ loop' = "get"
    /\ UNCHANGED <<handler, pc, terminate, eventQueue, accepted>>
\* delete_self, 10 ms later.
DeleteSelf ==
    /\ loop = "ended" /\ loop' = "deleted"
    /\ UNCHANGED <<handler, pc, terminate, eventQueue, accepted, handled>>
-----------------------------------------------------------------------------
EventInit ==
    /\ handler = TRUE /\ pc = [c \in Callers |-> "start"] /\ terminate = FALSE
    /\ eventQueue = <<>> /\ loop = "get" /\ accepted = <<>> /\ handled = <<>>
EventNext ==
    \/ \E c \in Callers : Emit(c) \/ Check(c) \/ Put(c)
    \/ Forget \/ Get \/ Run \/ DeleteSelf
EventSpec == EventInit /\ [][EventNext]_eventVars
-----------------------------------------------------------------------------
EventTypeOK ==
    /\ handler \in BOOLEAN /\ terminate \in BOOLEAN
    /\ pc \in [Callers -> {"start", "check", "put", "ok", "failed"}]
    /\ eventQueue \in Seq(Callers) /\ Len(eventQueue) <= QueueMax
    /\ loop \in Posters \cup {"get", "ended", "deleted"}

\* Callbacks run one at a time in the order in which their events were accepted,
\* and each event that was accepted before the destruction has run by the end.
\* Not so one whose thread was between the two halves of post: it is accepted
\* behind the end.
AcceptedEventsRun ==
    /\ Len(handled) <= Len(accepted)
    /\ \A i \in DOMAIN handled : handled[i] = accepted[i] /\ handled[i] # Destroyer
    /\ loop \in {"ended", "deleted"} =>
         Len(handled) < Len(accepted) /\ accepted[Len(handled) + 1] = Destroyer

\* What every step keeps: behind what was handled comes what the loop has taken
\* out of the queue, and then what is in it.
Taken == IF loop = "get" THEN 0 ELSE 1
QueueIsNext ==
    /\ Len(accepted) = Len(handled) + Taken + Len(eventQueue)
    /\ \A i \in DOMAIN handled : handled[i] = accepted[i]
    /\ loop # "get" =>
         accepted[Len(handled) + 1] = IF loop \in Posters THEN loop ELSE Destroyer
    /\ \A i \in DOMAIN eventQueue : eventQueue[i] = accepted[Len(handled) + Taken + i]
EventInv ==
    /\ EventTypeOK /\ accepted \in Seq(Callers) /\ handled \in Seq(Posters)
    /\ QueueIsNext
=============================================================================
