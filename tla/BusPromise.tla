------------------------------ MODULE BusPromise ------------------------------
(***************************************************************************)
(* What the message bus promises its apps, without queues, locks or        *)
(* threads: accepted messages are numbered, every receiver takes the       *)
(* messages that are on their way to it in the order of their numbers, and *)
(* it may miss some of them (it was not linked, it exited, malloc failed). *)
(***************************************************************************)
EXTENDS Naturals, Sequences

CONSTANTS Apps, MaxSends

VARIABLES
  published,  \* how many messages were accepted
  pending,    \* the messages on their way to each app
  received    \* what each app took since it was started

vars == <<published, pending, received>>

Init ==
  /\ published = 0
  /\ pending = [a \in Apps |-> {}]
  /\ received = [a \in Apps |-> <<>>]

\* A new message is accepted and is on its way to some of the apps.
Publish ==
  /\ published < MaxSends
  /\ published' = published + 1
  /\ \E R \in SUBSET Apps :
       pending' = [a \in Apps |-> IF a \in R THEN pending[a] \cup {published + 1}
                                             ELSE pending[a]]
  /\ UNCHANGED received

\* An app takes the first message on its way to it.
Take(a) ==
  \E n \in pending[a] :
    /\ \A k \in pending[a] : n <= k
    /\ pending' = [pending EXCEPT ![a] = @ \ {n}]
    /\ received' = [received EXCEPT ![a] = Append(@, n)]
    /\ UNCHANGED published

\* Messages miss their receivers.
Miss ==
  /\ \E M \in [Apps -> SUBSET (1 .. MaxSends)] :
       pending' = [a \in Apps |-> pending[a] \ M[a]]
  /\ UNCHANGED <<published, received>>

\* An app is started anew: it has received nothing yet.
Restart(a) ==
  /\ received' = [received EXCEPT ![a] = <<>>]
  /\ UNCHANGED <<published, pending>>

Next == Publish \/ Miss \/ \E a \in Apps : Take(a) \/ Restart(a)

Spec == Init /\ [][Next]_vars
=============================================================================
