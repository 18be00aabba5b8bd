----------------------------- MODULE AppBusProofs -----------------------------
(***************************************************************************)
(* Proofs about the message bus for any number of services, messages and   *)
(* restarts: type correctness, no delivery to a freed app object, one      *)
(* order of messages for all services, no message that vanishes, and that  *)
(* the bus implements BusPromise.                                          *)
(***************************************************************************)
EXTENDS AppBus, TLAPS

LEMMA HeadTail ==
  ASSUME NEW S, NEW s \in Seq(S), s # <<>>
  PROVE  /\ Head(s) \in S /\ Tail(s) \in Seq(S)
         /\ 1 \in DOMAIN s /\ Head(s) = s[1]
         /\ \A i \in DOMAIN Tail(s) : i + 1 \in DOMAIN s /\ Tail(s)[i] = s[i + 1]
  OBVIOUS

LEMMA AppendElements ==
  ASSUME NEW S, NEW s \in Seq(S), NEW e \in S
  PROVE  /\ Append(s, e) \in Seq(S)
         /\ \A i \in DOMAIN Append(s, e) :
              \/ i \in DOMAIN s /\ Append(s, e)[i] = s[i]
              \/ Append(s, e)[i] = e /\ \A j \in DOMAIN Append(s, e) : j <= i
  OBVIOUS

\* Every number on a queue, in main's hand or in a history is a message of log.
OnlyLogged ==
  /\ inHand \in 0 .. Len(log)
  /\ mainQueue \in Seq(1 .. Len(log))
  /\ queue \in [Apps -> Seq(1 .. Len(log))]
  /\ taken \in [Apps -> Seq(1 .. Len(log))]

TypeInv == TypeOK /\ OnlyLogged

LEMMA SeqWiden ==
  ASSUME NEW m \in Nat, NEW n \in Nat, m <= n, NEW s \in Seq(1 .. m)
  PROVE  s \in Seq(1 .. n)
  OBVIOUS

LEMMA TypeInit == Init => TypeInv
  BY AppsAssumption DEF Init, TypeInv, TypeOK, OnlyLogged

LEMMA TypeSend ==
  ASSUME TypeInv, NEW m \in Traffic, Send(m)
  PROVE  TypeInv'
<1> USE DEF TypeInv, TypeOK, OnlyLogged, appVars
<1>1. m \in Messages
  BY TrafficAssumption
<1>2. log' \in Seq(Messages) /\ Len(log') = Len(log) + 1
  BY <1>1 DEF Send
<1>3. mainQueue' \in Seq(1 .. Len(log'))
  <2>1. mainQueue \in Seq(1 .. Len(log'))
    BY <1>2, SeqWiden
  <2>2. QED
    BY <1>2, <2>1 DEF Send
<1>4. /\ queue' \in [Apps -> Seq(1 .. Len(log'))]
      /\ taken' \in [Apps -> Seq(1 .. Len(log'))]
  <2>1. \A a \in Apps : queue[a] \in Seq(1 .. Len(log')) /\ taken[a] \in Seq(1 .. Len(log'))
    BY <1>2, SeqWiden
  <2>2. QED
    BY <2>1 DEF Send
<1>5. inHand' \in 0 .. Len(log')
  BY <1>2 DEF Send
<1>6. TypeOK'
  BY <1>2, <1>3 DEF Send
<1>7. QED
  BY <1>3, <1>4, <1>5, <1>6

LEMMA TypeNext == TypeInv /\ [Next]_vars => TypeInv'
<1> SUFFICES ASSUME TypeInv, [Next]_vars PROVE TypeInv'
  OBVIOUS
<1> USE DEF TypeInv, TypeOK, OnlyLogged, mainVars, appVars, histVars, Bases
<1>1. ASSUME NEW m \in Traffic, Send(m) PROVE TypeInv'
  BY <1>1, TypeSend
<1>2. CASE MainReceive
  <2>1. Head(mainQueue) \in 1 .. Len(log) /\ Tail(mainQueue) \in Seq(1 .. Len(log))
    BY <1>2, HeadTail DEF MainReceive
  <2>2. QED
    BY <1>2, <2>1 DEF MainReceive
<1>3. CASE MainLock
  BY <1>3 DEF MainLock
<1>4. CASE MainUnlock
  BY <1>4 DEF MainUnlock
<1>5. ASSUME NEW a \in Apps, MainDeliver(a) PROVE TypeInv'
  <2>1. inHand \in 1 .. Len(log)
    BY <1>5 DEF MainDeliver
  <2>2. Append(queue[a], inHand) \in Seq(1 .. Len(log)) \cap Seq(Nat)
    BY <2>1, AppendElements
  <2>3. /\ todo' = todo \ {a} /\ mainPc = "locked"
        /\ UNCHANGED <<appsList, mainQueue, mainPc, inHand, task, runStatus,
                       callbacks, current, lives, log, since, taken>>
    BY <1>5 DEF MainDeliver
  <2>4. CASE queue' = [queue EXCEPT ![a] = Append(@, inHand)] /\ UNCHANGED lost
    BY <2>2, <2>3, <2>4
  <2>5. CASE lost' = [lost EXCEPT ![a] = @ \cup {inHand}] /\ UNCHANGED queue
    BY <2>1, <2>3, <2>5
  <2>6. QED
    BY <1>5, <2>4, <2>5 DEF MainDeliver
<1>6. ASSUME NEW a \in Apps, CreateObject(a) PROVE TypeInv'
  BY <1>6, SMTT(30) DEF CreateObject
<1>7. ASSUME NEW a \in Apps, LinkObject(a) PROVE TypeInv'
  BY <1>7, SMTT(30) DEF LinkObject
<1>8. ASSUME NEW a \in Apps, NEW B \in SUBSET Bases, Subscribe(a, B) PROVE TypeInv'
  BY <1>8 DEF Subscribe
<1>9. ASSUME NEW a \in Apps, TakeMessage(a) PROVE TypeInv'
  <2> DEFINE n == Head(queue[a])
  <2>1. /\ n \in 1 .. Len(log)
        /\ Tail(queue[a]) \in Seq(1 .. Len(log)) \cap Seq(Nat)
    BY <1>9, HeadTail DEF TakeMessage
  <2>2. Append(taken[a], n) \in Seq(1 .. Len(log)) \cap Seq(Nat)
    BY <2>1, AppendElements
  <2>3. /\ queue' = [queue EXCEPT ![a] = Tail(@)]
        /\ taken' = [taken EXCEPT ![a] = Append(@, n)]
        /\ UNCHANGED <<mainVars, runStatus, callbacks, lives, log, since, lost>>
    BY <1>9 DEF TakeMessage
  <2>4. /\ queue' \in [Apps -> Seq(1 .. Len(log))] /\ queue' \in [Apps -> Seq(Nat)]
        /\ taken' \in [Apps -> Seq(1 .. Len(log))] /\ taken' \in [Apps -> Seq(Nat)]
    BY <2>1, <2>2, <2>3
  <2>5. /\ task' \in [Apps -> {"none", "created", "linked", "loop", "callback", "unlinked"}]
        /\ current' \in [Apps -> Nat]
        /\ \A b \in Apps : (current'[b] # 0) = (task'[b] = "callback")
    <3>1. CASE task' = [task EXCEPT ![a] = "callback"] /\ current' = [current EXCEPT ![a] = n]
      BY <2>1, <3>1, SMTT(30)
    <3>2. CASE UNCHANGED <<task, current>>
      BY <3>2
    <3>3. QED
      BY <1>9, <3>1, <3>2 DEF TakeMessage
  <2>6. QED
    BY <2>3, <2>4, <2>5
<1>10. ASSUME NEW a \in Apps, FinishCallback(a) PROVE TypeInv'
  BY <1>10 DEF FinishCallback
<1>11. ASSUME NEW a \in Apps, UnlinkObject(a) PROVE TypeInv'
  BY <1>11 DEF UnlinkObject
<1>12. ASSUME NEW a \in Apps, FreeObject(a) PROVE TypeInv'
  BY <1>12 DEF FreeObject
<1>13. CASE UNCHANGED vars
  BY <1>13 DEF vars
<1>14. QED
  BY <1>1, <1>2, <1>3, <1>4, <1>5, <1>6, <1>7, <1>8, <1>9, <1>10, <1>11, <1>12, <1>13
     DEF Next, MainStep, AppStep

\* The bus never holds anything but numbers of accepted messages, its lock and
\* its hand agree on what main is doing, and a message is referred to exactly
\* while its callback runs (app_framework.cpp, app_msg_dispatch).
THEOREM TypeCorrect == Spec => []TypeOK
<1>1. TypeInv => TypeOK
  BY DEF TypeInv
<1>2. QED
  BY <1>1, TypeInit, TypeNext, PTL DEF Spec

-----------------------------------------------------------------------------
\* Being linked is being in one of three places; main visits only while it
\* holds its lock, and only linked apps.
LinkInv ==
  /\ TypeInv
  /\ todo \subseteq appsList
  /\ \A a \in Apps : a \in appsList <=> task[a] \in {"linked", "loop", "callback"}

LEMMA LinkInit == Init => LinkInv
  BY TypeInit DEF Init, LinkInv

LEMMA LinkNext == LinkInv /\ [Next]_vars => LinkInv'
<1> SUFFICES ASSUME LinkInv, [Next]_vars PROVE LinkInv'
  OBVIOUS
<1>0. TypeInv'
  BY TypeNext DEF LinkInv
<1> USE DEF LinkInv, TypeInv, TypeOK, mainVars, appVars, histVars
<1>1. ASSUME NEW m \in Traffic, Send(m) PROVE LinkInv'
  BY <1>0, <1>1 DEF Send
<1>2. CASE MainReceive
  BY <1>0, <1>2 DEF MainReceive
<1>3. CASE MainLock
  BY <1>0, <1>3 DEF MainLock
<1>4. CASE MainUnlock
  BY <1>0, <1>4 DEF MainUnlock
<1>5. ASSUME NEW a \in Apps, MainDeliver(a) PROVE LinkInv'
  BY <1>0, <1>5 DEF MainDeliver
<1>6. ASSUME NEW a \in Apps, CreateObject(a) PROVE LinkInv'
  BY <1>0, <1>6 DEF CreateObject
<1>7. ASSUME NEW a \in Apps, LinkObject(a) PROVE LinkInv'
  BY <1>0, <1>7 DEF LinkObject
<1>8. ASSUME NEW a \in Apps, NEW B \in SUBSET Bases, Subscribe(a, B) PROVE LinkInv'
  BY <1>0, <1>8 DEF Subscribe
<1>9. ASSUME NEW a \in Apps, TakeMessage(a) PROVE LinkInv'
  <2>1. /\ task[a] = "loop" /\ UNCHANGED <<appsList, todo>>
        /\ task' = [task EXCEPT ![a] = "callback"] \/ task' = task
    BY <1>9 DEF TakeMessage
  <2>2. QED
    BY <1>0, <2>1
<1>10. ASSUME NEW a \in Apps, FinishCallback(a) PROVE LinkInv'
  BY <1>0, <1>10 DEF FinishCallback
<1>11. ASSUME NEW a \in Apps, UnlinkObject(a) PROVE LinkInv'
  BY <1>0, <1>11 DEF UnlinkObject, MainLockFree
<1>12. ASSUME NEW a \in Apps, FreeObject(a) PROVE LinkInv'
  BY <1>0, <1>12 DEF FreeObject
<1>13. CASE UNCHANGED vars
  BY <1>0, <1>13 DEF vars
<1>14. QED
  BY <1>1, <1>2, <1>3, <1>4, <1>5, <1>6, <1>7, <1>8, <1>9, <1>10, <1>11, <1>12, <1>13
     DEF Next, MainStep, AppStep

\* app_object_main_distribute_msg never reaches an app object that app_delete
\* has unlinked or freed, for any number of services and restarts.
THEOREM DeliveryIsSafe == Spec => []NoDeliveryToFreedObject
<1>1. LinkInv => NoDeliveryToFreedObject
  BY DEF LinkInv, TypeInv, TypeOK, NoDeliveryToFreedObject
<1>2. QED
  BY <1>1, LinkInit, LinkNext, PTL DEF Spec

-----------------------------------------------------------------------------
(* Messages move from mainQueue to inHand to queue[a] to taken[a]; at each *)
(* of these places everything is older than what is still behind it.       *)

Increasing(s) == \A i, j \in DOMAIN s : i < j => s[i] < s[j]
AllBelow(s, t) == \A i \in DOMAIN s, j \in DOMAIN t : s[i] < t[j]
AllUnder(s, n) == \A i \in DOMAIN s : s[i] < n

\* Main may still hand inHand to a.
MayComeTo(a) == mainPc = "popped" \/ a \in todo

OrderInv ==
  /\ TypeInv
  /\ Increasing(mainQueue)
  /\ mainPc # "recv" => \A j \in DOMAIN mainQueue : inHand < mainQueue[j]
  /\ \A a \in Apps :
       /\ Increasing(taken[a]) /\ Increasing(queue[a])
       /\ AllBelow(taken[a], queue[a])
       /\ AllBelow(taken[a], mainQueue) /\ AllBelow(queue[a], mainQueue)
       /\ MayComeTo(a) => AllUnder(taken[a], inHand) /\ AllUnder(queue[a], inHand)

LEMMA IncreasingTail ==
  ASSUME NEW s \in Seq(Nat), s # <<>>, Increasing(s)
  PROVE  /\ Increasing(Tail(s)) /\ Head(s) \in Nat
         /\ \A j \in DOMAIN Tail(s) : Head(s) < Tail(s)[j]
<1>1. /\ Tail(s) \in Seq(Nat)
      /\ 1 \in DOMAIN s /\ Head(s) = s[1] /\ Head(s) \in Nat
      /\ \A i \in DOMAIN Tail(s) : i \in Nat /\ i + 1 \in DOMAIN s /\ Tail(s)[i] = s[i + 1] /\ 1 <= i
  BY HeadTail
<1>2. QED
  BY <1>1 DEF Increasing

LEMMA IncreasingAppend ==
  ASSUME NEW s \in Seq(Nat), NEW n \in Nat, Increasing(s), AllUnder(s, n)
  PROVE  Increasing(Append(s, n))
<1>1. /\ Append(s, n) \in Seq(Nat)
      /\ \A i \in DOMAIN Append(s, n) : i \in Nat /\
           (\/ i \in DOMAIN s /\ Append(s, n)[i] = s[i]
            \/ Append(s, n)[i] = n /\ \A j \in DOMAIN Append(s, n) : j <= i)
  BY AppendElements
<1>2. QED
  BY <1>1 DEF Increasing, AllUnder

LEMMA OrderInit == Init => OrderInv
  BY TypeInit DEF Init, OrderInv, Increasing, AllBelow, AllUnder, MayComeTo

LEMMA OrderSend ==
  ASSUME OrderInv, TypeInv', NEW m \in Traffic, Send(m)
  PROVE  OrderInv'
<1> DEFINE n == Len(log) + 1
<1>1. /\ mainQueue \in Seq(Nat) /\ n \in Nat
      /\ \A i \in DOMAIN mainQueue : mainQueue[i] < n
      /\ inHand < n
  BY DEF OrderInv, TypeInv, TypeOK, OnlyLogged
<1>2. \A a \in Apps : AllUnder(queue[a], n) /\ AllUnder(taken[a], n)
  <2>1. Len(log) \in Nat
    BY DEF OrderInv, TypeInv, TypeOK
  <2>2. \A a \in Apps : queue[a] \in Seq(1 .. Len(log)) /\ taken[a] \in Seq(1 .. Len(log))
    BY DEF OrderInv, TypeInv, OnlyLogged
  <2>3. QED
    BY <2>1, <2>2 DEF AllUnder
<1>3. /\ mainQueue' = Append(mainQueue, n)
      /\ UNCHANGED <<mainPc, inHand, todo, queue, taken>>
  BY DEF Send, appVars
<1>4. Increasing(mainQueue')
  BY <1>1, <1>3, IncreasingAppend DEF OrderInv, AllUnder
<1>5. \A i \in DOMAIN mainQueue' :
        (i \in DOMAIN mainQueue /\ mainQueue'[i] = mainQueue[i]) \/ mainQueue'[i] = n
  BY <1>1, <1>3, AppendElements
<1>6. mainPc' # "recv" => \A j \in DOMAIN mainQueue' : inHand' < mainQueue'[j]
  BY <1>1, <1>3, <1>5 DEF OrderInv
<1>7. \A a \in Apps : AllBelow(taken'[a], mainQueue') /\ AllBelow(queue'[a], mainQueue')
  BY <1>2, <1>3, <1>5 DEF OrderInv, AllBelow, AllUnder
<1>8. QED
  BY <1>3, <1>4, <1>6, <1>7 DEF OrderInv, MayComeTo

LEMMA OrderReceive ==
  ASSUME OrderInv, TypeInv', MainReceive
  PROVE  OrderInv'
<1>1. /\ mainQueue \in Seq(Nat) /\ mainQueue # <<>> /\ Increasing(mainQueue)
      /\ inHand' = Head(mainQueue) /\ mainQueue' = Tail(mainQueue)
      /\ UNCHANGED <<todo, queue, taken>>
  BY DEF OrderInv, TypeInv, TypeOK, MainReceive, appVars, histVars
<1>2. /\ Increasing(mainQueue')
      /\ \A j \in DOMAIN mainQueue' : inHand' < mainQueue'[j]
  BY <1>1, IncreasingTail
<1>3. /\ 1 \in DOMAIN mainQueue /\ inHand' = mainQueue[1]
      /\ \A j \in DOMAIN mainQueue' : j + 1 \in DOMAIN mainQueue /\ mainQueue'[j] = mainQueue[j + 1]
  BY <1>1, HeadTail
<1>4. ASSUME NEW a \in Apps
      PROVE  /\ AllUnder(taken'[a], inHand') /\ AllUnder(queue'[a], inHand')
             /\ AllBelow(taken'[a], mainQueue') /\ AllBelow(queue'[a], mainQueue')
  BY <1>1, <1>3 DEF OrderInv, AllBelow, AllUnder
<1>5. QED
  BY <1>1, <1>2, <1>4 DEF OrderInv

LEMMA OrderDeliver ==
  ASSUME OrderInv, TypeInv', NEW a \in Apps, MainDeliver(a)
  PROVE  OrderInv'
<1>1. /\ mainPc = "locked" /\ mainPc' = "locked"
      /\ a \in todo /\ todo' = todo \ {a} /\ inHand \in Nat
      /\ UNCHANGED <<mainQueue, inHand, taken>>
      /\ queue \in [Apps -> Seq(Nat)]
  BY DEF OrderInv, TypeInv, TypeOK, MainDeliver
<1>2. CASE UNCHANGED queue
  BY <1>1, <1>2 DEF OrderInv, MayComeTo
<1>3. CASE queue' = [queue EXCEPT ![a] = Append(@, inHand)]
  <2>1. queue[a] \in Seq(Nat) /\ queue'[a] = Append(queue[a], inHand)
    BY <1>1, <1>3
  <2>2. AllUnder(queue[a], inHand) /\ AllUnder(taken[a], inHand)
    BY <1>1 DEF OrderInv, MayComeTo
  <2>3. Increasing(queue'[a])
    BY <1>1, <2>1, <2>2, IncreasingAppend DEF OrderInv
  <2>4. \A i \in DOMAIN queue'[a] :
          (i \in DOMAIN queue[a] /\ queue'[a][i] = queue[a][i]) \/ queue'[a][i] = inHand
    BY <1>1, <2>1, AppendElements
  <2>5. AllBelow(taken[a], queue'[a]) /\ AllBelow(queue'[a], mainQueue)
    BY <1>1, <2>2, <2>4 DEF OrderInv, AllBelow, AllUnder
  <2>6. \A b \in Apps : b # a => queue'[b] = queue[b]
    BY <1>1, <1>3
  <2>7. QED
    BY <1>1, <2>3, <2>5, <2>6 DEF OrderInv, MayComeTo
<1>4. QED
  BY <1>2, <1>3 DEF MainDeliver

LEMMA OrderTake ==
  ASSUME OrderInv, TypeInv', NEW a \in Apps, TakeMessage(a)
  PROVE  OrderInv'
<1> DEFINE n == Head(queue[a])
<1>1. /\ queue[a] \in Seq(Nat) /\ queue[a] # <<>> /\ taken[a] \in Seq(Nat)
      /\ queue'[a] = Tail(queue[a]) /\ taken'[a] = Append(taken[a], n)
      /\ \A b \in Apps : b # a => queue'[b] = queue[b] /\ taken'[b] = taken[b]
      /\ UNCHANGED <<mainQueue, mainPc, inHand, todo>>
  BY DEF OrderInv, TypeInv, TypeOK, TakeMessage, mainVars
<1>2. /\ Increasing(queue'[a]) /\ n \in Nat
      /\ \A j \in DOMAIN queue'[a] : n < queue'[a][j]
  BY <1>1, IncreasingTail DEF OrderInv
<1>3. /\ 1 \in DOMAIN queue[a] /\ n = queue[a][1]
      /\ \A i \in DOMAIN queue'[a] : i + 1 \in DOMAIN queue[a] /\ queue'[a][i] = queue[a][i + 1]
  BY <1>1, HeadTail
<1>4. AllUnder(taken[a], n)
  BY <1>3 DEF OrderInv, AllBelow, AllUnder
<1>5. Increasing(taken'[a])
  BY <1>1, <1>2, <1>4, IncreasingAppend DEF OrderInv
<1>6. \A i \in DOMAIN taken'[a] :
        (i \in DOMAIN taken[a] /\ taken'[a][i] = taken[a][i]) \/ taken'[a][i] = n
  BY <1>1, <1>2, AppendElements
<1>7. AllBelow(taken'[a], queue'[a])
  BY <1>2, <1>3, <1>6 DEF OrderInv, AllBelow
<1>8. AllBelow(taken'[a], mainQueue) /\ AllBelow(queue'[a], mainQueue)
  BY <1>3, <1>6 DEF OrderInv, AllBelow
<1>9. MayComeTo(a) => AllUnder(taken'[a], inHand) /\ AllUnder(queue'[a], inHand)
  BY <1>3, <1>6 DEF OrderInv, AllUnder
<1>10. QED
  BY <1>1, <1>2, <1>5, <1>7, <1>8, <1>9 DEF OrderInv, MayComeTo

LEMMA OrderEmptied ==
  ASSUME OrderInv, TypeInv', NEW a \in Apps, CreateObject(a) \/ FreeObject(a)
  PROVE  OrderInv'
<1>1. /\ queue'[a] = <<>> /\ taken'[a] \in {taken[a], <<>>}
      /\ \A b \in Apps : b # a => queue'[b] = queue[b] /\ taken'[b] = taken[b]
      /\ UNCHANGED <<mainQueue, mainPc, inHand, todo>>
  <2>1. queue \in [Apps -> Seq(Nat)] /\ taken \in [Apps -> Seq(Nat)]
    BY DEF OrderInv, TypeInv, TypeOK
  <2>2. /\ queue' = [queue EXCEPT ![a] = <<>>]
        /\ taken' = [taken EXCEPT ![a] = <<>>] \/ taken' = taken
        /\ UNCHANGED <<mainQueue, mainPc, inHand, todo>>
    BY DEF CreateObject, FreeObject, mainVars, histVars
  <2>3. QED
    BY <2>1, <2>2
<1>2. QED
  BY <1>1 DEF OrderInv, MayComeTo, Increasing, AllBelow, AllUnder

LEMMA OrderNext == OrderInv /\ [Next]_vars => OrderInv'
<1> SUFFICES ASSUME OrderInv, [Next]_vars PROVE OrderInv'
  OBVIOUS
<1>0. TypeInv'
  BY TypeNext DEF OrderInv
<1>1. ASSUME NEW m \in Traffic, Send(m) PROVE OrderInv'
  BY <1>0, <1>1, OrderSend
<1>2. CASE MainReceive
  BY <1>0, <1>2, OrderReceive
<1>3. CASE MainLock
  BY <1>0, <1>3 DEF MainLock, OrderInv, MayComeTo, appVars, histVars
<1>4. CASE MainUnlock
  BY <1>0, <1>4 DEF MainUnlock, OrderInv, MayComeTo, appVars, histVars
<1>5. ASSUME NEW a \in Apps, MainDeliver(a) PROVE OrderInv'
  BY <1>0, <1>5, OrderDeliver
<1>6. ASSUME NEW a \in Apps, CreateObject(a) \/ FreeObject(a) PROVE OrderInv'
  BY <1>0, <1>6, OrderEmptied
<1>7. ASSUME NEW a \in Apps, TakeMessage(a) PROVE OrderInv'
  BY <1>0, <1>7, OrderTake
<1>8. ASSUME UNCHANGED <<mainQueue, mainPc, inHand, todo, queue, taken>> PROVE OrderInv'
  BY <1>0, <1>8 DEF OrderInv, MayComeTo
<1>9. ASSUME NEW a \in Apps,
             LinkObject(a) \/ (\E B \in SUBSET Bases : Subscribe(a, B))
               \/ FinishCallback(a) \/ UnlinkObject(a)
      PROVE  OrderInv'
  BY <1>8, <1>9 DEF LinkObject, Subscribe, FinishCallback, UnlinkObject, mainVars, histVars
<1>10. CASE UNCHANGED vars
  BY <1>8, <1>10 DEF vars, mainVars, appVars, histVars
<1>11. QED
  BY <1>1, <1>2, <1>3, <1>4, <1>5, <1>6, <1>7, <1>9, <1>10 DEF Next, MainStep, AppStep

\* Every service takes its messages in the order in which app_send_msg
\* accepted them and none of them twice, for any number of services.
THEOREM OneOrderForAll == Spec => []SameOrderForAll
<1>1. OrderInv => SameOrderForAll
  BY DEF OrderInv, Increasing, SameOrderForAll
<1>2. QED
  BY <1>1, OrderInit, OrderNext, PTL DEF Spec

-----------------------------------------------------------------------------
(* A message that is due to a linked service moves with its number; no     *)
(* step lets go of a number before it is at the next place.                *)

LEMMA NumbersOfAppend ==
  ASSUME NEW S, NEW s \in Seq(S), NEW e \in S
  PROVE  Numbers(Append(s, e)) = Numbers(s) \cup {e}
<1>1. /\ DOMAIN s = 1 .. Len(s) /\ DOMAIN Append(s, e) = 1 .. Len(s) + 1 /\ Len(s) \in Nat
      /\ Append(s, e)[Len(s) + 1] = e
      /\ \A i \in 1 .. Len(s) : Append(s, e)[i] = s[i]
  OBVIOUS
<1>2. ASSUME NEW i \in 1 .. Len(s) + 1 PROVE Append(s, e)[i] \in Numbers(s) \cup {e}
  <2>1. i = Len(s) + 1 \/ i \in 1 .. Len(s)
    BY <1>1
  <2>2. QED
    BY <1>1, <2>1 DEF Numbers
<1>3. ASSUME NEW i \in 1 .. Len(s) PROVE s[i] \in Numbers(Append(s, e))
  <2>1. i \in 1 .. Len(s) + 1
    BY <1>1
  <2>2. QED
    BY <1>1, <2>1 DEF Numbers
<1>4. e \in Numbers(Append(s, e))
  <2>1. Len(s) + 1 \in 1 .. Len(s) + 1
    BY <1>1
  <2>2. QED
    BY <1>1, <2>1 DEF Numbers
<1>5. QED
  BY <1>1, <1>2, <1>3, <1>4 DEF Numbers

LEMMA NumbersOfTail ==
  ASSUME NEW S, NEW s \in Seq(S), s # <<>>
  PROVE  Numbers(s) = {Head(s)} \cup Numbers(Tail(s))
<1>1. /\ DOMAIN s = 1 .. Len(s) /\ DOMAIN Tail(s) = 1 .. Len(s) - 1
      /\ Len(s) \in Nat /\ Len(s) > 0 /\ Head(s) = s[1]
      /\ \A i \in 1 .. Len(s) - 1 : Tail(s)[i] = s[i + 1]
  OBVIOUS
<1>2. ASSUME NEW i \in 1 .. Len(s) PROVE s[i] \in {Head(s)} \cup Numbers(Tail(s))
  <2>1. CASE i = 1
    BY <1>1, <2>1
  <2>2. CASE i # 1
    <3>1. i - 1 \in 1 .. Len(s) - 1 /\ Tail(s)[i - 1] = s[i]
      BY <1>1, <2>2
    <3>2. QED
      BY <1>1, <3>1 DEF Numbers
  <2>3. QED
    BY <2>1, <2>2
<1>3. ASSUME NEW i \in 1 .. Len(s) - 1 PROVE Tail(s)[i] \in Numbers(s)
  <2>1. i + 1 \in 1 .. Len(s)
    BY <1>1
  <2>2. QED
    BY <1>1, <2>1 DEF Numbers
<1>4. Head(s) \in Numbers(s)
  BY <1>1 DEF Numbers
<1>5. QED
  BY <1>1, <1>2, <1>3, <1>4 DEF Numbers

\* Where the message n is on its way to a.
OnItsWay(n, a) ==
  \/ n \in Numbers(queue[a])
  \/ n = inHand /\ (a \in todo \/ (mainPc = "popped" /\ Addressed(log[inHand], a)))
  \/ n \in Numbers(mainQueue) /\ Addressed(log[n], a)

Accounted(n, a) == OnItsWay(n, a) \/ n \in Numbers(taken[a]) \/ n \in lost[a]

Due(n, a) == n \in since[a] + 1 .. Len(log) /\ Addressed(log[n], a)

NoneLost == \A a \in appsList : \A n \in Nat : Due(n, a) => Accounted(n, a)

KeepInv == LinkInv /\ NoneLost

LEMMA NoneLostIsPromised == KeepInv => NothingVanishes
<1> SUFFICES ASSUME KeepInv, NEW a \in appsList, NEW n \in since[a] + 1 .. Len(log),
                    Addressed(log[n], a)
             PROVE  n \in Pending(a) \cup Numbers(taken[a]) \cup lost[a]
  BY DEF NothingVanishes
<1>1. n \in Nat
  BY DEF KeepInv, LinkInv, TypeInv, TypeOK
<1>2. Accounted(n, a)
  BY <1>1 DEF KeepInv, NoneLost, Due
<1>3. QED
  BY <1>2 DEF Accounted, OnItsWay, Pending

LEMMA KeepInit == Init => KeepInv
  BY LinkInit DEF Init, KeepInv, NoneLost

\* What neither sends nor links leaves the same messages due.
LEMMA SameDue ==
  ASSUME KeepInv, appsList' \subseteq appsList, UNCHANGED <<log, since>>,
         \A a \in appsList : \A n \in Nat : Due(n, a) /\ Accounted(n, a) => Accounted(n, a)'
  PROVE  NoneLost'
  BY DEF KeepInv, NoneLost, Due, Addressed

LEMMA KeepSend ==
  ASSUME KeepInv, NEW m \in Traffic, Send(m)
  PROVE  NoneLost'
<1> USE DEF KeepInv, LinkInv, TypeInv, TypeOK
<1>1. /\ Len(log') = Len(log) + 1 /\ Len(log) \in Nat /\ m \in Messages
      /\ \A i \in 1 .. Len(log) : log'[i] = log[i]
  BY TrafficAssumption DEF Send
<1>2. Numbers(mainQueue') = Numbers(mainQueue) \cup {Len(log) + 1}
  <2>1. Len(log) + 1 \in Nat /\ mainQueue \in Seq(Nat)
    BY <1>1
  <2>2. Numbers(Append(mainQueue, Len(log) + 1)) = Numbers(mainQueue) \cup {Len(log) + 1}
    BY ONLY <2>1, NumbersOfAppend
  <2>3. QED
    BY <2>2 DEF Send
<1>3. UNCHANGED <<appsList, since, queue, todo, inHand, mainPc, taken, lost>>
  BY DEF Send, appVars
<1>4. inHand \in 0 .. Len(log) /\ (mainPc = "popped" => inHand # 0)
  BY DEF OnlyLogged
<1> SUFFICES ASSUME NEW a \in appsList, NEW n \in Nat, Due(n, a)'
             PROVE  Accounted(n, a)'
  BY <1>3 DEF NoneLost
<1>5. CASE n = Len(log) + 1
  BY <1>1, <1>2, <1>5 DEF Due, Accounted, OnItsWay, Addressed
<1>6. CASE n # Len(log) + 1
  <2>1. n \in since[a] + 1 .. Len(log)
    BY <1>1, <1>3, <1>6 DEF Due
  <2>2. n \in 1 .. Len(log)
    BY <1>1, <2>1
  <2>3. log'[n] = log[n] /\ Due(n, a)
    BY <1>1, <2>1, <2>2 DEF Due, Addressed
  <2>4. Accounted(n, a)
    BY <2>3 DEF NoneLost
  <2>5. CASE n = inHand /\ (a \in todo \/ (mainPc = "popped" /\ Addressed(log[inHand], a)))
    <3>1. log'[inHand] = log[inHand]
      BY <2>3, <2>5
    <3>2. QED
      BY <1>3, <2>5, <3>1 DEF Accounted, OnItsWay, Addressed
  <2>6. QED
    BY <1>2, <1>3, <2>3, <2>4, <2>5 DEF Accounted, OnItsWay, Addressed
<1>7. QED
  BY <1>5, <1>6

\* The thread of main: from its queue to its hand to the receivers.
LEMMA KeepMain ==
  ASSUME KeepInv, MainStep
  PROVE  NoneLost'
<1> USE DEF KeepInv, LinkInv, TypeInv, TypeOK
<1>1. CASE MainReceive
  <2>1. /\ UNCHANGED <<appsList, todo, queue, taken, lost, log, since>>
        /\ inHand' = Head(mainQueue) /\ mainPc' = "popped" /\ todo = {} /\ mainPc = "recv"
    BY <1>1 DEF MainReceive, appVars, histVars
  <2>2. Numbers(mainQueue) = {Head(mainQueue)} \cup Numbers(mainQueue')
    BY <1>1, NumbersOfTail DEF MainReceive
  <2>3. ASSUME NEW a \in appsList, NEW n \in Nat, Due(n, a), Accounted(n, a)
        PROVE  Accounted(n, a)'
    BY <2>1, <2>2, <2>3 DEF Accounted, OnItsWay, Addressed, Due
  <2>4. QED
    BY <2>1, <2>3, SameDue
<1>2. CASE MainLock
  <2>1. /\ UNCHANGED <<appsList, mainQueue, inHand, queue, taken, lost, log, since>>
        /\ todo' = {a \in appsList : Addressed(log[inHand], a)} /\ mainPc = "popped" /\ todo = {}
    BY <1>2 DEF MainLock, appVars, histVars
  <2>2. ASSUME NEW a \in appsList, NEW n \in Nat, Due(n, a), Accounted(n, a)
        PROVE  Accounted(n, a)'
    BY <2>1, <2>2 DEF Accounted, OnItsWay, Addressed
  <2>3. QED
    BY <2>1, <2>2, SameDue
<1>3. CASE MainUnlock
  <2>1. /\ UNCHANGED <<appsList, mainQueue, todo, queue, taken, lost, log, since>>
        /\ mainPc = "locked" /\ todo = {}
    BY <1>3 DEF MainUnlock, appVars, histVars
  <2>2. ASSUME NEW a \in appsList, NEW n \in Nat, Due(n, a), Accounted(n, a)
        PROVE  Accounted(n, a)'
    BY <2>1, <2>2 DEF Accounted, OnItsWay, Addressed
  <2>3. QED
    BY <2>1, <2>2, SameDue
<1>4. ASSUME NEW b \in Apps, MainDeliver(b) PROVE NoneLost'
  <2>1. /\ UNCHANGED <<appsList, mainQueue, mainPc, inHand, taken, log, since>>
        /\ mainPc = "locked" /\ b \in todo /\ todo' = todo \ {b}
    BY <1>4 DEF MainDeliver
  <2>2. \/ queue' = [queue EXCEPT ![b] = Append(@, inHand)] /\ lost' = lost
        \/ lost' = [lost EXCEPT ![b] = @ \cup {inHand}] /\ queue' = queue
    BY <1>4 DEF MainDeliver
  <2>3. Numbers(Append(queue[b], inHand)) = Numbers(queue[b]) \cup {inHand}
    <3>1. queue[b] \in Seq(Nat) /\ inHand \in Nat
      OBVIOUS
    <3>2. QED
      BY ONLY <3>1, NumbersOfAppend
  <2>4. ASSUME NEW a \in appsList, NEW n \in Nat, Due(n, a), Accounted(n, a)
        PROVE  Accounted(n, a)'
    <3>1. a \in Apps
      OBVIOUS
    <3>2. \/ queue'[a] = queue[a] /\ lost[a] \subseteq lost'[a] /\ (a = b => inHand \in lost'[a])
          \/ a = b /\ queue'[a] = Append(queue[b], inHand) /\ lost'[a] = lost[a]
          \/ a # b /\ queue'[a] = queue[a] /\ lost'[a] = lost[a]
      BY <2>2, <3>1
    <3>3. /\ Numbers(queue[a]) \subseteq Numbers(queue'[a]) /\ lost[a] \subseteq lost'[a]
          /\ a = b => inHand \in Numbers(queue'[a]) \/ inHand \in lost'[a]
      BY ONLY <2>3, <3>2
    <3>4. QED
      BY <2>1, <2>4, <3>3 DEF Accounted, OnItsWay, Addressed
  <2>5. QED
    BY <2>1, <2>4, SameDue
<1>5. QED
  BY <1>1, <1>2, <1>3, <1>4 DEF MainStep

\* The thread of a service; its queue is emptied only while it is not linked.
LEMMA KeepApp ==
  ASSUME KeepInv, NEW b \in Apps, AppStep(b)
  PROVE  NoneLost'
<1> USE DEF KeepInv, LinkInv, TypeInv, TypeOK, mainVars, histVars
<1>1. CASE CreateObject(b)
  <2>1. /\ UNCHANGED <<mainVars, log, since>> /\ b \notin appsList
        /\ \A a \in Apps \ {b} : queue'[a] = queue[a] /\ taken'[a] = taken[a] /\ lost'[a] = lost[a]
    BY <1>1 DEF CreateObject
  <2>2. ASSUME NEW a \in appsList, NEW n \in Nat, Due(n, a), Accounted(n, a)
        PROVE  Accounted(n, a)'
    BY <2>1, <2>2 DEF Accounted, OnItsWay, Addressed
  <2>3. QED
    BY <2>1, <2>2, SameDue
<1>2. CASE LinkObject(b)
  <2>1. /\ UNCHANGED <<mainQueue, mainPc, inHand, todo, queue, taken, lost, log>>
        /\ appsList' = appsList \cup {b} /\ since' = [since EXCEPT ![b] = Len(log)]
    BY <1>2 DEF LinkObject
  <2>2. ASSUME NEW a \in appsList', NEW n \in Nat, Due(n, a)'
        PROVE  Accounted(n, a)'
    <3>1. CASE a = b
      BY <2>1, <2>2, <3>1 DEF Due
    <3>2. CASE a # b
      <4>1. Due(n, a)
        BY <2>1, <2>2, <3>2 DEF Due, Addressed
      <4>2. Accounted(n, a)
        BY <2>1, <3>2, <4>1 DEF NoneLost
      <4>3. QED
        BY <2>1, <4>2 DEF Accounted, OnItsWay, Addressed
    <3>3. QED
      BY <3>1, <3>2
  <2>3. QED
    BY <2>2 DEF NoneLost
<1>3. CASE TakeMessage(b)
  <2>1. /\ UNCHANGED <<mainVars, log, since, lost>>
        /\ queue[b] # <<>>
        /\ queue' = [queue EXCEPT ![b] = Tail(@)]
        /\ taken' = [taken EXCEPT ![b] = Append(@, Head(queue[b]))]
    BY <1>3 DEF TakeMessage
  <2>2. Head(queue[b]) \in Nat /\ Numbers(queue[b]) = {Head(queue[b])} \cup Numbers(queue'[b])
    <3>1. queue[b] \in Seq(Nat)
      OBVIOUS
    <3>2. QED
      BY <2>1, <3>1, NumbersOfTail, HeadTail
  <2>3. Numbers(taken'[b]) = Numbers(taken[b]) \cup {Head(queue[b])}
    BY <2>1, <2>2, NumbersOfAppend
  <2>4. ASSUME NEW a \in appsList, NEW n \in Nat, Due(n, a), Accounted(n, a)
        PROVE  Accounted(n, a)'
    <3>1. Numbers(queue[a]) \cup Numbers(taken[a]) \subseteq Numbers(queue'[a]) \cup Numbers(taken'[a])
      BY <2>1, <2>2, <2>3
    <3>2. QED
      BY <2>1, <2>4, <3>1 DEF Accounted, OnItsWay, Addressed
  <2>5. QED
    BY <2>1, <2>4, SameDue
<1>4. CASE UnlinkObject(b)
  <2>1. /\ UNCHANGED <<mainQueue, mainPc, inHand, todo, queue, taken, lost, log, since>>
        /\ appsList' \subseteq appsList
    BY <1>4 DEF UnlinkObject
  <2>2. ASSUME NEW a \in appsList, NEW n \in Nat, Due(n, a), Accounted(n, a)
        PROVE  Accounted(n, a)'
    BY <2>1, <2>2 DEF Accounted, OnItsWay, Addressed
  <2>3. QED
    BY <2>1, <2>2, SameDue
<1>5. CASE FreeObject(b)
  <2>1. /\ UNCHANGED <<mainVars, taken, lost, log, since>> /\ b \notin appsList
        /\ \A a \in Apps \ {b} : queue'[a] = queue[a]
    BY <1>5 DEF FreeObject
  <2>2. ASSUME NEW a \in appsList, NEW n \in Nat, Due(n, a), Accounted(n, a)
        PROVE  Accounted(n, a)'
    BY <2>1, <2>2 DEF Accounted, OnItsWay, Addressed
  <2>3. QED
    BY <2>1, <2>2, SameDue
<1>6. CASE FinishCallback(b) \/ \E B \in SUBSET Bases : Subscribe(b, B)
  <2>1. UNCHANGED <<mainVars, queue, taken, lost, log, since>>
    BY <1>6 DEF FinishCallback, Subscribe
  <2>2. ASSUME NEW a \in appsList, NEW n \in Nat, Due(n, a), Accounted(n, a)
        PROVE  Accounted(n, a)'
    BY <2>1, <2>2 DEF Accounted, OnItsWay, Addressed
  <2>3. QED
    BY <2>1, <2>2, SameDue
<1>7. QED
  BY <1>1, <1>2, <1>3, <1>4, <1>5, <1>6 DEF AppStep

LEMMA KeepNext == KeepInv /\ [Next]_vars => KeepInv'
<1> SUFFICES ASSUME KeepInv, [Next]_vars PROVE KeepInv'
  OBVIOUS
<1>1. LinkInv'
  BY LinkNext DEF KeepInv
<1>2. ASSUME NEW m \in Traffic, Send(m) PROVE NoneLost'
  BY <1>2, KeepSend
<1>3. ASSUME MainStep PROVE NoneLost'
  BY <1>3, KeepMain
<1>4. ASSUME NEW a \in Apps, AppStep(a) PROVE NoneLost'
  BY <1>4, KeepApp
<1>5. ASSUME UNCHANGED vars PROVE NoneLost'
  BY <1>5 DEF vars, mainVars, appVars, histVars, KeepInv, NoneLost, Due, Accounted, OnItsWay, Addressed
<1>6. QED
  BY <1>1, <1>2, <1>3, <1>4, <1>5 DEF Next, KeepInv

\* A message that app_send_msg accepted for a linked service is on its way, was
\* taken, or fell to a failed malloc: for any number of services and messages,
\* it does not vanish between main's queue and the service's.
THEOREM NoMessageVanishes == Spec => []NothingVanishes
<1>1. QED
  BY NoneLostIsPromised, KeepInit, KeepNext, PTL DEF Spec

(***************************************************************************)
(* The message bus implements BusPromise, for any number of services,      *)
(* messages and restarts: each step of the bus is a step of the promise or *)
(* changes nothing that the promise speaks of.                             *)
(***************************************************************************)
\* What the steps rely on beside the order of messages: what is on its way is
\* numbered below the bound, and a service that is not started has no queue.
PromiseInv ==
  /\ OrderInv /\ LinkInv
  /\ Len(log) <= MaxSends
  /\ \A a \in Apps : task[a] = "none" => queue[a] = <<>>

LEMMA PromiseInvInit == Init => PromiseInv
  BY OrderInit, LinkInit, BoundsAssumption DEF Init, PromiseInv

LEMMA PromiseInvNext == PromiseInv /\ [Next]_vars => PromiseInv'
<1> SUFFICES ASSUME PromiseInv, [Next]_vars PROVE PromiseInv'
  OBVIOUS
<1>0. OrderInv' /\ LinkInv' /\ LinkInv /\ TypeOK /\ TypeOK'
  BY OrderNext, LinkNext DEF PromiseInv, LinkInv, TypeInv
<1> DEFINE Rest == /\ Len(log) <= MaxSends
                   /\ \A a \in Apps : task[a] = "none" => queue[a] = <<>>
<1> SUFFICES Rest'
  BY <1>0 DEF PromiseInv
<1>0a. Rest
  BY DEF PromiseInv
<1> HIDE DEF Rest
<1>1. ASSUME NEW m \in Traffic, Send(m) PROVE Rest'
  <2>1. Len(log') = Len(log) + 1 /\ Len(log) < MaxSends /\ Len(log) \in Nat
    BY <1>0, <1>1, TrafficAssumption DEF Send, TypeOK
  <2>2. UNCHANGED <<task, queue>>
    BY <1>1 DEF Send, appVars
  <2>3. QED
    BY <1>0a, <2>1, <2>2, BoundsAssumption DEF Rest
<1>2. ASSUME MainReceive \/ MainLock \/ MainUnlock \/ UNCHANGED vars PROVE Rest'
  <2>1. UNCHANGED <<log, task, queue>>
    BY <1>2 DEF MainReceive, MainLock, MainUnlock, vars, appVars, histVars
  <2>2. QED
    BY <1>0a, <2>1 DEF Rest
<1>3. ASSUME NEW a \in Apps, MainDeliver(a) PROVE Rest'
  <2>1. UNCHANGED <<log, task>> /\ task[a] # "none"
    BY <1>0, <1>3 DEF MainDeliver, LinkInv, TypeInv, TypeOK
  <2>2. \A b \in Apps : b # a => queue'[b] = queue[b]
    BY <1>0, <1>3 DEF MainDeliver, TypeOK
  <2>3. QED
    BY <1>0a, <2>1, <2>2 DEF Rest
<1>4. ASSUME NEW a \in Apps, CreateObject(a) \/ FreeObject(a) PROVE Rest'
  <2>1. log' = log /\ queue'[a] = <<>>
    BY <1>0, <1>4 DEF CreateObject, FreeObject, histVars, TypeOK
  <2>2. \A b \in Apps : b # a => queue'[b] = queue[b] /\ task'[b] = task[b]
    BY <1>0, <1>4 DEF CreateObject, FreeObject, TypeOK
  <2>3. QED
    BY <1>0a, <2>1, <2>2 DEF Rest
<1>5. ASSUME NEW a \in Apps,
             LinkObject(a) \/ (\E B \in SUBSET Bases : Subscribe(a, B))
               \/ FinishCallback(a) \/ UnlinkObject(a)
      PROVE  Rest'
  <2>1. UNCHANGED <<log, queue>> /\ task'[a] # "none"
    BY <1>0, <1>5 DEF LinkObject, Subscribe, FinishCallback, UnlinkObject, histVars, TypeOK
  <2>2. \A b \in Apps : b # a => task'[b] = task[b]
    BY <1>0, <1>5 DEF LinkObject, Subscribe, FinishCallback, UnlinkObject, TypeOK
  <2>3. QED
    BY <1>0a, <2>1, <2>2 DEF Rest
<1>6. ASSUME NEW a \in Apps, TakeMessage(a) PROVE Rest'
  <2>1. log' = log /\ task[a] = "loop"
        /\ (task' = [task EXCEPT ![a] = "callback"] \/ task' = task)
        /\ queue' = [queue EXCEPT ![a] = Tail(@)]
    BY <1>6 DEF TakeMessage
  <2>2. task'[a] # "none" /\ \A b \in Apps : b # a => queue'[b] = queue[b] /\ task'[b] = task[b]
    BY <1>0, <2>1 DEF TypeOK
  <2>3. QED
    BY <1>0a, <2>1, <2>2 DEF Rest
<1>7. QED
  BY <1>1, <1>2, <1>3, <1>4, <1>5, <1>6 DEF Next, MainStep, AppStep

-----------------------------------------------------------------------------
(* The steps of the promise, in terms of what is on its way. *)

\* What is on its way was accepted, and so is numbered below the bound.
LEMMA PendingIsAccepted ==
  ASSUME PromiseInv, NEW a \in Apps
  PROVE  Pending(a) \subseteq 1 .. MaxSends
<1>1. Len(log) \in Nat /\ Len(log) <= MaxSends /\ MaxSends \in Nat
  BY BoundsAssumption DEF PromiseInv, OrderInv, TypeInv, TypeOK
<1>2. Numbers(queue[a]) \subseteq 1 .. Len(log) /\ Numbers(mainQueue) \subseteq 1 .. Len(log)
  <2>1. queue[a] \in Seq(1 .. Len(log)) /\ mainQueue \in Seq(1 .. Len(log))
    BY DEF PromiseInv, OrderInv, TypeInv, OnlyLogged
  <2>2. QED
    BY <2>1 DEF Numbers
<1>3. (a \in todo \/ mainPc = "popped") => inHand \in 1 .. Len(log)
  BY <1>1 DEF PromiseInv, OrderInv, TypeInv, TypeOK, OnlyLogged
<1>4. QED
  BY <1>1, <1>2, <1>3 DEF Pending

\* A step that only takes messages off their way lets them miss their receivers.
LEMMA FewerPendingIsMiss ==
  ASSUME PromiseInv, UNCHANGED <<Len(log), taken>>,
         \A a \in Apps : Pending(a)' \subseteq Pending(a)
  PROVE  Promise!Next
<1> DEFINE M == [a \in Apps |-> Pending(a) \ Pending(a)']
<1>1. M \in [Apps -> SUBSET (1 .. MaxSends)]
  BY PendingIsAccepted
<1>2. [a \in Apps |-> Pending(a)'] = [a \in Apps |-> [b \in Apps |-> Pending(b)][a] \ M[a]]
  OBVIOUS
<1>3. Promise!Miss
  BY <1>1, <1>2 DEF Promise!Miss
<1>4. QED
  BY <1>3 DEF Promise!Next

\* app_send_message publishes: the new number is on its way to whom the
\* message is addressed to, and nothing else moves.
LEMMA SendPublishes ==
  ASSUME PromiseInv, NEW m \in Traffic, Send(m)
  PROVE  Promise!Next
<1> DEFINE n == Len(log) + 1
           R == {a \in Apps : Addressed(m, a)}
<1>1. /\ Len(log') = n /\ Len(log) \in Nat /\ log'[n] = m
      /\ \A i \in 1 .. Len(log) : log'[i] = log[i]
  BY TrafficAssumption DEF Send, PromiseInv, OrderInv, TypeInv, TypeOK
<1>2. Numbers(mainQueue') = Numbers(mainQueue) \cup {n}
  <2>1. n \in Nat /\ mainQueue \in Seq(Nat)
    BY <1>1 DEF PromiseInv, OrderInv, TypeInv, TypeOK
  <2>2. Numbers(Append(mainQueue, n)) = Numbers(mainQueue) \cup {n}
    BY ONLY <2>1, NumbersOfAppend
  <2>3. QED
    BY <2>2 DEF Send
<1>3. UNCHANGED <<queue, todo, inHand, mainPc, taken>>
  BY DEF Send, appVars
<1>4. \A k \in Numbers(mainQueue) : k \in 1 .. Len(log)
  <2>1. mainQueue \in Seq(1 .. Len(log))
    BY DEF PromiseInv, OrderInv, TypeInv, OnlyLogged
  <2>2. QED
    BY <2>1 DEF Numbers
<1>5. mainPc = "popped" => inHand \in 1 .. Len(log)
  BY <1>1 DEF PromiseInv, OrderInv, TypeInv, TypeOK, OnlyLogged
<1>6. ASSUME NEW a \in Apps
      PROVE  Pending(a)' = IF a \in R THEN Pending(a) \cup {n} ELSE Pending(a)
  <2>1. {k \in Numbers(mainQueue') : Addressed(log'[k], a)}
          = {k \in Numbers(mainQueue) : Addressed(log[k], a)}
              \cup (IF a \in R THEN {n} ELSE {})
    BY <1>1, <1>2, <1>4 DEF Addressed
  <2>2. (mainPc' = "popped" /\ Addressed(log'[inHand'], a))
          <=> (mainPc = "popped" /\ Addressed(log[inHand], a))
    BY <1>1, <1>3, <1>5 DEF Addressed
  <2>3. QED
    BY <1>3, <2>1, <2>2 DEF Pending
<1>7. Len(log) < MaxSends
  BY DEF Send
<1>8. [a \in Apps |-> Pending(a)']
        = [a \in Apps |-> IF a \in R THEN [b \in Apps |-> Pending(b)][a] \cup {n}
                                     ELSE [b \in Apps |-> Pending(b)][a]]
  BY <1>6
<1>9. Promise!Publish
  <2>1. R \in SUBSET Apps
    OBVIOUS
  <2>2. QED
    BY <1>1, <1>3, <1>7, <1>8, <2>1 DEF Promise!Publish
<1>10. QED
  BY <1>9 DEF Promise!Next

\* The first message on the queue of a service is older than all else that is
\* on its way to it.
LEMMA HeadIsFirstPending ==
  ASSUME PromiseInv, NEW a \in Apps, TakeMessage(a)
  PROVE  /\ Head(queue[a]) \in Pending(a)
         /\ \A k \in Pending(a) : Head(queue[a]) <= k
         /\ Pending(a)' = Pending(a) \ {Head(queue[a])}
<1> DEFINE n == Head(queue[a])
<1>1. queue[a] \in Seq(Nat) /\ queue[a] # <<>> /\ mainQueue \in Seq(Nat) /\ inHand \in Nat
  BY DEF TakeMessage, PromiseInv, OrderInv, TypeInv, TypeOK
<1>2. Numbers(queue[a]) = {n} \cup Numbers(Tail(queue[a]))
  BY ONLY <1>1, NumbersOfTail
<1>3. /\ UNCHANGED <<mainVars, log>> /\ queue'[a] = Tail(queue[a])
  BY DEF TakeMessage, PromiseInv, OrderInv, TypeInv, TypeOK
<1>4. n \in Nat /\ \A k \in Numbers(queue'[a]) : n < k /\ k \in Nat
  <2>1. n \in Nat /\ \A j \in DOMAIN Tail(queue[a]) : n < Tail(queue[a])[j]
    BY <1>1, IncreasingTail DEF PromiseInv, OrderInv
  <2>2. Tail(queue[a]) \in Seq(Nat)
    BY <1>1
  <2>3. QED
    BY <1>3, <2>1, <2>2 DEF Numbers
<1>5. 1 \in DOMAIN queue[a] /\ n = queue[a][1]
  BY <1>1, HeadTail
<1>6. \A k \in Numbers(mainQueue) : n < k /\ k \in Nat
  BY <1>1, <1>5 DEF PromiseInv, OrderInv, AllBelow, Numbers
<1>7. (a \in todo \/ mainPc = "popped") => n < inHand
  BY <1>1, <1>5 DEF PromiseInv, OrderInv, AllUnder, MayComeTo
<1> DEFINE Others == (IF a \in todo \/ (mainPc = "popped" /\ Addressed(log[inHand], a))
                        THEN {inHand} ELSE {})
                       \cup {k \in Numbers(mainQueue) : Addressed(log[k], a)}
<1>8. Pending(a) = {n} \cup Numbers(queue'[a]) \cup Others
  BY <1>2, <1>3 DEF Pending
<1>9. Pending(a)' = Numbers(queue'[a]) \cup Others
  BY <1>3 DEF Pending, mainVars
<1>10. \A k \in Numbers(queue'[a]) \cup Others : n < k /\ k \in Nat
  BY <1>1, <1>4, <1>6, <1>7
<1> HIDE DEF n, Others
<1>11. \A k \in Numbers(queue'[a]) \cup Others : n < k /\ k \in Nat /\ k # n
  BY <1>4, <1>10
<1>12. QED
  BY <1>4, <1>8, <1>9, <1>11 DEF n

LEMMA TakeTakes ==
  ASSUME PromiseInv, NEW a \in Apps, TakeMessage(a)
  PROVE  Promise!Next
<1> DEFINE n == Head(queue[a])
<1>1. /\ n \in Pending(a) /\ \A k \in Pending(a) : n <= k
      /\ Pending(a)' = Pending(a) \ {n}
  BY HeadIsFirstPending
<1>2. /\ UNCHANGED <<mainVars, log>>
      /\ \A b \in Apps : b # a => queue'[b] = queue[b]
      /\ taken' = [taken EXCEPT ![a] = Append(@, n)]
  BY DEF TakeMessage, PromiseInv, OrderInv, TypeInv, TypeOK
<1>3. \A b \in Apps : b # a => Pending(b)' = Pending(b)
  BY <1>2 DEF Pending, mainVars
<1>4. [b \in Apps |-> Pending(b)'] = [[b \in Apps |-> Pending(b)] EXCEPT ![a] = @ \ {n}]
  BY <1>1, <1>3
<1>5. Promise!Take(a)
  <2>1. n \in [b \in Apps |-> Pending(b)][a] /\ \A k \in [b \in Apps |-> Pending(b)][a] : n <= k
    BY <1>1
  <2>2. QED
    BY <1>2, <1>4, <2>1 DEF Promise!Take
<1>6. QED
  BY <1>5 DEF Promise!Next

LEMMA CreateRestarts ==
  ASSUME PromiseInv, NEW a \in Apps, CreateObject(a)
  PROVE  Promise!Next
<1>1. UNCHANGED <<mainVars, log>> /\ queue' = queue
  BY DEF CreateObject, PromiseInv, OrderInv, TypeInv, TypeOK
<1>2. \A b \in Apps : Pending(b)' = Pending(b)
  BY <1>1 DEF Pending, mainVars
<1>3. [b \in Apps |-> Pending(b)'] = [b \in Apps |-> Pending(b)]
  BY <1>2
<1>4. taken' = [taken EXCEPT ![a] = <<>>]
  BY DEF CreateObject
<1>5. Promise!Restart(a)
  BY <1>1, <1>3, <1>4 DEF Promise!Restart
<1>6. QED
  BY <1>5 DEF Promise!Next

\* The steps of main's thread move a message nearer to its receivers, or off its
\* way where a receiver is not linked any more or malloc failed.
LEMMA MainMisses ==
  ASSUME PromiseInv, MainStep
  PROVE  Promise!Next
<1> USE DEF PromiseInv, OrderInv, TypeInv, TypeOK
<1>1. CASE MainReceive
  <2>1. /\ UNCHANGED <<todo, queue, taken, log>>
        /\ inHand' = Head(mainQueue) /\ todo = {}
        /\ mainQueue # <<>> /\ mainQueue \in Seq(Nat)
    BY <1>1 DEF MainReceive, appVars, histVars
  <2>2. Numbers(mainQueue) = {Head(mainQueue)} \cup Numbers(mainQueue')
    BY <1>1, <2>1, NumbersOfTail DEF MainReceive
  <2>3. \A a \in Apps : Pending(a)' \subseteq Pending(a)
    BY <2>1, <2>2 DEF Pending, Addressed
  <2>4. QED
    BY <2>1, <2>3, FewerPendingIsMiss
<1>2. CASE MainLock \/ MainUnlock
  <2>1. /\ UNCHANGED <<mainQueue, queue, taken, log>>
        /\ mainPc' # "popped"
        /\ \A a \in Apps : a \in todo' =>
             inHand' = inHand /\ mainPc = "popped" /\ Addressed(log[inHand], a)
    BY <1>2 DEF MainLock, MainUnlock, appVars, histVars
  <2>2. \A a \in Apps : Pending(a)' \subseteq Pending(a)
    BY <2>1 DEF Pending, Addressed
  <2>3. QED
    BY <2>1, <2>2, FewerPendingIsMiss
<1>3. ASSUME NEW b \in Apps, MainDeliver(b) PROVE Promise!Next
  <2>1. /\ UNCHANGED <<mainQueue, mainPc, inHand, taken, log>>
        /\ mainPc = "locked" /\ b \in todo /\ todo' = todo \ {b}
        /\ (queue' = [queue EXCEPT ![b] = Append(@, inHand)] \/ queue' = queue)
    BY <1>3 DEF MainDeliver
  <2>2. Numbers(Append(queue[b], inHand)) = Numbers(queue[b]) \cup {inHand}
    <3>1. queue[b] \in Seq(Nat) /\ inHand \in Nat
      OBVIOUS
    <3>2. QED
      BY ONLY <3>1, NumbersOfAppend
  <2>3. ASSUME NEW a \in Apps PROVE Numbers(queue'[a]) \subseteq
                                      Numbers(queue[a]) \cup (IF a \in todo THEN {inHand} ELSE {})
    BY <2>1, <2>2
  <2>4. \A a \in Apps : Pending(a)' \subseteq Pending(a)
    BY <2>1, <2>3 DEF Pending, Addressed
  <2>5. QED
    BY <2>1, <2>4, FewerPendingIsMiss
<1>4. QED
  BY <1>1, <1>2, <1>3 DEF MainStep

\* The other steps of a service leave what is on its way as it is, or empty the
\* queue of an object that is freed.
LEMMA AppMisses ==
  ASSUME PromiseInv, NEW b \in Apps,
         LinkObject(b) \/ (\E B \in SUBSET Bases : Subscribe(b, B))
           \/ FinishCallback(b) \/ UnlinkObject(b) \/ FreeObject(b)
  PROVE  Promise!Next
<1>1. /\ UNCHANGED <<mainQueue, mainPc, inHand, todo, log, taken>>
      /\ queue' = queue \/ queue' = [queue EXCEPT ![b] = <<>>]
  BY DEF LinkObject, Subscribe, FinishCallback, UnlinkObject, FreeObject, mainVars, histVars
<1>2. ASSUME NEW a \in Apps PROVE Numbers(queue'[a]) \subseteq Numbers(queue[a])
  <2>1. queue'[a] = queue[a] \/ queue'[a] = <<>>
    BY <1>1 DEF PromiseInv, OrderInv, TypeInv, TypeOK
  <2>2. QED
    BY <2>1 DEF Numbers
<1>3. \A a \in Apps : Pending(a)' \subseteq Pending(a)
  BY <1>1, <1>2 DEF Pending, Addressed
<1>4. QED
  BY <1>1, <1>3, FewerPendingIsMiss

\* app_send_msg, main's thread and the threads of the services together do to
\* the apps what BusPromise allows: each app takes what is on its way to it in
\* the order of acceptance, nothing is on its way to it twice, and nothing that
\* was not accepted ever is.  This holds for any number of services, messages
\* and restarts, with and without failures of malloc.
THEOREM BusKeepsPromise == Spec => KeepsPromise
<1>1. Init => Promise!Init
  BY DEF Init, Promise!Init, Pending, Numbers
<1>2. PromiseInv /\ [Next]_vars => [Promise!Next]_(Promise!vars)
  <2> SUFFICES ASSUME PromiseInv, [Next]_vars PROVE [Promise!Next]_(Promise!vars)
    OBVIOUS
  <2>1. ASSUME NEW m \in Traffic, Send(m) PROVE Promise!Next
    BY <2>1, SendPublishes
  <2>2. ASSUME MainStep PROVE Promise!Next
    BY <2>2, MainMisses
  <2>3. ASSUME NEW a \in Apps, AppStep(a) PROVE Promise!Next
    BY <2>3, CreateRestarts, TakeTakes, AppMisses DEF AppStep
  <2>4. CASE UNCHANGED vars
    <3>1. UNCHANGED <<mainVars, queue, log, taken>>
      BY <2>4 DEF vars, appVars, histVars
    <3>2. \A a \in Apps : Pending(a)' \subseteq Pending(a)
      BY <3>1 DEF Pending, Addressed, mainVars
    <3>3. QED
      BY <3>1, <3>2, FewerPendingIsMiss
  <2>5. QED
    BY <2>1, <2>2, <2>3, <2>4 DEF Next
<1>3. QED
  BY <1>1, <1>2, PromiseInvInit, PromiseInvNext, PTL DEF Spec, KeepsPromise, Promise!Spec
=============================================================================
