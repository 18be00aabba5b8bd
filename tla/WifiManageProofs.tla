--------------------------- MODULE WifiManageProofs ---------------------------
(***************************************************************************)
(* Proofs about the wifi service, for any networks and any number of       *)
(* places in flash: type correctness, what STA_CONNECTED means, what flash *)
(* keeps, and that a search tries every network in it.                     *)
(***************************************************************************)
EXTENDS WifiManage, WellFoundedInduction, TLAPS

\* A set of numbers has a least one, which Min finds.
LEMMA MinIsLeast ==
  ASSUME NEW S \in SUBSET Nat, S # {}
  PROVE  Min(S) \in S /\ \A x \in S : Min(S) <= x
<1> DEFINE R == {ss \in Nat \X Nat : ss[1] < ss[2]}
<1>1. OpToRel(<, Nat) = R
  BY Zenon DEF OpToRel
<1>2. IsWellFoundedOn(R, Nat)
  BY <1>1, NatLessThanWellFounded, Zenon
<1>3. \E x \in S : \A y \in S : <<y, x>> \notin R
  <2> HIDE DEF R
  <2>1. QED
    BY <1>2, WFMin
<1>4. ASSUME NEW i \in Nat, NEW j \in Nat, j < i PROVE <<j, i>> \in R
  <2>1. <<j, i>> \in Nat \X Nat /\ <<j, i>>[1] < <<j, i>>[2]
    BY <1>4
  <2>2. QED
    BY <2>1
<1>5. \E x \in S : \A y \in S : x <= y
  <2>1. PICK x \in S : \A y \in S : <<y, x>> \notin R
    BY <1>3
  <2>2. ASSUME NEW y \in S PROVE x <= y
    <3>1. <<y, x>> \notin R
      BY <2>1
    <3>2. x \in Nat /\ y \in Nat
      OBVIOUS
    <3>3. ~(y < x)
      BY <1>4, <3>1, <3>2
    <3>4. QED
      BY <3>2, <3>3
  <2>3. QED
    BY <2>2
<1>6. QED
  BY <1>5 DEF Min

LEMMA Sizes == MAX_WIFI_NUM \in Nat /\ MAX_WIFI_NUM >= 2 /\ QueueSize \in Nat /\ QueueSize > 0
  BY PlacesAssumption, QueueAssumption

\* One turn round the places.
LEMMA Wraps ==
  ASSUME NEW x \in Nat, NEW n \in Nat, n > 0, x < 2 * n
  PROVE  x % n = IF x < n THEN x ELSE x - n
<1>1. CASE x < n
  BY <1>1
<1>2. CASE x >= n
  <2>1. x % n = (x - n) % n
    BY <1>2
  <2>2. QED
    BY <1>2, <2>1
<1>3. QED
  BY <1>1, <1>2

(***************************************************************************)
(* The networks in flash.                                                  *)
(***************************************************************************)
FlashOK ==
  /\ wifi_info \in [Places -> Nets \cup {None}]
  /\ storage_index \in Places /\ saved_index \in Places

SearchOK ==
  /\ curr \in Nets \cup {None} /\ tried \subseteq Nets
  /\ connect_index \in Places \cup {-1} /\ connect_count \in 0 .. MAX_WIFI_NUM

\* A network is found again where it was stored, and stored once.
LEMMA StoredIsFound ==
  ASSUME FlashOK, NEW net \in Nets \cup {None}, SaveWifiInfo(net)
  PROVE  /\ FlashOK' /\ wifi_info'[saved_index'] = net
         /\ \A p \in Places : wifi_info'[p] \in {wifi_info[p], net}
         /\ StoredOnce => StoredOnce'
<1> USE Sizes
<1>1. Stored(net) \in SUBSET Nat /\ \A p \in Stored(net) : p \in Places /\ wifi_info[p] = net
  BY DEF Stored, Places
<1>2. CASE Stored(net) # {}
  <2>1. saved_index' \in Stored(net) /\ UNCHANGED <<wifi_info, storage_index>>
    BY <1>1, <1>2, MinIsLeast DEF SaveWifiInfo
  <2>2. QED
    BY <1>1, <2>1 DEF FlashOK, StoredOnce
<1>3. CASE Stored(net) = {}
  <2>1. /\ wifi_info' = [wifi_info EXCEPT ![NextPlace] = net]
        /\ storage_index' = NextPlace /\ saved_index' = NextPlace
    BY <1>3 DEF SaveWifiInfo
  <2>2. NextPlace \in Places /\ NextPlace # 0
    BY DEF FlashOK, NextPlace, Places
  <2>3. /\ FlashOK' /\ wifi_info'[NextPlace] = net
        /\ \A p \in Places : p # NextPlace => wifi_info'[p] = wifi_info[p]
    BY <2>1, <2>2 DEF FlashOK
  <2>4. \A p \in Places \ {0} : wifi_info[p] # net
    BY <1>3 DEF Stored
  <2>5. StoredOnce => StoredOnce'
    BY <2>3, <2>4 DEF StoredOnce
  <2>6. QED
    BY <2>1, <2>3, <2>5
<1>4. QED
  BY <1>2, <1>3

(***************************************************************************)
(* The search.  Dist(p, c) places before c lies p, going back from c and   *)
(* round: those nearer than connect_count to connect_index were looked at. *)
(***************************************************************************)
Dist(p, c) == IF p <= c THEN c - p ELSE c - p + MAX_WIFI_NUM

Searched ==
  connect_index # -1 =>
    \A p \in Places : Dist(p, connect_index) < connect_count => wifi_info[p] \in tried \cup {None}

\* The place where get_wifi_info stops.
Stop == IF Stops = {} THEN MAX_WIFI_NUM - 1 ELSE Min(Stops)

LEMMA StopIsPlace ==
  ASSUME FlashOK, SearchOK
  PROVE  /\ Stop \in Places /\ First \in Places /\ Seen \in 0 .. MAX_WIFI_NUM
         /\ \A i \in Places : PlaceAt(i) = IF First + i < MAX_WIFI_NUM THEN First + i
                                           ELSE First + i - MAX_WIFI_NUM
         /\ \A i \in Places : i < Stop => wifi_info[PlaceAt(i)] = None
<1> USE Sizes
<1>1. First \in Places /\ Seen \in 0 .. MAX_WIFI_NUM
  <2>1. CASE Fresh
    BY <2>1 DEF First, Seen, FlashOK, Places
  <2>2. CASE ~Fresh
    <3>1. connect_index \in Nat /\ connect_index < MAX_WIFI_NUM
      BY <2>2 DEF Fresh, SearchOK, Places
    <3>2. (connect_index + 1) % MAX_WIFI_NUM \in Places
      BY <3>1, Wraps DEF Places
    <3>3. QED
      BY <2>2, <3>2 DEF First, Seen, SearchOK
  <2>3. QED
    BY <2>1, <2>2
<1>2. Stops \in SUBSET Nat /\ Stops \subseteq Places
  BY DEF Stops, Places
<1>3. Stop \in Places /\ \A i \in Stops : Stop <= i
  <2>1. CASE Stops = {}
    BY <2>1 DEF Stop, Places
  <2>2. CASE Stops # {}
    BY <1>2, <2>2, MinIsLeast DEF Stop
  <2>3. QED
    BY <2>1, <2>2
<1>4. ASSUME NEW i \in Places
      PROVE  PlaceAt(i) = IF First + i < MAX_WIFI_NUM THEN First + i ELSE First + i - MAX_WIFI_NUM
  <2>1. PICK x \in Nat : x = First + i /\ x < 2 * MAX_WIFI_NUM
    BY <1>1, <1>4 DEF Places
  <2>2. x % MAX_WIFI_NUM = IF x < MAX_WIFI_NUM THEN x ELSE x - MAX_WIFI_NUM
    BY <2>1, Wraps
  <2>3. PlaceAt(i) = x % MAX_WIFI_NUM
    BY <2>1 DEF PlaceAt
  <2>4. First \in Nat /\ i \in Nat
    BY <1>1, <1>4 DEF Places
  <2>5. QED
    BY <2>1, <2>2, <2>3, <2>4
<1>5. ASSUME NEW i \in Places, i < Stop PROVE wifi_info[PlaceAt(i)] = None
  <2>1. i \notin Stops
    BY <1>3, <1>5 DEF Places
  <2>2. QED
    BY <1>5, <2>1 DEF Stops
<1>6. QED
  BY <1>1, <1>3, <1>4, <1>5

LEMMA SearchGoesOn ==
  ASSUME FlashOK, SearchOK, Searched, GetWifiInfo, UNCHANGED wifi_info
  PROVE  /\ SearchOK' /\ Searched' /\ AllAreTried'
         /\ turn' \in {"NO_NETWORK", "STA_CONNECTING"}
         /\ turn' = "STA_CONNECTING" => curr' \in tried' \cup {None}
<1> USE Sizes
<1> DEFINE c == PlaceAt(Stop)
           soFar == IF Fresh THEN {} ELSE tried
<1>1. /\ connect_index' = c
      /\ \/ /\ Seen + Stop + 1 > MAX_WIFI_NUM
            /\ turn' = "NO_NETWORK" /\ connect_count' = 0
            /\ tried' = soFar /\ UNCHANGED curr
         \/ /\ ~(Seen + Stop + 1 > MAX_WIFI_NUM)
            /\ turn' = "STA_CONNECTING" /\ connect_count' = Seen + Stop + 1
            /\ curr' = IF wifi_info[c] = None THEN curr ELSE wifi_info[c]
            /\ tried' = soFar \cup ({curr'} \ {None})
  BY DEF GetWifiInfo, Stop
<1>2. /\ Stop \in Places /\ First \in Places /\ Seen \in 0 .. MAX_WIFI_NUM
      /\ c = IF First + Stop < MAX_WIFI_NUM THEN First + Stop ELSE First + Stop - MAX_WIFI_NUM
      /\ \A i \in Places : PlaceAt(i) = IF First + i < MAX_WIFI_NUM THEN First + i
                                        ELSE First + i - MAX_WIFI_NUM
      /\ \A i \in Places : i < Stop => wifi_info[PlaceAt(i)] = None
  BY StopIsPlace
<1>3. c \in Places /\ wifi_info[c] \in Nets \cup {None}
  BY <1>2 DEF Places, FlashOK
<1> HIDE DEF c
<1>4. SearchOK'
  BY <1>1, <1>2, <1>3 DEF SearchOK, Places
<1>5. ASSUME NEW p \in Places, Dist(p, c) <= Stop, Dist(p, c) # 0 PROVE wifi_info[p] = None
  <2>1. Stop - Dist(p, c) \in Places /\ Stop - Dist(p, c) < Stop
    BY <1>2, <1>3, <1>5 DEF Dist, Places
  <2>2. PlaceAt(Stop - Dist(p, c)) = p
    BY <1>2, <1>3, <1>5, <2>1 DEF Dist, Places
  <2>3. QED
    BY <1>2, <2>1, <2>2
<1>6. ASSUME NEW p \in Places, Dist(p, c) = 0 PROVE p = c
  BY <1>3, <1>6 DEF Dist, Places
<1>7. ASSUME NEW p \in Places, ~Fresh, Dist(p, c) > Stop \/ Dist(p, c) = 0
      PROVE  Dist(p, connect_index) =
               IF Dist(p, c) = 0 THEN (IF Stop = MAX_WIFI_NUM - 1 THEN 0 ELSE MAX_WIFI_NUM - Stop - 1)
               ELSE Dist(p, c) - Stop - 1
  <2>1. /\ connect_index \in Nat /\ connect_index < MAX_WIFI_NUM
        /\ First = IF connect_index + 1 < MAX_WIFI_NUM THEN connect_index + 1 ELSE 0
    <3>1. connect_index \in Nat /\ connect_index < MAX_WIFI_NUM
      BY <1>7 DEF Fresh, SearchOK, Places
    <3>2. QED
      BY <1>7, <3>1, Wraps DEF First
  <2>2. QED
    BY <1>2, <1>3, <1>7, <2>1 DEF Dist, Places
<1>8. CASE turn' = "NO_NETWORK"
  <2>1. Seen + Stop + 1 > MAX_WIFI_NUM /\ connect_count' = 0 /\ tried' = soFar
    BY <1>1, <1>8
  <2>2. ~Fresh /\ Seen = connect_count /\ tried' = tried
    BY <1>2, <2>1 DEF Seen, Places
  <2>3. ASSUME NEW p \in Places PROVE wifi_info[p] \in tried \cup {None}
    <3>1. Dist(p, c) \in 0 .. MAX_WIFI_NUM - 1
      BY <1>3 DEF Dist, Places
    <3>2. CASE Dist(p, c) # 0 /\ Dist(p, c) <= Stop
      BY <1>5, <3>2
    <3>3. CASE Dist(p, c) = 0 \/ Dist(p, c) > Stop
      <4>1. Dist(p, connect_index) < connect_count
        BY <1>2, <1>7, <2>1, <2>2, <3>1, <3>3 DEF Places
      <4>2. QED
        BY <2>2, <4>1 DEF Searched, Fresh
    <3>4. QED
      BY <1>2, <3>1, <3>2, <3>3 DEF Places
  <2>4. AllAreTried'
    BY <2>2, <2>3 DEF AllAreTried
  <2>5. Searched'
    BY <2>2, <2>3 DEF Searched
  <2>6. QED
    BY <1>4, <1>8, <2>4, <2>5
<1>9. CASE turn' = "STA_CONNECTING"
  <2>1. /\ ~(Seen + Stop + 1 > MAX_WIFI_NUM) /\ connect_count' = Seen + Stop + 1
        /\ curr' = IF wifi_info[c] = None THEN curr ELSE wifi_info[c]
        /\ tried' = soFar \cup ({curr'} \ {None})
    BY <1>1, <1>9
  <2>2. ASSUME NEW p \in Places, Dist(p, c) < Seen + Stop + 1
        PROVE  wifi_info[p] \in tried' \cup {None}
    <3>1. Dist(p, c) \in 0 .. MAX_WIFI_NUM - 1
      BY <1>3 DEF Dist, Places
    <3>2. CASE Dist(p, c) = 0
      <4>1. p = c
        BY <1>6, <3>2
      <4>2. QED
        BY <2>1, <4>1
    <3>3. CASE Dist(p, c) # 0 /\ Dist(p, c) <= Stop
      BY <1>5, <3>3
    <3>4. CASE Dist(p, c) > Stop
      <4>1. ~Fresh /\ Seen = connect_count
        BY <1>2, <2>2, <3>1, <3>4 DEF Seen, Places
      <4>2. Dist(p, connect_index) < connect_count
        BY <1>2, <1>7, <2>2, <3>1, <3>4, <4>1 DEF Places
      <4>3. wifi_info[p] \in tried \cup {None}
        BY <4>1, <4>2 DEF Searched, Fresh
      <4>4. QED
        BY <2>1, <4>1, <4>3
    <3>5. QED
      BY <1>2, <3>1, <3>2, <3>3, <3>4 DEF Places
  <2>3. Searched'
    BY <1>1, <2>1, <2>2 DEF Searched
  <2>4. AllAreTried'
    BY <1>9 DEF AllAreTried
  <2>5. curr' \in tried' \cup {None}
    BY <2>1
  <2>6. QED
    BY <1>4, <1>9, <2>3, <2>4, <2>5
<1>10. QED
  BY <1>1, <1>8, <1>9

(***************************************************************************)
(* The invariant.  What the service found, announced or is connected to    *)
(* stays true while timer and key write the status beside it.              *)
(***************************************************************************)
RestOK ==
  /\ status \in Statuses /\ turn \in Turns
  /\ joined \in Nets \cup {None} /\ lost \in 0 .. QueueSize
  /\ told \in {"nothing", "WIFI_CONNECTED", "WIFI_DISCONNECTED"}
  /\ timer \in BOOLEAN /\ firing \in BOOLEAN /\ key \in {"idle", "start", "cancel"}

Success == {"STA_CONNECT_SUCCESS", "AIRKISS_CONNECT_SUCCESS"}

\* The station is in a network, or a message says that it is not.
Linked == joined # None \/ lost > 0

\* Beside a case under way only the timer and the key write the status.
TurnFits == turn # "none" => status \in {turn, "IDLE", "STA_CONNECTING", "AIRKISS_ON"}

\* What wifi_connect is called with counts as tried.
TriedInv ==
  turn \in {"STA_CONNECTING", "AIRKISS_CONNECTING"} => curr \in tried \cup {None}

FoundInv ==
  status \in Success => Linked /\ joined \in {curr, None} /\ curr # None /\ curr \in tried

AnnouncedInv ==
  turn \in Success =>
    /\ Linked /\ joined \in {curr, None}
    /\ wifi_info[saved_index] = curr /\ told = "WIFI_CONNECTED"

ConnectedInv ==
  status = "STA_CONNECTED" =>
    /\ Linked \/ turn = "STA_CONNECTED"
    /\ joined # None => wifi_info[saved_index] = joined
    /\ told = "WIFI_CONNECTED"

StatusInv == RestOK /\ TurnFits /\ TriedInv /\ FoundInv /\ AnnouncedInv /\ ConnectedInv
SearchInv == FlashOK /\ SearchOK /\ Searched /\ StoredOnce /\ AllAreTried

LEMMA WifiInit == Init => StatusInv /\ SearchInv
<1> SUFFICES ASSUME Init PROVE StatusInv /\ SearchInv
  OBVIOUS
<1> USE Sizes
<1>1. StatusInv
  <2>1. /\ status = "STA_ON" /\ turn = "none" /\ joined = None /\ lost = 0 /\ told = "nothing"
        /\ timer = FALSE /\ firing = FALSE /\ key = "idle"
    BY DEF Init
  <2>2. RestOK
    <3>1. status \in Statuses /\ turn \in Turns /\ joined \in Nets \cup {None}
      BY <2>1 DEF Statuses, Turns
    <3>2. lost \in 0 .. QueueSize
      BY <2>1
    <3>3. /\ told \in {"nothing", "WIFI_CONNECTED", "WIFI_DISCONNECTED"}
          /\ key \in {"idle", "start", "cancel"}
      BY <2>1
    <3>4. timer \in BOOLEAN /\ firing \in BOOLEAN
      BY <2>1
    <3>5. QED
      BY <3>1, <3>2, <3>3, <3>4 DEF RestOK
  <2>3. TurnFits /\ TriedInv /\ FoundInv /\ AnnouncedInv /\ ConnectedInv
    BY DEF Init, TurnFits, TriedInv, FoundInv, AnnouncedInv, ConnectedInv, Success
  <2>4. QED
    BY <2>2, <2>3 DEF StatusInv
<1>2. PICK factory \in Nets \cup {None} :
         wifi_info = [p \in Places |-> IF p = 0 THEN factory ELSE None]
  BY DEF Init
<1>3. FlashOK
  BY <1>2 DEF Init, FlashOK, Places
<1>4. StoredOnce
  BY <1>2 DEF StoredOnce
<1>5. SearchOK /\ Searched /\ AllAreTried
  BY DEF Init, SearchOK, Searched, AllAreTried
<1>6. QED
  BY <1>1, <1>3, <1>4, <1>5 DEF SearchInv

LEMMA SearchNext ==
  ASSUME SearchInv, StatusInv, [Next]_vars
  PROVE  SearchInv'
<1> USE DEF flash, search, timing, vars, Others, Service, Begins, Ends
<1>1. CASE StaConnectingBegins
  <2>1. GetWifiInfo /\ UNCHANGED <<wifi_info, storage_index, saved_index>>
    BY <1>1 DEF StaConnectingBegins
  <2>2. SearchOK' /\ Searched' /\ AllAreTried'
    BY <2>1, SearchGoesOn DEF SearchInv
  <2>3. FlashOK' /\ StoredOnce'
    BY <2>1 DEF SearchInv, FlashOK, StoredOnce
  <2>4. QED
    BY <2>2, <2>3 DEF SearchInv
<1>2. CASE SuccessBegins
  <2>1. /\ SaveWifiInfo(curr) /\ status \in Success /\ turn' \in Success
        /\ UNCHANGED <<curr, connect_index, connect_count, tried>>
    BY <1>2 DEF SuccessBegins, Announce, Success
  <2>2. curr \in tried /\ curr \in Nets \cup {None}
    BY <2>1 DEF StatusInv, FoundInv, SearchInv, SearchOK
  <2>3. /\ FlashOK' /\ StoredOnce' /\ \A p \in Places : wifi_info'[p] \in {wifi_info[p], curr}
    BY <2>1, <2>2, StoredIsFound DEF SearchInv
  <2>4. Searched'
    BY <2>1, <2>2, <2>3 DEF SearchInv, Searched, Dist
  <2>5. SearchOK' /\ AllAreTried'
    BY <2>1 DEF SearchInv, SearchOK, AllAreTried, Success
  <2>6. QED
    BY <2>3, <2>4, <2>5 DEF SearchInv
<1>3. CASE /\ UNCHANGED <<wifi_info, storage_index, saved_index, connect_count>>
           /\ connect_index' \in {connect_index, -1} /\ tried \subseteq tried'
           /\ turn' = "NO_NETWORK" => turn = "NO_NETWORK"
           /\ tried' \subseteq Nets /\ curr' \in Nets \cup {None}
  <2>1. FlashOK' /\ StoredOnce' /\ SearchOK'
    BY <1>3 DEF SearchInv, FlashOK, StoredOnce, SearchOK
  <2>2. Searched' /\ AllAreTried'
    BY <1>3 DEF SearchInv, Searched, AllAreTried, Dist
  <2>3. QED
    BY <2>1, <2>2 DEF SearchInv
<1>4. curr \in Nets \cup {None} /\ tried \subseteq Nets
  BY DEF SearchInv, SearchOK
<1>5. CASE StaOnEnds \/ SuccessEnds
  <2>1. /\ UNCHANGED <<wifi_info, storage_index, saved_index, connect_count, tried, curr>>
        /\ connect_index' \in {connect_index, -1} /\ turn' = "none"
    BY <1>5 DEF StaOnEnds, SuccessEnds
  <2>2. QED
    BY <1>3, <1>4, <2>1
<1>6. CASE AirkissBegins \/ AirkissEnds
  <2>1. /\ UNCHANGED <<wifi_info, storage_index, saved_index, connect_count, tried, connect_index>>
        /\ curr' \in Nets \cup {None} /\ turn' # "NO_NETWORK"
    BY <1>4, <1>6 DEF AirkissBegins, AirkissEnds
  <2>2. QED
    BY <1>3, <1>4, <2>1
<1>7. CASE AirkissConnectingBegins
  <2>1. /\ UNCHANGED <<wifi_info, storage_index, saved_index, connect_count, connect_index, curr>>
        /\ tried' = tried \cup ({curr} \ {None}) /\ turn' # "NO_NETWORK"
    BY <1>7 DEF AirkissConnectingBegins
  <2>2. QED
    BY <1>3, <1>4, <2>1
<1>8. CASE \/ StaOnBegins \/ ConnectedBegins \/ DisconnectedBegins \/ ConnectFailBegins
           \/ NoNetworkEnds \/ StaConnectingEnds \/ ConnectedEnds \/ DisconnectedEnds
           \/ AirkissConnectingEnds \/ ConnectFailEnds
           \/ TimeOutBegins \/ TimeOutEnds \/ KeyReads \/ KeyWrites \/ AccessPointLost
           \/ UNCHANGED vars
  <2>1. /\ UNCHANGED <<wifi_info, storage_index, saved_index, connect_count, connect_index, curr, tried>>
        /\ turn' = "NO_NETWORK" => turn = "NO_NETWORK"
    BY <1>8 DEF StaOnBegins, ConnectedBegins, DisconnectedBegins, ConnectFailBegins, NoNetworkEnds,
         StaConnectingEnds, ConnectedEnds, DisconnectedEnds, AirkissConnectingEnds,
         ConnectFailEnds, TimeOutBegins, TimeOutEnds, KeyReads, KeyWrites, AccessPointLost
  <2>2. QED
    BY <1>3, <1>4, <2>1
<1>9. QED
  BY <1>1, <1>2, <1>5, <1>6, <1>7, <1>8 DEF Next, Begin, End

LEMMA RestNext ==
  ASSUME SearchInv, RestOK, [Next]_vars
  PROVE  RestOK'
<1> USE Sizes DEF flash, search, timing, vars, Others, Service, Begins, Ends, RestOK
<1>1. CASE Begin
  <2>1. status' = status
    BY <1>1 DEF Begin, StaOnBegins, StaConnectingBegins, SuccessBegins, Announce, ConnectedBegins,
         DisconnectedBegins, AirkissBegins, AirkissConnectingBegins, ConnectFailBegins
  <2>2. turn' \in Turns
    BY <1>1, SearchGoesOn
       DEF Begin, StaOnBegins, StaConnectingBegins, SuccessBegins, Announce, ConnectedBegins,
         DisconnectedBegins, AirkissBegins, AirkissConnectingBegins, ConnectFailBegins, Turns,
         Statuses, SearchInv
  <2>3. /\ joined' \in {joined, None} /\ lost' \in 0 .. QueueSize /\ firing' = firing /\ key' = key
        /\ told' \in {told, "WIFI_CONNECTED", "WIFI_DISCONNECTED"}
    BY <1>1 DEF Begin, StaOnBegins, StaConnectingBegins, SuccessBegins, Announce, ConnectedBegins,
         DisconnectedBegins, AirkissBegins, AirkissConnectingBegins, ConnectFailBegins
  <2>4. timer' \in BOOLEAN
    BY <1>1 DEF Begin, StaOnBegins, StaConnectingBegins, SuccessBegins, Announce, ConnectedBegins,
         DisconnectedBegins, AirkissBegins, AirkissConnectingBegins, ConnectFailBegins
  <2>5. QED
    BY <2>1, <2>2, <2>3, <2>4
<1>2. CASE End
  <2>1. status' \in Statuses /\ turn' = "none" /\ UNCHANGED <<lost, told, firing, key>>
    BY <1>2 DEF End, StaOnEnds, NoNetworkEnds, StaConnectingEnds, SuccessEnds, ConnectedEnds,
         DisconnectedEnds, AirkissEnds, AirkissConnectingEnds, ConnectFailEnds, Statuses
  <2>2. joined' \in {joined, curr, None}
    BY <1>2 DEF End, StaOnEnds, NoNetworkEnds, StaConnectingEnds, SuccessEnds, ConnectedEnds,
         DisconnectedEnds, AirkissEnds, AirkissConnectingEnds, ConnectFailEnds
  <2>3. timer' \in BOOLEAN
    BY <1>2 DEF End, StaOnEnds, NoNetworkEnds, StaConnectingEnds, SuccessEnds, ConnectedEnds,
         DisconnectedEnds, AirkissEnds, AirkissConnectingEnds, ConnectFailEnds
  <2>4. QED
    BY <2>1, <2>2, <2>3 DEF Turns, SearchInv, SearchOK
<1>3. CASE TimeOutBegins \/ TimeOutEnds
  BY <1>3 DEF TimeOutBegins, TimeOutEnds, Statuses
<1>4. CASE KeyReads \/ KeyWrites
  BY <1>4 DEF KeyReads, KeyWrites, Statuses
<1>5. CASE AccessPointLost
  BY <1>5 DEF AccessPointLost
<1>6. CASE UNCHANGED vars
  BY <1>6
<1>7. QED
  BY <1>1, <1>2, <1>3, <1>4, <1>5, <1>6 DEF Next

LEMMA StatusNext ==
  ASSUME SearchInv, StatusInv, [Next]_vars
  PROVE  StatusInv'
<1> USE Sizes DEF flash, search, timing, vars, Others, Service, Begins, Ends, Success
<1>0. RestOK /\ RestOK' /\ TurnFits /\ TriedInv /\ FoundInv /\ AnnouncedInv /\ ConnectedInv
  BY RestNext DEF StatusInv
<1>a. /\ lost \in Nat /\ lost' \in Nat /\ None \notin Nets
      /\ status \in Statuses /\ turn \in Turns
  BY <1>0, NoneAssumption DEF RestOK
<1> SUFFICES TurnFits' /\ TriedInv' /\ FoundInv' /\ AnnouncedInv' /\ ConnectedInv'
  BY <1>0 DEF StatusInv
<1> USE DEF TurnFits, TriedInv, FoundInv, AnnouncedInv, ConnectedInv, Linked
<1>1. CASE StaOnBegins \/ DisconnectedBegins \/ ConnectFailBegins \/ AirkissBegins
           \/ AirkissConnectingBegins
  BY <1>0, <1>1 DEF StaOnBegins, DisconnectedBegins, ConnectFailBegins, AirkissBegins,
     AirkissConnectingBegins
<1>2. CASE StaConnectingBegins
  <2>1. /\ turn' \in {"NO_NETWORK", "STA_CONNECTING"}
        /\ turn' = "STA_CONNECTING" => curr' \in tried' \cup {None}
    BY <1>2, SearchGoesOn DEF StaConnectingBegins, SearchInv
  <2>2. status = "STA_CONNECTING" /\ status' = status
    BY <1>2 DEF StaConnectingBegins
  <2>3. QED
    BY <2>1, <2>2
<1>3. CASE SuccessBegins
  <2>1. /\ status \in Success /\ turn' = status /\ turn = "none" /\ status' = status
        /\ told' = "WIFI_CONNECTED" /\ SaveWifiInfo(curr)
        /\ UNCHANGED <<curr, tried, joined, lost>>
    BY <1>3 DEF SuccessBegins, Announce
  <2>2. curr \in Nets \cup {None}
    BY DEF SearchInv, SearchOK
  <2>3. wifi_info'[saved_index'] = curr
    BY <2>1, <2>2, StoredIsFound DEF SearchInv
  <2>4. QED
    BY <1>0, <2>1, <2>3
<1>4. CASE ConnectedBegins
  BY <1>0, <1>a, <1>4 DEF ConnectedBegins
<1>5. CASE StaOnEnds \/ NoNetworkEnds \/ ConnectedEnds \/ DisconnectedEnds \/ AirkissEnds
           \/ ConnectFailEnds
  BY <1>0, <1>5 DEF StaOnEnds, NoNetworkEnds, ConnectedEnds, DisconnectedEnds, AirkissEnds,
     ConnectFailEnds
<1>6. CASE StaConnectingEnds
  <2>1. /\ turn = "STA_CONNECTING" /\ turn' = "none"
        /\ status \in {"IDLE", "STA_CONNECTING", "AIRKISS_ON"}
        /\ UNCHANGED <<curr, tried>>
    BY <1>0, <1>6 DEF StaConnectingEnds
  <2>2. \/ status' = status
        \/ status' = "STA_CONNECT_SUCCESS" /\ curr # None /\ joined' = curr
    BY <1>6 DEF StaConnectingEnds
  <2>3. curr # None => curr \in tried
    BY <1>0, <2>1
  <2>4. QED
    BY <2>1, <2>2, <2>3
<1>7. CASE SuccessEnds
  BY <1>0, <1>7 DEF SuccessEnds
<1>8. CASE AirkissConnectingEnds
  <2>1. /\ turn = "AIRKISS_CONNECTING" /\ turn' = "none"
        /\ UNCHANGED <<curr, tried>>
        /\ \/ status' = "AIRKISS_CONNECT_FAIL"
           \/ status' = "AIRKISS_CONNECT_SUCCESS" /\ curr # None /\ joined' = curr
    BY <1>0, <1>8 DEF AirkissConnectingEnds
  <2>2. curr # None => curr \in tried
    BY <1>0, <2>1
  <2>3. QED
    BY <2>1, <2>2
<1>9. CASE TimeOutBegins \/ TimeOutEnds \/ KeyReads \/ KeyWrites
  <2>1. /\ UNCHANGED <<turn, curr, tried, wifi_info, saved_index, joined, lost, told>>
        /\ status' \in {status, "IDLE", "STA_CONNECTING", "AIRKISS_ON"}
    BY <1>9 DEF TimeOutBegins, TimeOutEnds, KeyReads, KeyWrites
  <2>2. QED
    BY <1>0, <2>1
<1>10. CASE AccessPointLost
  <2>1. /\ UNCHANGED <<status, turn, curr, tried, wifi_info, saved_index, told>>
        /\ joined' = None /\ lost' > 0
    BY <1>a, <1>10 DEF AccessPointLost
  <2>2. QED
    BY <1>0, <2>1
<1>11. CASE UNCHANGED vars
  BY <1>0, <1>11
<1>12. QED
  BY <1>1, <1>2, <1>3, <1>4, <1>5, <1>6, <1>7, <1>8, <1>9, <1>10, <1>11 DEF Next, Begin, End

LEMMA WifiAlways == Spec => [](StatusInv /\ SearchInv)
<1>1. Init => StatusInv /\ SearchInv
  BY WifiInit
<1>2. StatusInv /\ SearchInv /\ [Next]_vars => (StatusInv /\ SearchInv)'
  BY SearchNext, StatusNext
<1>3. QED
  BY <1>1, <1>2, PTL DEF Spec

\* Every variable has values of its type, for any networks and places.
THEOREM WifiTypeCorrect == Spec => []TypeOK
<1>1. StatusInv /\ SearchInv => TypeOK
  BY DEF StatusInv, SearchInv, RestOK, FlashOK, SearchOK, TypeOK
<1>2. QED
  BY <1>1, WifiAlways, PTL

\* Whatever timer and key write beside the service: in STA_CONNECTED the station
\* is in a network or the service is about to learn of its loss, and the others
\* were told.
THEOREM WifiIsReal == Spec => []ConnectedIsReal
<1>1. StatusInv /\ SearchInv => ConnectedIsReal
  BY DEF StatusInv, ConnectedInv, Linked, ConnectedIsReal, ConnectedIsJoined, ConnectedIsTold
<1>2. QED
  BY <1>1, WifiAlways, PTL

\* Flash keeps each network once, and the one joined last where the search begins.
THEOREM WifiIsKept == Spec => []NetworksAreKept
<1>1. StatusInv /\ SearchInv => NetworksAreKept
  BY DEF StatusInv, SearchInv, ConnectedInv, NetworksAreKept, NewestIsFirst
<1>2. QED
  BY <1>1, WifiAlways, PTL

\* The service turns to airkiss only after it tried every network in flash, for
\* any number of places and wherever the search began.
THEOREM WifiTriesAll == Spec => []AllAreTried
<1>1. StatusInv /\ SearchInv => AllAreTried
  BY DEF SearchInv
<1>2. QED
  BY <1>1, WifiAlways, PTL
=============================================================================
