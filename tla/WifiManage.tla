----------------------------- MODULE WifiManage -----------------------------
(***************************************************************************)
(* The wifi service (src/deepbrain/apps/wifi_manage): it joins one of the  *)
(* networks kept in flash, or gets one by airkiss, and tells the other     *)
(* services.  Three threads write its status, each without looking at it   *)
(* again: the service's own, which runs one case of a switch at a time and *)
(* is blocked for seconds in most of them; the timer that ends an airkiss  *)
(* after 51 s; and the event loop, when the reset key is held.             *)
(*                                                                         *)
(* A case that sets the status is therefore two steps: it begins (turn     *)
(* holds its name and what it does before), and it ends with the write.    *)
(***************************************************************************)
EXTENDS Integers, FiniteSetsExt

CONSTANTS
    Nets,         \* networks with their passwords
    None,         \* no network: an empty ssid
    MAX_WIFI_NUM, \* places in flash; the first is the default of the factory
    QueueSize     \* messages of the driver that wait

ASSUME NoneAssumption == None \notin Nets
ASSUME PlacesAssumption == MAX_WIFI_NUM \in Nat /\ MAX_WIFI_NUM >= 2
ASSUME QueueAssumption == QueueSize \in Nat \ {0}

Places == 0 .. MAX_WIFI_NUM - 1

VARIABLES
    status,    \* handle->status
    turn,      \* the case under way in the service's thread, or "none"
    curr,      \* handle->curr_wifi
    connect_index, connect_count,           \* where the search stands
    wifi_info, storage_index, saved_index,  \* FLASH_CFG_WIFI_INFO
    joined,    \* the network the station is in
    lost,      \* MAIN_RECONNECT messages in wifi_msg_queue
    told,      \* the last event sent to the other services
    timer,     \* rtAirkiss runs
    firing,    \* AirkissTimeOut is under way
    key,       \* wifi_manage_start_airkiss: "idle", "start" or "cancel"
    tried      \* networks wifi_connect was called with since the search began

flash == <<wifi_info, storage_index, saved_index>>
search == <<curr, connect_index, connect_count, tried>>
timing == <<timer, firing>>
vars == <<status, turn, search, flash, joined, lost, told, timing, key>>

Statuses ==
    {"IDLE", "STA_ON", "STA_CONNECTING", "STA_CONNECT_SUCCESS", "STA_CONNECTED",
     "STA_DISCONNECTED", "AIRKISS_ON", "AIRKISS_CONNECTING",
     "AIRKISS_CONNECT_SUCCESS", "AIRKISS_CONNECT_FAIL"}
AirkissMode == {"AIRKISS_ON", "AIRKISS_CONNECTING", "AIRKISS_CONNECT_SUCCESS",
                "AIRKISS_CONNECT_FAIL"}
Turns == (Statuses \ {"IDLE"}) \cup {"none", "NO_NETWORK"}

Init ==
    /\ status = "STA_ON" /\ turn = "none" /\ curr = None
    /\ connect_index = -1 /\ connect_count = 0 /\ tried = {}
    /\ \E factory \in Nets \cup {None} :
           wifi_info = [p \in Places |-> IF p = 0 THEN factory ELSE None]
    /\ storage_index = 0 /\ saved_index = 0
    /\ joined = None /\ lost = 0 /\ told = "nothing"
    /\ timer = FALSE /\ firing = FALSE /\ key = "idle"
-----------------------------------------------------------------------------
(* The networks in flash.                                                  *)

\* save_wifi_info: the place of net, an old one or the next; never the first.
Stored(net) == {p \in Places \ {0} : wifi_info[p] = net}
\* The places do not go round.
NextPlaceNoWrap == storage_index + 1
NextPlace == IF storage_index >= MAX_WIFI_NUM - 1 THEN 1 ELSE storage_index + 1

\* A network that is known is stored again.
SaveWifiInfoAgain(net) ==
    /\ wifi_info' = [wifi_info EXCEPT ![NextPlace] = net]
    /\ storage_index' = NextPlace /\ saved_index' = NextPlace

\* The place is not remembered for a network that was known already.
SaveWifiInfoNewOnly(net) ==
    IF Stored(net) # {}
      THEN UNCHANGED flash
      ELSE /\ wifi_info' = [wifi_info EXCEPT ![NextPlace] = net]
           /\ storage_index' = NextPlace /\ saved_index' = NextPlace

SaveWifiInfo(net) ==
    IF Stored(net) # {}
      THEN saved_index' = Min(Stored(net)) /\ UNCHANGED <<wifi_info, storage_index>>
      ELSE /\ wifi_info' = [wifi_info EXCEPT ![NextPlace] = net]
           /\ storage_index' = NextPlace /\ saved_index' = NextPlace

\* get_wifi_info goes round the places and stops at the first that has a
\* network, or when it has looked at more than all of them since it began at
\* the one joined last.  A round without either leaves curr_wifi as it was.
Fresh == connect_index = -1
First == IF Fresh THEN saved_index ELSE (connect_index + 1) % MAX_WIFI_NUM
Seen == IF Fresh THEN 0 ELSE connect_count
PlaceAt(i) == (First + i) % MAX_WIFI_NUM
Stops == {i \in Places : Seen + i + 1 > MAX_WIFI_NUM \/ wifi_info[PlaceAt(i)] # None}

\* One place too few is looked at.
GetWifiInfoShort ==
    LET i == IF Stops = {} THEN MAX_WIFI_NUM - 1 ELSE Min(Stops)
        net == wifi_info[PlaceAt(i)]
        soFar == IF Fresh THEN {} ELSE tried
    IN /\ connect_index' = PlaceAt(i)
       /\ IF Seen + i + 1 >= MAX_WIFI_NUM
            THEN /\ turn' = "NO_NETWORK" /\ connect_count' = 0
                 /\ tried' = soFar /\ UNCHANGED curr
            ELSE /\ turn' = "STA_CONNECTING" /\ connect_count' = Seen + i + 1
                 /\ curr' = IF net = None THEN curr ELSE net
                 /\ tried' = soFar \cup ({curr'} \ {None})
\* The places are not counted: the search never ends.
GetWifiInfoForEver ==
    LET i == IF Stops = {} THEN MAX_WIFI_NUM - 1 ELSE Min(Stops)
        net == wifi_info[PlaceAt(i)]
        soFar == IF Fresh THEN {} ELSE tried
    IN /\ connect_index' = PlaceAt(i)
       /\ IF i = MAX_WIFI_NUM
            THEN /\ turn' = "NO_NETWORK" /\ connect_count' = 0
                 /\ tried' = soFar /\ UNCHANGED curr
            ELSE /\ turn' = "STA_CONNECTING" /\ connect_count' = connect_count
                 /\ curr' = IF net = None THEN curr ELSE net
                 /\ tried' = soFar \cup ({curr'} \ {None})
GetWifiInfo ==
    LET i == IF Stops = {} THEN MAX_WIFI_NUM - 1 ELSE Min(Stops)
        net == wifi_info[PlaceAt(i)]
        soFar == IF Fresh THEN {} ELSE tried
    IN /\ connect_index' = PlaceAt(i)
       /\ IF Seen + i + 1 > MAX_WIFI_NUM
            THEN /\ turn' = "NO_NETWORK" /\ connect_count' = 0
                 /\ tried' = soFar /\ UNCHANGED curr
            ELSE /\ turn' = "STA_CONNECTING" /\ connect_count' = Seen + i + 1
                 /\ curr' = IF net = None THEN curr ELSE net
                 /\ tried' = soFar \cup ({curr'} \ {None})
-----------------------------------------------------------------------------
(* The service's thread, wifi_event_process.                               *)
Others == UNCHANGED <<firing, key>>
Begins(case) == turn = "none" /\ status = case /\ UNCHANGED status
Ends(case, next) == turn = case /\ turn' = "none" /\ status' = next

StaOnBegins == /\ Begins("STA_ON") /\ turn' = "STA_ON"
               /\ joined' = None
               /\ UNCHANGED <<search, flash, lost, told, timer>> /\ Others
StaOnEnds == /\ Ends("STA_ON", "STA_CONNECTING")
             /\ connect_index' = -1
             /\ UNCHANGED <<curr, connect_count, tried, flash, joined, lost, told,
                            timer>> /\ Others

StaConnectingBegins == /\ Begins("STA_CONNECTING")
                       /\ GetWifiInfo
                       /\ UNCHANGED <<flash, joined, lost, told, timer>>
                       /\ Others
NoNetworkEnds == /\ Ends("NO_NETWORK", "AIRKISS_ON")
                 /\ UNCHANGED <<search, flash, joined, lost, told, timer>>
                 /\ Others

\* wifi_connect's failure is overlooked.
StaConnectingEndsAnyway ==
    /\ joined' \in {curr, None}
    /\ Ends("STA_CONNECTING", "STA_CONNECT_SUCCESS")
    /\ UNCHANGED <<search, flash, lost, told, timer>> /\ Others

\* wifi_connect: the status is written only when it succeeds.
StaConnectingEnds ==
    /\ \/ /\ curr # None /\ joined' = curr
          /\ Ends("STA_CONNECTING", "STA_CONNECT_SUCCESS")
       \/ /\ joined' = None
          /\ Ends("STA_CONNECTING", status)
    /\ UNCHANGED <<search, flash, lost, told, timer>> /\ Others

\* Only a network of the search is announced, not the one of an airkiss.
AnnounceFound(case) ==
    /\ Begins(case) /\ turn' = case
    /\ told' = IF case = "STA_CONNECT_SUCCESS" THEN "WIFI_CONNECTED" ELSE told
    /\ SaveWifiInfo(curr)
    /\ UNCHANGED <<search, joined, lost, timer>> /\ Others

Announce(case) == /\ Begins(case) /\ turn' = case
                  /\ told' = "WIFI_CONNECTED"
                  /\ SaveWifiInfo(curr)
                  /\ UNCHANGED <<search, joined, lost, timer>> /\ Others
SuccessBegins == Announce("STA_CONNECT_SUCCESS") \/ Announce("AIRKISS_CONNECT_SUCCESS")
SuccessEnds ==
    /\ \/ Ends("STA_CONNECT_SUCCESS", "STA_CONNECTED") /\ connect_index' = -1
       \/ Ends("AIRKISS_CONNECT_SUCCESS", "STA_CONNECTED") /\ UNCHANGED connect_index
    /\ timer' = FALSE
    /\ UNCHANGED <<curr, connect_count, tried, flash, joined, lost, told>>
    /\ Others

\* Only the last message of the driver, not that the station is out, is
\* looked at.  Without a message msg is not initialized: it may be anything.
ConnectedBegins ==
    /\ Begins("STA_CONNECTED")
    /\ lost' = IF lost > 0 THEN lost - 1 ELSE 0
    /\ \/ turn' = "STA_CONNECTED" /\ joined' = None
       \/ lost = 0 /\ turn' = "none" /\ UNCHANGED joined
    /\ UNCHANGED <<search, flash, told, timer>> /\ Others
\* A message is read, but the status stays.
ConnectedEndsNot ==
    /\ Ends("STA_CONNECTED", status)
    /\ UNCHANGED <<search, flash, joined, lost, told, timer>>
    /\ Others

ConnectedEnds == /\ Ends("STA_CONNECTED", "STA_DISCONNECTED")
                 /\ UNCHANGED <<search, flash, joined, lost, told, timer>>
                 /\ Others

DisconnectedBegins == /\ Begins("STA_DISCONNECTED") /\ turn' = "STA_DISCONNECTED"
                      /\ UNCHANGED <<search, flash, joined, lost, told, timer>>
                      /\ Others
DisconnectedEnds == /\ Ends("STA_DISCONNECTED", "STA_ON")
                    /\ UNCHANGED <<search, flash, joined, lost, told, timer>>
                    /\ Others

AirkissBegins ==
    /\ Begins("AIRKISS_ON") /\ turn' = "AIRKISS_ON"
    /\ joined' = None /\ told' = "WIFI_DISCONNECTED"
    /\ curr' = None /\ timer' = TRUE
    /\ UNCHANGED <<connect_index, connect_count, tried, flash, lost>> /\ Others
\* get_ssid_pw_from_airkiss returns: with a network, or without one when it was
\* stopped or has failed.
AirkissEnds ==
    /\ \/ Ends("AIRKISS_ON", "AIRKISS_CONNECTING") /\ curr' \in Nets
       \/ Ends("AIRKISS_ON", "IDLE") /\ UNCHANGED curr
    /\ timer' = FALSE
    /\ UNCHANGED <<connect_index, connect_count, tried, flash, joined, lost,
                   told>> /\ Others

AirkissConnectingBegins ==
    /\ Begins("AIRKISS_CONNECTING") /\ turn' = "AIRKISS_CONNECTING"
    /\ tried' = tried \cup ({curr} \ {None})
    /\ UNCHANGED <<curr, connect_index, connect_count, flash, joined, lost, told, timer>> /\ Others
AirkissConnectingEnds ==
    /\ \/ /\ curr # None /\ joined' = curr
          /\ Ends("AIRKISS_CONNECTING", "AIRKISS_CONNECT_SUCCESS")
       \/ /\ joined' = None
          /\ Ends("AIRKISS_CONNECTING", "AIRKISS_CONNECT_FAIL")
    /\ UNCHANGED <<search, flash, lost, told, timer>> /\ Others

ConnectFailBegins ==
    /\ Begins("AIRKISS_CONNECT_FAIL") /\ turn' = "AIRKISS_CONNECT_FAIL"
    /\ UNCHANGED <<search, flash, joined, lost, told, timer>> /\ Others
ConnectFailEnds == /\ Ends("AIRKISS_CONNECT_FAIL", "AIRKISS_ON")
                   /\ UNCHANGED <<search, flash, joined, lost, told, timer>>
                   /\ Others
-----------------------------------------------------------------------------
(* The timer's thread: AirkissTimeOut.                                     *)
Service == UNCHANGED <<turn, search, flash, joined, lost, told>>
TimeOutBegins == /\ timer /\ ~firing /\ timer' = FALSE /\ firing' = TRUE
                 /\ UNCHANGED <<status, key>> /\ Service
TimeOutEnds == /\ firing /\ firing' = FALSE /\ status' = "IDLE"
               /\ UNCHANGED <<timer, key>> /\ Service

(* The event loop: wifi_manage_start_airkiss reads the status, and writes  *)
(* it after it has stopped an airkiss or played a tone.                    *)
KeyReads == /\ key = "idle"
            /\ \/ status \in AirkissMode /\ key' = "cancel"
               \/ status \notin AirkissMode /\ key' = "start"
            /\ UNCHANGED <<status, timing>> /\ Service
KeyWrites == /\ key # "idle" /\ key' = "idle"
             /\ status' = IF key = "cancel" THEN "STA_CONNECTING" ELSE "AIRKISS_ON"
             /\ UNCHANGED timing /\ Service

\* The access point is gone: the driver says so, if its queue has room.
AccessPointLost == /\ joined # None /\ joined' = None
                   /\ lost' = IF lost < QueueSize THEN lost + 1 ELSE lost
                   /\ UNCHANGED <<status, turn, search, flash, told, timing, key>>
-----------------------------------------------------------------------------
Begin == \/ StaOnBegins \/ StaConnectingBegins \/ SuccessBegins \/ ConnectedBegins
         \/ DisconnectedBegins \/ AirkissBegins \/ AirkissConnectingBegins
         \/ ConnectFailBegins
End == \/ StaOnEnds \/ NoNetworkEnds \/ StaConnectingEnds \/ SuccessEnds
       \/ ConnectedEnds \/ DisconnectedEnds \/ AirkissEnds \/ AirkissConnectingEnds
       \/ ConnectFailEnds

Next == Begin \/ End \/ TimeOutBegins \/ TimeOutEnds \/ KeyReads \/ KeyWrites
        \/ AccessPointLost

Spec == Init /\ [][Next]_vars

\* The threads are scheduled and the calls they are in return: an airkiss at
\* the latest when the timer has stopped it.  Nobody has to press the key.
FairSpec == /\ Spec
            /\ WF_vars(Begin) /\ WF_vars(End)
            /\ WF_vars(TimeOutEnds) /\ WF_vars(KeyWrites)
-----------------------------------------------------------------------------
\* Every variable has values of its type.
TypeOK == /\ status \in Statuses /\ turn \in Turns /\ curr \in Nets \cup {None}
          /\ connect_index \in Places \cup {-1}
          /\ connect_count \in 0 .. MAX_WIFI_NUM /\ tried \subseteq Nets
          /\ wifi_info \in [Places -> Nets \cup {None}]
          /\ storage_index \in Places /\ saved_index \in Places
          /\ joined \in Nets \cup {None} /\ lost \in 0 .. QueueSize
          /\ told \in {"nothing", "WIFI_CONNECTED", "WIFI_DISCONNECTED"}
          /\ timer \in BOOLEAN /\ firing \in BOOLEAN
          /\ key \in {"idle", "start", "cancel"}

(* is_wifi_connected() can be relied on: when it is true the station is in *)
(* a network, or the service is about to learn that it is not.             *)
ConnectedIsJoined ==
    status = "STA_CONNECTED" => joined # None \/ lost > 0 \/ turn = "STA_CONNECTED"

(* The place in flash that is tried first is the one of the network joined *)
(* last ("the position of the newest connected wifi"), whatever timer and  *)
(* key did while the network was joined.                                   *)
NewestIsFirst == /\ status = "STA_CONNECTED" /\ joined # None
                 => wifi_info[saved_index] = joined

(* The service gives up the networks in flash, and turns to airkiss, only  *)
(* after it has tried every one of them.                                   *)
AllAreTried == turn = "NO_NETWORK" =>
                   \A p \in Places : wifi_info[p] \in tried \cup {None}

(* No network is in two of the places the service writes, so that none is  *)
(* written over while one is there twice.                                  *)
StoredOnce == \A p, q \in Places \ {0} :
                  wifi_info[p] # None /\ wifi_info[p] = wifi_info[q] => p = q

(* A service that has lost its network, or was never in one, does not go   *)
(* on trying for ever: it joins one, waits for an airkiss, or is idle.     *)
ComesToRest == status = "STA_ON" ~> status \in {"STA_CONNECTED", "AIRKISS_ON", "IDLE"}

(* A loss of the access point is noticed: the service does not stay in     *)
(* STA_CONNECTED without a network.                                        *)
LossIsNoticed == (status = "STA_CONNECTED" /\ joined = None)
                     ~> (status # "STA_CONNECTED" \/ joined # None)

(* APP_EVENT_WIFI_CONNECTED went out, and nothing against it, whenever the  *)
(* service is connected: the push client and the others live on that event. *)
ConnectedIsTold == status = "STA_CONNECTED" => told = "WIFI_CONNECTED"

(* What the service says of its network is true: it is in one, and the     *)
(* others were told.                                                       *)
ConnectedIsReal == ConnectedIsJoined /\ ConnectedIsTold

(* Flash keeps each network once, and the newest where the search begins.  *)
NetworksAreKept == NewestIsFirst /\ StoredOnce
=============================================================================
