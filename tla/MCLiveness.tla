----------------------------- MODULE MCLiveness -----------------------------
(***************************************************************************)
(* What must happen in the end: in the bus, in the wifi service and in the *)
(* authorization, one of them in each behaviour; "part" says which.  With  *)
(* the authorization go the packets it exchanges.                          *)
(***************************************************************************)
EXTENDS MCAppBus, Integers

CONSTANTS
    Nets, None,  \* of WifiManage
    Bytes        \* of MakerPackets

VARIABLES part,  \* what runs
    w_status, w_turn, w_curr, w_connect_index, w_connect_count,
    w_wifi_info, w_storage_index, w_saved_index, w_joined, w_lost, w_told,
    w_timer, w_firing, w_key, w_tried,
    a_open, a_sock, a_badly, a_addrs, a_peer, a_todo, a_moved,
    a_auth_state, a_is_authorized, a_retry_recv, a_tries, a_shows,
    a_stage, a_license, a_answered,
    p_stage, p_packet, p_original, p_changed, p_ret

wifiVars == <<w_status, w_turn, w_curr, w_connect_index, w_connect_count,
    w_wifi_info, w_storage_index, w_saved_index, w_joined, w_lost, w_told,
    w_timer, w_firing, w_key, w_tried>>
authVars == <<a_open, a_sock, a_badly, a_addrs, a_peer, a_todo, a_moved,
    a_auth_state, a_is_authorized, a_retry_recv, a_tries, a_shows,
    a_stage, a_license, a_answered>>
packetVars == <<p_stage, p_packet, p_original, p_changed, p_ret>>
all == <<part, vars, wifiVars, authVars, packetVars>>

Wifi == INSTANCE WifiManage WITH
    Nets <- Nets, None <- None, MAX_WIFI_NUM <- 3, QueueSize <- 1,
    status <- w_status, turn <- w_turn, curr <- w_curr,
    connect_index <- w_connect_index, connect_count <- w_connect_count,
    wifi_info <- w_wifi_info, storage_index <- w_storage_index,
    saved_index <- w_saved_index, joined <- w_joined, lost <- w_lost,
    told <- w_told, timer <- w_timer, firing <- w_firing, key <- w_key,
    tried <- w_tried
Auth == INSTANCE Authorize WITH
    Descriptors <- {1, 2}, INVALID_SOCK <- 0, MaxAddresses <- 1,
    MAX_RETRY_SEND_TIMES <- 3, MAX_RETRY_RECV_TIMES <- 2, open <- a_open,
    sock <- a_sock, badly <- a_badly, addrs <- a_addrs, peer <- a_peer,
    todo <- a_todo, moved <- a_moved, auth_state <- a_auth_state,
    is_authorized <- a_is_authorized, retry_recv <- a_retry_recv,
    tries <- a_tries, shows <- a_shows, stage <- a_stage,
    license <- a_license, answered <- a_answered
Packets == INSTANCE MakerPackets WITH
    stage <- p_stage, packet <- p_packet, original <- p_original,
    changed <- p_changed, ret <- p_ret
-----------------------------------------------------------------------------
LiveInit == /\ part \in {"bus", "wifi", "authorize", "packets"}
            /\ Init /\ Wifi!Init /\ Auth!Init
            /\ part # "wifi" => w_wifi_info[0] = None
            /\ part # "authorize" => ~a_license
            /\ IF part = "packets" THEN Packets!Init
               ELSE p_stage = 0 /\ p_packet = 0 /\ p_original = 0 /\ p_changed = 0 /\ p_ret = 0

\* A step of the part that runs.
OfBus(A) == part = "bus" /\ A /\ UNCHANGED <<part, wifiVars, authVars, packetVars>>
OfWifi(A) == part = "wifi" /\ A /\ UNCHANGED <<part, vars, authVars, packetVars>>
OfAuth(A) == part = "authorize" /\ A /\ UNCHANGED <<part, vars, wifiVars, packetVars>>
OfPackets(A) == part = "packets" /\ A /\ UNCHANGED <<part, vars, wifiVars, authVars>>

LiveNext == OfPackets(Packets!Next) \/ OfBus(Next) \/ OfWifi(Wifi!Next) \/ OfAuth(Auth!Next)

\* The fairness of AppBus and WifiManage; and the thread of the authorization
\* goes on, each of its requests ends, by its time limit if not by an answer.
LiveSpec ==
  /\ LiveInit /\ [][LiveNext]_all
  /\ WF_all(OfBus(MainStep))
  /\ \A a \in Apps : WF_all(OfBus(task[a] # "none" /\ AppStep(a)))
  /\ WF_all(OfWifi(Wifi!Begin)) /\ WF_all(OfWifi(Wifi!End))
  /\ WF_all(OfWifi(Wifi!TimeOutEnds)) /\ WF_all(OfWifi(Wifi!KeyWrites))
  /\ WF_all(OfAuth(Auth!Process))
-----------------------------------------------------------------------------
\* The wifi service does not search for ever, and does not stay connected to
\* a network that is gone.
WifiFindsItsWay == part = "wifi" => Wifi!ComesToRest /\ Wifi!LossIsNoticed

\* Whatever fails, and however often, the child is told in the end whether the
\* maker allows the toy; and neither of them decides on a packet or a license
\* that is not what the other one sent.
MakerDecides ==
    /\ part = "authorize" => Auth!AuthorizationEnds
    /\ [](part = "packets" => Packets!PacketsComeBack /\ Packets!LicenseIsShown)
=============================================================================
