------------------------------ MODULE LanDiscovery ------------------------------
(***************************************************************************)
(* The discovery in the local network (src/deepbrain/apps/                 *)
(* airkiss_lan_discovery): while wifi is up the toy answers to and sends   *)
(* packets by udp, so that the app on the phone finds it.                  *)
(*                                                                         *)
(* The handle is cleared when it is allocated: until the service makes its *)
(* first socket the descriptor it uses is 0, which may be another thread's *)
(* connection.                                                             *)
(***************************************************************************)
EXTENDS Socket

CONSTANT Zero   \* the descriptor 0, none of Descriptors

VARIABLES
    discovery_status,  \* "IDLE", "ONLINE" or "OFFLINE"
    is_connected,
    theirs             \* descriptor 0 is open, somebody else's

lanVars == <<socketVars, discovery_status, is_connected, theirs>>
others == <<addrs, peer, pieces>>

Init ==
    /\ open = {} /\ sock = Zero /\ badly = FALSE
    /\ addrs = 0 /\ peer = "alive" /\ todo = 0 /\ moved = 0
    /\ discovery_status = "OFFLINE" /\ is_connected = FALSE
    /\ theirs \in BOOLEAN
-----------------------------------------------------------------------------
(* airkiss_lan_discovery_event_callback                                    *)
WifiConnected ==
    /\ is_connected' = TRUE /\ discovery_status' = "ONLINE"
    /\ UNCHANGED <<socketVars, theirs>>
\* The socket is kept for the next time.
WifiDisconnected ==
    /\ is_connected' = FALSE /\ discovery_status' = "OFFLINE"
    /\ UNCHANGED <<socketVars, theirs>>
-----------------------------------------------------------------------------
(* airkiss_lan_discovery_process, every 500 ms.                            *)

\* create_udp_socket; it may fail, or find no descriptor.
CreateUdpSocket ==
    /\ discovery_status = "IDLE"
    /\ \E s \in Descriptors :
         Fresh(s) /\ open' = open \cup {s} /\ sock' = s /\ discovery_status' = "ONLINE"
    /\ UNCHANGED <<badly, others, is_connected, theirs>>
CreateFails ==
    /\ discovery_status = "IDLE" /\ sock' = INVALID_SOCK
    /\ UNCHANGED <<open, badly, others, discovery_status, is_connected, theirs>>

\* send_udp_packet, as an answer to a phone or every five seconds.
SendUdpPacket ==
    /\ discovery_status = "ONLINE" /\ sock \in open \cup {s \in {Zero} : theirs}
    /\ UNCHANGED lanVars
\* The socket is forgotten.
BroadcastFailsLeak ==
    /\ discovery_status = "ONLINE" /\ discovery_status' = "IDLE" /\ sock' = INVALID_SOCK
    /\ UNCHANGED <<open, badly, others, is_connected, theirs>>
\* An answer that cannot be sent is no matter; after a packet that cannot, for
\* the network or because there is no license yet, the socket is made anew.
BroadcastFails ==
    /\ discovery_status = "ONLINE" /\ discovery_status' = "IDLE"
    /\ IF sock \in open THEN Close(sock) ELSE UNCHANGED <<open, badly>>
    /\ theirs' = (theirs /\ sock # Zero) /\ sock' = INVALID_SOCK
    /\ UNCHANGED <<others, is_connected>>

Next == \/ WifiConnected \/ WifiDisconnected \/ CreateUdpSocket \/ CreateFails
        \/ SendUdpPacket \/ BroadcastFails
Spec == Init /\ [][Next]_lanVars
-----------------------------------------------------------------------------
\* However often wifi comes and goes: the service has one socket of its own at
\* most, never loses it and closes none twice, and is never idle with one; only
\* before its first it may close a descriptor of others, 0.
LanHasOneSocket ==
    /\ ~badly /\ open = {sock} \ {Zero, INVALID_SOCK}
    /\ open # {} => discovery_status # "IDLE"
-----------------------------------------------------------------------------
\* The handle is the socket that is open, if one is.
LanInv ==
    /\ LanHasOneSocket
    /\ sock \in Descriptors \cup {Zero, INVALID_SOCK}
    /\ discovery_status \in {"IDLE", "ONLINE", "OFFLINE"}
=============================================================================
