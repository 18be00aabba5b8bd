---------------------------- MODULE MpushService ----------------------------
(***************************************************************************)
(* The push client of the device (src/deepbrain/apps/mpush_service):       *)
(* after a WIFI_CONNECTED event it asks for a licence, a list of servers   *)
(* and the messages of the time it was away, connects to a server, shakes  *)
(* hands, binds the device, and then sends heartbeats and plays what the   *)
(* server pushes.  One thread does everything: it handles the events of    *)
(* the application bus and, every 500 ms, one case of the status switch.   *)
(*                                                                         *)
(* The server and the network are outside of the code.  A connection may   *)
(* be "lost" (nothing arrives, writes are taken until the send buffer is   *)
(* full) or "reset" (every send fails).  Parameters named ok are the       *)
(* outcome of the requests made in that turn.                              *)
(***************************************************************************)
EXTENDS Integers, Sequences

CONSTANTS
    BufCap,      \* messages a socket buffer holds, in each direction
    WifiCap      \* wifi events waiting in the queue of this application

ASSUME BufCapAssumption == BufCap \in Nat \ {0}
ASSUME WifiCapAssumption == WifiCap \in Nat \ {0}

VARIABLES
    status,       \* _pHandler->status
    sock,         \* _pHandler->server_sock: "zero" is the value memset gives
    openSocks,    \* sockets this service has opened and not closed
    list,         \* _pHandler->server_list holds an address: "none" or "some"
    hasSn,        \* the serial number is in flash
    updateCount,  \* update_device_info_count, counted up to 3
    late,         \* 5 s have passed since wait_time
    beatDue,      \* MAX_HEART_BEAT seconds have passed since heart_time
    stuck,        \* sock_write repeats a send that will never succeed
    wifi,         \* events in the queue of this application
    up,           \* the last wifi event sent was WIFI_CONNECTED
    link,         \* the connection: "none", "up", "lost" or "reset"
    wire,         \* messages on their way to the server
    inbox,        \* messages on their way to the service
    phase         \* what the server has seen on this connection

own == <<status, sock, openSocks, list, hasSn, updateCount, stuck>>
timers == <<late, beatDue>>
bus == <<wifi, up>>
net == <<link, wire, inbox, phase>>
vars == <<own, timers, bus, net>>

Waiting == {"HANDSHAK_WAIT_REPLY", "BINDING_WAIT_REPLY"}
OnConnection == Waiting \cup
    {"HANDSHAKING", "HANDSHAK_OK", "BINDING", "BINDING_OK", "CONNECTED"}
Statuses == OnConnection \cup
    {"IDEL", "INIT", "UPDATE_DEVICE_INFO", "GET_SERVER_LIST",
     "GET_OFFLINE_MSG", "CONNECTING", "DISCONNECT", "RECONNECT"}
Requests == {"handshake", "bind", "heartbeat", "ack"}
Replies == {"HANDSHAKE", "BIND", "PUSH", "oversized", "torn"}
Phases == {"new", "shaken", "bound", "confused"}

Init == /\ status = "IDEL" /\ sock = "zero" /\ openSocks = 0
        /\ list = "none" /\ hasSn \in BOOLEAN
        /\ updateCount = 0 /\ late = FALSE /\ beatDue = FALSE /\ stuck = FALSE
        /\ wifi = <<>> /\ up = FALSE
        /\ link = "none" /\ wire = <<>> /\ inbox = <<>> /\ phase = "new"
-----------------------------------------------------------------------------
(* The event callback.                                                     *)
WifiConnected == /\ wifi # <<>> /\ Head(wifi) = "WIFI_CONNECTED"
                 /\ status' = "INIT"
WifiDisconnected == /\ wifi # <<>> /\ Head(wifi) = "WIFI_DISCONNECTED"
                    /\ status' = "DISCONNECT"
EventCallback ==
    /\ ~stuck
    /\ WifiConnected \/ WifiDisconnected
    /\ wifi' = Tail(wifi)
    /\ UNCHANGED <<sock, openSocks, list, hasSn, updateCount, stuck,
                   timers, up, net>>
-----------------------------------------------------------------------------
(* Getting ready: licence, device information, server list, old messages.  *)
Ready(from) == /\ ~stuck /\ status = from
               /\ UNCHANGED <<sock, openSocks, stuck, timers, bus, net>>

GetLicense(ok) ==
    /\ Ready("INIT")
    /\ \/ /\ hasSn
          /\ status' = "UPDATE_DEVICE_INFO"
          /\ UNCHANGED <<hasSn, updateCount>>
       \/ /\ ~hasSn /\ ok
          /\ hasSn' = TRUE /\ updateCount' = 0
          /\ status' = "UPDATE_DEVICE_INFO"
       \/ /\ ~hasSn /\ ~ok
          /\ UNCHANGED <<status, hasSn, updateCount>>
    /\ UNCHANGED list

\* A reply without a body counts as success and leaves the list as it was.
ServerList(answer, otherwise) ==
    /\ status' = IF answer = "failed" THEN otherwise ELSE "GET_OFFLINE_MSG"
    /\ list' = IF answer = "servers" THEN "some" ELSE list

GetServerList(answer) ==
    /\ Ready("GET_SERVER_LIST")
    /\ ServerList(answer, status)
    /\ UNCHANGED <<hasSn, updateCount>>

\* Runs on into the case of GET_SERVER_LIST: there is no break.
UpdateDeviceInfo(ok, answer) ==
    LET count == IF ok \/ updateCount = 3 THEN updateCount ELSE updateCount + 1
        next  == IF ok \/ count >= 3 THEN "GET_SERVER_LIST" ELSE status
    IN /\ Ready("UPDATE_DEVICE_INFO")
       /\ updateCount' = count
       /\ ServerList(answer, next)
       /\ UNCHANGED hasSn

\* The parameters for the server could not be computed: no request is made.
NoAuthParams == /\ Ready("UPDATE_DEVICE_INFO")
                /\ UNCHANGED <<status, list, hasSn, updateCount>>

GetOfflineMsg(ok) ==
    /\ Ready("GET_OFFLINE_MSG")
    /\ status' = IF ok THEN "CONNECTING" ELSE status
    /\ UNCHANGED <<list, hasSn, updateCount>>
-----------------------------------------------------------------------------
(* The socket.                                                             *)
NoConnection == link' = "none" /\ wire' = <<>> /\ inbox' = <<>> /\ phase' = "new"

\* sock_close closes our connection, or does not.
Closed == IF sock = "conn" THEN openSocks - 1 ELSE openSocks

\* The old socket is still open while a new one is connected.
MpushConnectNoClose(ok) ==
    /\ IF ok /\ list = "some"
         THEN /\ sock' = "conn" /\ openSocks' = openSocks + 1
              /\ link' = "up" /\ wire' = <<>> /\ inbox' = <<>> /\ phase' = "new"
         ELSE /\ sock' = "invalid" /\ openSocks' = openSocks
              /\ NoConnection

MpushConnect(ok) ==
    /\ IF ok /\ list = "some"
         THEN /\ sock' = "conn" /\ openSocks' = Closed + 1
              /\ link' = "up" /\ wire' = <<>> /\ inbox' = <<>> /\ phase' = "new"
         ELSE /\ sock' = "invalid" /\ openSocks' = Closed
              /\ NoConnection

Connecting(ok) ==
    /\ ~stuck /\ status = "CONNECTING"
    /\ MpushConnect(ok)
    /\ status' = IF ok /\ list = "some" THEN "HANDSHAKING" ELSE status
    /\ beatDue' = FALSE
    /\ UNCHANGED <<list, hasSn, updateCount, stuck, late, bus>>

MpushDisconnect == /\ sock' = "invalid" /\ openSocks' = Closed
                                  /\ NoConnection

\* The case of RECONNECT without mpush_set_run_status.
HangUpOnly ==
    /\ ~stuck /\ status \in {"DISCONNECT", "RECONNECT"}
    /\ MpushDisconnect
    /\ UNCHANGED <<status, list, hasSn, updateCount, stuck, timers, bus>>

HangUp ==
    /\ ~stuck /\ status \in {"DISCONNECT", "RECONNECT"}
    /\ MpushDisconnect
    /\ status' = IF status = "RECONNECT" THEN "CONNECTING" ELSE status
    /\ UNCHANGED <<list, hasSn, updateCount, stuck, timers, bus>>
-----------------------------------------------------------------------------
(* Talking to the server.  A write with a timeout fails when the link is   *)
(* reset or the buffer stays full.                                         *)
Writable(w) == link \in {"up", "lost"} /\ Len(w) < BufCap
Talking == UNCHANGED <<sock, openSocks, list, hasSn, updateCount,
                       bus, link, phase>>

Handshaking ==
    /\ ~stuck /\ status = "HANDSHAKING"
    /\ IF Writable(wire)
         THEN /\ wire' = Append(wire, "handshake")
              /\ status' = "HANDSHAK_WAIT_REPLY"
              /\ late' = FALSE /\ UNCHANGED stuck
         ELSE /\ stuck' = TRUE /\ UNCHANGED <<wire, status, late>>
    /\ UNCHANGED <<beatDue, inbox>> /\ Talking

Binding ==
    /\ ~stuck /\ status = "BINDING"
    /\ IF Writable(wire)
         THEN /\ wire' = Append(wire, "bind")
              /\ status' = "BINDING_WAIT_REPLY" /\ late' = FALSE
         ELSE /\ status' = "CONNECTING" /\ UNCHANGED <<wire, late>>
    /\ UNCHANGED <<beatDue, inbox, stuck>> /\ Talking

\* The replies confused; a message that cannot be read taken for a refusal.
StatusAfterAnyReply(msg, st) == CASE msg \in {"HANDSHAKE", "BIND"} -> "BINDING_OK"
                                  [] msg = "oversized" -> "RECONNECT"
                                  [] OTHER             -> st
StatusAfterRefusal(msg, st) == CASE msg = "HANDSHAKE" -> "HANDSHAK_OK"
                                 [] msg = "BIND"      -> "BINDING_OK"
                                 [] msg = "oversized" -> "RECONNECT"
                                 [] msg = "torn"      -> "HANDSHAK_FAIL"
                                 [] OTHER             -> st

\* mpush_client_process_msg: the status after a message.
StatusAfter(msg, st) == CASE msg = "HANDSHAKE" -> "HANDSHAK_OK"
                          [] msg = "BIND"      -> "BINDING_OK"
                          [] msg = "oversized" -> "RECONNECT"
                          [] OTHER             -> st

\* mpush_client_process_msg and mpush_client_receive with at most one message;
\* st and w are the status and the send buffer at the call.
ProcessMsg(msg, st, w) ==
    /\ status' = StatusAfter(msg, st)
    /\ wire' = IF msg = "PUSH" /\ Writable(w) THEN Append(w, "ack") ELSE w
Receive(st, w) ==
    \/ /\ inbox # <<>> /\ link # "reset"
       /\ ProcessMsg(Head(inbox), st, w)
       /\ inbox' = Tail(inbox)
    \/ /\ inbox = <<>> \/ link = "reset"
       /\ status' = st /\ wire' = w /\ UNCHANGED inbox

\* A reply that is late is asked for again, on the same connection.
AskAgain == IF late THEN IF status = "HANDSHAK_WAIT_REPLY" THEN "HANDSHAKING"
                         ELSE "BINDING"
            ELSE status
AwaitReplyAskAgain ==
    /\ ~stuck /\ status \in Waiting
    /\ IF late THEN status' = AskAgain /\ UNCHANGED <<wire, inbox>>
               ELSE Receive(status, wire)
    /\ UNCHANGED <<timers, stuck>> /\ Talking

AwaitReply ==
    /\ ~stuck /\ status \in Waiting
    /\ IF late THEN status' = "RECONNECT" /\ UNCHANGED <<wire, inbox>>
               ELSE Receive(status, wire)
    /\ UNCHANGED <<timers, stuck>> /\ Talking

GoOn ==
    /\ ~stuck
    /\ \/ status = "HANDSHAK_OK" /\ status' = "BINDING"
       \/ status = "BINDING_OK" /\ status' = "CONNECTED"
    /\ UNCHANGED <<timers, stuck, wire, inbox>> /\ Talking

\* A heartbeat that fails is not noticed.
ConnectedDeaf ==
    /\ ~stuck /\ status = "CONNECTED"
    /\ Receive(status, IF beatDue /\ Writable(wire)
                         THEN Append(wire, "heartbeat") ELSE wire)
    /\ beatDue' = FALSE
    /\ UNCHANGED <<late, stuck>> /\ Talking

\* After a heartbeat that failed the old socket is still read once.
Connected ==
    /\ ~stuck /\ status = "CONNECTED"
    /\ \/ beatDue /\ Writable(wire) /\ Receive(status, Append(wire, "heartbeat"))
       \/ beatDue /\ ~Writable(wire) /\ Receive("CONNECTING", wire)
       \/ ~beatDue /\ Receive(status, wire)
    /\ beatDue' = FALSE
    /\ UNCHANGED <<late, stuck>> /\ Talking
-----------------------------------------------------------------------------
(* What is outside of the code: the wifi service, the clock, the network   *)
(* and the server.                                                         *)
WifiEvent(ev) == /\ Len(wifi) < WifiCap
                 /\ wifi' = Append(wifi, ev) /\ up' = (ev = "WIFI_CONNECTED")
                 /\ UNCHANGED <<own, timers, net>>

\* A request or its answer is under way; the server has not read everything.
AnswerUnderWay ==
    /\ link = "up"
    /\ \/ \E i \in DOMAIN wire : wire[i] \in {"handshake", "bind"}
       \/ \E i \in DOMAIN inbox : inbox[i] \in {"HANDSHAKE", "BIND"}
Unread == link = "up" /\ wire # <<>>
WaitExpires == /\ status \in Waiting /\ ~late /\ late' = TRUE
               /\ UNCHANGED <<own, beatDue, bus, net>>
HeartbeatDue == /\ status = "CONNECTED" /\ ~beatDue /\ beatDue' = TRUE
                /\ UNCHANGED <<own, late, bus, net>>

Network == UNCHANGED <<own, timers, bus>>
LinkFails == /\ \/ link = "up" /\ link' = "lost"
                \/ link \in {"up", "lost"} /\ link' = "reset"
             /\ UNCHANGED <<wire, inbox, phase>> /\ Network
MessageTorn == /\ inbox # <<>> /\ Head(inbox) # "torn"
               /\ inbox' = <<"torn">> \o Tail(inbox)
               /\ UNCHANGED <<link, wire, phase>> /\ Network

ServerSends(msg) == /\ link = "up" /\ phase = "bound" /\ Len(inbox) < BufCap
                    /\ inbox' = Append(inbox, msg)
                    /\ UNCHANGED <<link, wire, phase>> /\ Network

\* The server takes a handshake, then a bind, then the rest.
PhaseAfter(msg) == CASE msg = "handshake" /\ phase = "new"    -> "shaken"
                     [] msg = "bind"      /\ phase = "shaken" -> "bound"
                     [] msg \in {"heartbeat", "ack"} /\ phase = "bound" -> phase
                     [] OTHER -> "confused"
AnswerTo(msg) == CASE msg = "handshake" -> <<"HANDSHAKE">>
                   [] msg = "bind"      -> <<"BIND">>
                   [] OTHER             -> <<>>
ServerReads == /\ link = "up" /\ wire # <<>> /\ Len(inbox) < BufCap
               /\ phase' = PhaseAfter(Head(wire))
               /\ inbox' = inbox \o AnswerTo(Head(wire))
               /\ wire' = Tail(wire)
               /\ UNCHANGED link /\ Network
-----------------------------------------------------------------------------
\* A turn in which everything the network is asked for works.
GoodTurn == \/ GetLicense(TRUE)
            \/ UpdateDeviceInfo(TRUE, "servers")
            \/ GetServerList("servers")
            \/ GetOfflineMsg(TRUE)
            \/ Connecting(TRUE)
            \/ Handshaking \/ Binding \/ AwaitReply \/ GoOn \/ Connected
            \/ HangUp
BadTurn == \/ GetLicense(FALSE)
           \/ UpdateDeviceInfo(TRUE, "failed") \/ UpdateDeviceInfo(FALSE, "failed")
           \/ UpdateDeviceInfo(TRUE, "nobody") \/ UpdateDeviceInfo(FALSE, "nobody")
           \/ UpdateDeviceInfo(FALSE, "servers")
           \/ NoAuthParams
           \/ GetServerList("failed") \/ GetServerList("nobody")
           \/ GetOfflineMsg(FALSE)
           \/ Connecting(FALSE)

\* What must not go on for ever if the service is to get through.
Trouble == \/ BadTurn
           \/ \E ev \in {"WIFI_CONNECTED", "WIFI_DISCONNECTED"} : WifiEvent(ev)
           \/ LinkFails
           \/ MessageTorn
           \/ AnswerUnderWay /\ WaitExpires
           \/ Unread /\ HeartbeatDue
           \/ ServerSends("oversized")

Next == \/ Trouble
        \/ EventCallback
        \/ GoodTurn
        \/ ~AnswerUnderWay /\ WaitExpires
        \/ ~Unread /\ HeartbeatDue
        \/ ServerSends("PUSH")
        \/ ServerReads

Spec == Init /\ [][Next]_vars

\* The thread is scheduled, time passes, and a server that is reached reads.
Fairness == /\ WF_vars(EventCallback)
            /\ WF_vars(GoodTurn \/ BadTurn)
            /\ WF_vars(~AnswerUnderWay /\ WaitExpires)
            /\ WF_vars(~Unread /\ HeartbeatDue)
            /\ WF_vars(ServerReads)
FairSpec == Spec /\ Fairness
-----------------------------------------------------------------------------
\* Every variable has values of its type.
TypeOK == /\ status \in Statuses /\ sock \in {"zero", "invalid", "conn"}
          /\ openSocks \in Nat
          /\ list \in {"none", "some"} /\ hasSn \in BOOLEAN
          /\ updateCount \in 0..3 /\ late \in BOOLEAN /\ beatDue \in BOOLEAN
          /\ stuck \in BOOLEAN /\ up \in BOOLEAN
          /\ wifi \in Seq({"WIFI_CONNECTED", "WIFI_DISCONNECTED"})
          /\ link \in {"none", "up", "lost", "reset"}
          /\ wire \in Seq(Requests) /\ inbox \in Seq(Replies)
          /\ phase \in Phases

(* What mpush_is_connected reports is true: a service in BINDING_OK or     *)
(* CONNECTED has a connection of its own, and the server of this very      *)
(* connection has answered the handshake and the bind.                     *)
BoundBeforeConnected ==
    status \in {"BINDING_OK", "CONNECTED"} => sock = "conn" /\ phase = "bound"

(* The order of the protocol: however connections break, replies are late  *)
(* and wifi events arrive, a server sees on each connection one handshake, *)
(* then one bind, then only heartbeats and acknowledgements.               *)
ServerNotConfused == phase # "confused"

(* Reconnecting does not use up the sockets of the device: the service     *)
(* never has a socket open that server_sock does not hold.                 *)
OneSocket == openSocks = IF sock = "conn" THEN 1 ELSE 0

(* When nothing is wrong any more with wifi, network and server, and the   *)
(* server list has an address, the service gets to CONNECTED and stays     *)
(* there, unless its thread has stuck in sock_write before.                *)
GetsThrough == <>[][~Trouble]_vars /\ <>[](up /\ list = "some" /\ ~stuck)
                 => <>[](status = "CONNECTED")

(* A connection that is dead is given up: the service does not go on for   *)
(* ever as if it were connected, or waiting for a reply.                   *)
DeadConnectionIsLeft ==
    (status \in OnConnection /\ link \in {"lost", "reset"})
        ~> (status \notin OnConnection \/ stuck)
=============================================================================
