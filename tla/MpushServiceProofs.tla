------------------------- MODULE MpushServiceProofs -------------------------
(***************************************************************************)
(* Proofs about the push client: for every size of the buffers, its types, *)
(* that it holds at most one socket, that a server never sees a message    *)
(* out of turn, and that it is bound whenever the client says so.          *)
(*                                                                         *)
(* None of the last three is inductive.  What they rest on is an account   *)
(* of the conversation: which requests and answers can be under way in     *)
(* each phase of the server (Talk), and what phase each status of the      *)
(* client leaves possible (Step).                                          *)
(***************************************************************************)
EXTENDS MpushService, TLAPS

\* The types in two halves: what is a flag, and what is not.
Flags == /\ hasSn \in BOOLEAN /\ late \in BOOLEAN
         /\ beatDue \in BOOLEAN /\ stuck \in BOOLEAN /\ up \in BOOLEAN
Values == /\ status \in Statuses /\ sock \in {"zero", "invalid", "conn"}
          /\ openSocks \in Nat /\ list \in {"none", "some"}
          /\ updateCount \in 0..3
          /\ wifi \in Seq({"WIFI_CONNECTED", "WIFI_DISCONNECTED"})
          /\ link \in {"none", "up", "lost", "reset"}
          /\ wire \in Seq(Requests) /\ inbox \in Seq(Replies)
          /\ phase \in Phases

SocketKnown == /\ sock = "conn" <=> link # "none"
               /\ status \in OnConnection => sock = "conn"

TalkNew == phase = "new" => wire \in {<<>>, <<"handshake">>} /\ inbox = <<>>
TalkShaken ==
    phase = "shaken" =>
        \/ wire = <<>> /\ inbox \in {<<>>, <<"HANDSHAKE">>, <<"torn">>}
        \/ wire = <<"bind">> /\ inbox = <<>>
TalkBound == phase = "bound" => /\ wire \in Seq({"heartbeat", "ack"})
                                /\ inbox \in Seq(Replies \ {"HANDSHAKE"})
Talk == TalkNew /\ TalkShaken /\ TalkBound /\ ServerNotConfused

StepGreet == status = "HANDSHAKING" => phase = "new" /\ wire = <<>>
StepGreeted == status = "HANDSHAK_WAIT_REPLY" =>
                   phase \in {"new", "shaken"} /\ wire # <<"bind">>
StepBind == status \in {"HANDSHAK_OK", "BINDING"} =>
                phase = "shaken" /\ wire = <<>> /\ inbox = <<>>
StepBound == status = "BINDING_WAIT_REPLY" =>
                 phase = "bound" \/ (phase = "shaken" /\ wire = <<"bind">>)
StepDone == status \in {"BINDING_OK", "CONNECTED"} => phase = "bound"
Step == StepGreet /\ StepGreeted /\ StepBind /\ StepBound /\ StepDone

IInv == Flags /\ Values /\ OneSocket /\ SocketKnown /\ Talk /\ Step

\* The empty sequence is a sequence of anything.
LEMMA EmptySeq == ASSUME NEW S PROVE <<>> \in Seq(S)
  OBVIOUS

\* The two halves of the types are the type invariant.
LEMMA TypesInHalves == TypeOK <=> Flags /\ Values
  BY Zenon DEF TypeOK, Flags, Values
-----------------------------------------------------------------------------
\* The actions of Next one by one, with the parameters of the turns free.
Turn ==
    \/ \E ok \in BOOLEAN : GetLicense(ok) \/ GetOfflineMsg(ok) \/ Connecting(ok)
    \/ \E ok \in BOOLEAN, answer \in {"servers", "nobody", "failed"} :
           UpdateDeviceInfo(ok, answer) \/ GetServerList(answer)
    \/ NoAuthParams
    \/ Handshaking \/ Binding \/ AwaitReply \/ GoOn \/ Connected \/ HangUp
Outside ==
    \/ \E ev \in {"WIFI_CONNECTED", "WIFI_DISCONNECTED"} : WifiEvent(ev)
    \/ WaitExpires \/ HeartbeatDue
    \/ LinkFails \/ MessageTorn
    \/ \E msg \in {"oversized", "PUSH"} : ServerSends(msg)
    \/ ServerReads

\* Next is no more than turns, the event callback and what is outside.
LEMMA NextParts == Next => Turn \/ EventCallback \/ Outside
  BY DEF Next, Trouble, GoodTurn, BadTurn, Turn, Outside

\* What a turn that only gets ready leaves alone.
LEMMA ReadyStep ==
  ASSUME IInv, \E from : Ready(from) , status \notin OnConnection,
         status' \in Statuses \ OnConnection,
         list' \in {"none", "some"}, hasSn' \in BOOLEAN, updateCount' \in 0..3
  PROVE  IInv'
  BY DEF Ready, IInv, Flags, Values, OneSocket, SocketKnown, Talk, TalkNew, TalkShaken,
         TalkBound, ServerNotConfused, Step, StepGreet, StepGreeted, StepBind,
         StepBound, StepDone, Statuses, OnConnection, Waiting, timers, bus, net

\* The invariant holds before the first step.
LEMMA InitInv == Init => IInv
<1> SUFFICES ASSUME Init PROVE IInv
  OBVIOUS
<1>1. Values
  BY DEF Init, Values, Statuses, Phases
<1>5. Flags
  BY Zenon DEF Init, Flags
<1>2. OneSocket /\ SocketKnown
  BY DEF Init, OneSocket, SocketKnown, OnConnection, Waiting
<1>3. Talk
  BY DEF Init, Talk, TalkNew, TalkShaken, TalkBound, ServerNotConfused
<1>4. Step
  BY DEF Init, Step, StepGreet, StepGreeted, StepBind, StepBound, StepDone
<1> QED
  BY <1>1, <1>2, <1>3, <1>4, <1>5 DEF IInv

\* Getting ready: no step of it touches the connection.
LEMMA ReadyActions ==
  ASSUME IInv, NEW ok \in BOOLEAN, NEW answer \in {"servers", "nobody", "failed"},
         \/ GetLicense(ok) \/ GetOfflineMsg(ok) \/ NoAuthParams
         \/ UpdateDeviceInfo(ok, answer) \/ GetServerList(answer)
  PROVE  IInv'
<1>1. CASE GetLicense(ok)
  <2>1. status \notin OnConnection /\ status' \in Statuses \ OnConnection
    BY <1>1 DEF GetLicense, Ready, Statuses, OnConnection, Waiting
  <2>2. hasSn' \in BOOLEAN /\ hasSn \in BOOLEAN
    BY <1>1, Zenon DEF GetLicense, IInv, Flags
  <2>3. list' \in {"none", "some"} /\ updateCount' \in 0..3
    BY <1>1 DEF GetLicense, IInv, Values
  <2>4. Ready("INIT")
    BY <1>1 DEF GetLicense
  <2> QED
    BY <2>1, <2>2, <2>3, <2>4, ReadyStep
<1>2. CASE GetOfflineMsg(ok)
  <2>1. status \notin OnConnection /\ status' \in Statuses \ OnConnection
    BY <1>2 DEF GetOfflineMsg, Ready, Statuses, OnConnection, Waiting
  <2>2. hasSn' \in BOOLEAN
    BY <1>2, Zenon DEF GetOfflineMsg, IInv, Flags
  <2>3. list' \in {"none", "some"} /\ updateCount' \in 0..3
    BY <1>2 DEF GetOfflineMsg, IInv, Values
  <2>4. Ready("GET_OFFLINE_MSG")
    BY <1>2 DEF GetOfflineMsg
  <2> QED
    BY <2>1, <2>2, <2>3, <2>4, ReadyStep
<1>3. CASE NoAuthParams
  <2>1. status \notin OnConnection /\ status' \in Statuses \ OnConnection
    BY <1>3 DEF NoAuthParams, Ready, Statuses, OnConnection, Waiting
  <2>2. hasSn' \in BOOLEAN
    BY <1>3, Zenon DEF NoAuthParams, IInv, Flags
  <2>3. list' \in {"none", "some"} /\ updateCount' \in 0..3
    BY <1>3 DEF NoAuthParams, IInv, Values
  <2>4. Ready("UPDATE_DEVICE_INFO")
    BY <1>3 DEF NoAuthParams
  <2> QED
    BY <2>1, <2>2, <2>3, <2>4, ReadyStep
<1>4. CASE UpdateDeviceInfo(ok, answer)
  <2>1. status \notin OnConnection /\ status' \in Statuses \ OnConnection
    BY <1>4 DEF UpdateDeviceInfo, ServerList, Ready, Statuses, OnConnection, Waiting
  <2>2. hasSn' \in BOOLEAN
    BY <1>4, Zenon DEF UpdateDeviceInfo, IInv, Flags
  <2>3. list' \in {"none", "some"} /\ updateCount' \in 0..3
    BY <1>4 DEF UpdateDeviceInfo, ServerList, IInv, Values
  <2>4. Ready("UPDATE_DEVICE_INFO")
    BY <1>4 DEF UpdateDeviceInfo
  <2> QED
    BY <2>1, <2>2, <2>3, <2>4, ReadyStep
<1>5. CASE GetServerList(answer)
  <2>1. status \notin OnConnection /\ status' \in Statuses \ OnConnection
    BY <1>5 DEF GetServerList, ServerList, Ready, Statuses, OnConnection, Waiting
  <2>2. hasSn' \in BOOLEAN
    BY <1>5, Zenon DEF GetServerList, IInv, Flags
  <2>3. list' \in {"none", "some"} /\ updateCount' \in 0..3
    BY <1>5 DEF GetServerList, ServerList, IInv, Values
  <2>4. Ready("GET_SERVER_LIST")
    BY <1>5 DEF GetServerList
  <2> QED
    BY <2>1, <2>2, <2>3, <2>4, ReadyStep
<1> QED
  BY <1>1, <1>2, <1>3, <1>4, <1>5

\* The actions that open and close the socket.
LEMMA SocketActions ==
  ASSUME IInv, NEW ok \in BOOLEAN, Connecting(ok) \/ HangUp
  PROVE  IInv'
<1>2. Flags'
  <2>1. hasSn' = hasSn /\ late' = late /\ stuck' = stuck /\ up' = up
    BY Zenon DEF Connecting, HangUp, timers, bus
  <2>2. beatDue' \in BOOLEAN
    BY Zenon DEF Connecting, HangUp, timers, IInv, Flags
  <2> QED
    BY <2>1, <2>2, Zenon DEF IInv, Flags
<1>3. Closed = 0
  BY DEF IInv, OneSocket, Closed, Values
<1>4. \/ /\ sock' = "conn" /\ openSocks' = 1 /\ link' = "up"
         /\ wire' = <<>> /\ inbox' = <<>> /\ phase' = "new"
         /\ status' = "HANDSHAKING"
      \/ /\ sock' = "invalid" /\ openSocks' = 0 /\ NoConnection
         /\ status' \in {"CONNECTING", "DISCONNECT"}
  BY <1>3 DEF Connecting, MpushConnect, HangUp, MpushDisconnect
<1>5. Values'
  <2>1. list' = list /\ updateCount' = updateCount /\ wifi' = wifi
    BY DEF Connecting, HangUp, bus
  <2>2. status' \in Statuses /\ phase' \in Phases
    BY <1>4 DEF NoConnection, Statuses, OnConnection, Waiting, Phases
  <2>3. wire' \in Seq(Requests) /\ inbox' \in Seq(Replies)
    <3>1. wire' = <<>> /\ inbox' = <<>>
      BY <1>4 DEF NoConnection
    <3> QED
      BY <3>1, EmptySeq
  <2>4. /\ sock' \in {"zero", "invalid", "conn"} /\ openSocks' \in Nat
        /\ link' \in {"none", "up", "lost", "reset"}
    BY <1>4 DEF NoConnection
  <2> QED
    BY <2>1, <2>2, <2>3, <2>4 DEF IInv, Values
<1>6. (OneSocket /\ SocketKnown)'
  BY <1>4 DEF OneSocket, SocketKnown, NoConnection, OnConnection, Waiting
<1>7. Talk'
  BY <1>4 DEF Talk, TalkNew, TalkShaken, TalkBound, ServerNotConfused, NoConnection
<1>8. Step'
  BY <1>4 DEF Step, StepGreet, StepGreeted, StepBind, StepBound, StepDone, NoConnection
<1> QED
  BY <1>2, <1>5, <1>6, <1>7, <1>8 DEF IInv

\* What Append, Head and Tail keep.
LEMMA SeqSteps ==
  ASSUME NEW S, NEW s \in Seq(S)
  PROVE  /\ \A e \in S : Append(s, e) \in Seq(S)
         /\ s # <<>> => Head(s) \in S /\ Tail(s) \in Seq(S)
  OBVIOUS

\* What is left to show of a turn that talks to the server.
LEMMA TalkingStep ==
  ASSUME IInv, Talking, status \in OnConnection, status' \in Statuses,
         late' \in BOOLEAN, beatDue' \in BOOLEAN, stuck' \in BOOLEAN,
         wire' \in Seq(Requests), inbox' \in Seq(Replies), Talk', Step'
  PROVE  IInv'
<1>1. Flags'
  BY Zenon DEF Talking, bus, IInv, Flags
<1>2. Values'
  BY DEF Talking, bus, IInv, Values
<1>3. (OneSocket /\ SocketKnown)'
  BY DEF Talking, IInv, OneSocket, SocketKnown
<1> QED
  BY <1>1, <1>2, <1>3 DEF IInv

\* A sequence over a set is one over every larger set.
LEMMA SeqMonotone ==
  ASSUME NEW S, NEW T, S \subseteq T, NEW s \in Seq(S)
  PROVE  s \in Seq(T)
  OBVIOUS

\* The types of a conversation with a bound server.
LEMMA BoundTypes ==
  ASSUME NEW w \in Seq({"heartbeat", "ack"}), NEW b \in Seq(Replies \ {"HANDSHAKE"})
  PROVE  w \in Seq(Requests) /\ b \in Seq(Replies)
<1>1. {"heartbeat", "ack"} \subseteq Requests /\ Replies \ {"HANDSHAKE"} \subseteq Replies
  BY DEF Requests, Replies
<1>2. w \in Seq(Requests)
  BY <1>1, SeqMonotone, Zenon
<1>3. b \in Seq(Replies)
  BY <1>1, SeqMonotone, Zenon
<1> QED
  BY <1>2, <1>3

\* Receiving from a bound server keeps the conversation one with a bound server.
LEMMA ReceiveBound ==
  ASSUME inbox \in Seq(Replies \ {"HANDSHAKE"}),
         NEW st, NEW w \in Seq({"heartbeat", "ack"}), Receive(st, w)
  PROVE  /\ status' \in {st, "BINDING_OK", "RECONNECT"}
         /\ wire' \in Seq({"heartbeat", "ack"})
         /\ inbox' \in Seq(Replies \ {"HANDSHAKE"})
<1>1. CASE inbox # <<>> /\ ProcessMsg(Head(inbox), st, w) /\ inbox' = Tail(inbox)
  <2>1. Head(inbox) # "HANDSHAKE" /\ inbox' \in Seq(Replies \ {"HANDSHAKE"})
    BY <1>1, SeqSteps
  <2>2. status' \in {st, "BINDING_OK", "RECONNECT"}
    BY <1>1, <2>1 DEF ProcessMsg, StatusAfter
  <2>3. wire' = w \/ wire' = Append(w, "ack")
    BY <1>1 DEF ProcessMsg
  <2>4. Append(w, "ack") \in Seq({"heartbeat", "ack"})
    BY SeqSteps
  <2> QED
    BY <2>1, <2>2, <2>3, <2>4
<1>2. CASE status' = st /\ wire' = w /\ inbox' = inbox
  BY <1>2
<1> QED
  BY <1>1, <1>2 DEF Receive

\* The handshake is the first thing on its connection.
LEMMA HandshakingStep ==
  ASSUME IInv, Handshaking
  PROVE  IInv'
<1>1. /\ status = "HANDSHAKING" /\ phase = "new" /\ phase' = phase
      /\ wire = <<>> /\ inbox = <<>> /\ inbox' = inbox
  BY DEF Handshaking, Talking, IInv, Step, StepGreet, Talk, TalkNew
<1>2. \/ wire' = <<"handshake">> /\ status' = "HANDSHAK_WAIT_REPLY"
      \/ wire' = <<>> /\ status' = "HANDSHAKING"
  <2>1. \/ wire' = Append(wire, "handshake") /\ status' = "HANDSHAK_WAIT_REPLY"
        \/ wire' = wire /\ status' = status
    BY Zenon DEF Handshaking
  <2> QED
    BY <2>1, <1>1
<1>3. late' \in BOOLEAN /\ beatDue' \in BOOLEAN /\ stuck' \in BOOLEAN
  BY Zenon DEF Handshaking, IInv, Flags
<1>4. Talk' /\ Step'
  BY <1>1, <1>2 DEF Talk, TalkNew, TalkShaken, TalkBound, ServerNotConfused,
     Step, StepGreet, StepGreeted, StepBind, StepBound, StepDone
<1>5. wire' \in Seq(Requests) /\ inbox' \in Seq(Replies)
  <2>1. <<>> \in Seq(Requests) /\ <<>> \in Seq(Replies)
    BY EmptySeq
  <2>2. Append(<<>>, "handshake") \in Seq(Requests)
    BY <2>1, SeqSteps DEF Requests
  <2>3. Append(<<>>, "handshake") = <<"handshake">>
    OBVIOUS
  <2> QED
    BY <1>1, <1>2, <2>1, <2>2, <2>3
<1>6. status \in OnConnection /\ status' \in Statuses /\ Talking
  BY <1>1, <1>2 DEF Handshaking, OnConnection, Waiting, Statuses
<1> QED
  BY <1>3, <1>4, <1>5, <1>6, TalkingStep

\* The bind follows the answer to the handshake.
LEMMA BindingStep ==
  ASSUME IInv, Binding
  PROVE  IInv'
<1>1. /\ status = "BINDING" /\ phase = "shaken" /\ phase' = phase
      /\ wire = <<>> /\ inbox = <<>> /\ inbox' = inbox
  BY DEF Binding, Talking, IInv, Step, StepBind
<1>2. \/ wire' = <<"bind">> /\ status' = "BINDING_WAIT_REPLY"
      \/ wire' = <<>> /\ status' = "CONNECTING"
  <2>1. \/ wire' = Append(wire, "bind") /\ status' = "BINDING_WAIT_REPLY"
        \/ wire' = wire /\ status' = "CONNECTING"
    BY Zenon DEF Binding
  <2> QED
    BY <2>1, <1>1
<1>3. late' \in BOOLEAN /\ beatDue' \in BOOLEAN /\ stuck' \in BOOLEAN
  BY Zenon DEF Binding, IInv, Flags
<1>4. Talk' /\ Step'
  BY <1>1, <1>2 DEF Talk, TalkNew, TalkShaken, TalkBound, ServerNotConfused,
     Step, StepGreet, StepGreeted, StepBind, StepBound, StepDone
<1>5. wire' \in Seq(Requests) /\ inbox' \in Seq(Replies)
  <2>1. <<>> \in Seq(Requests) /\ <<>> \in Seq(Replies)
    BY EmptySeq
  <2>2. Append(<<>>, "bind") \in Seq(Requests)
    BY <2>1, SeqSteps DEF Requests
  <2>3. Append(<<>>, "bind") = <<"bind">>
    OBVIOUS
  <2> QED
    BY <1>1, <1>2, <2>1, <2>2, <2>3
<1>6. status \in OnConnection /\ status' \in Statuses /\ Talking
  BY <1>1, <1>2 DEF Binding, OnConnection, Waiting, Statuses
<1> QED
  BY <1>3, <1>4, <1>5, <1>6, TalkingStep

\* Turns that only go on to the next status.
LEMMA GoOnStep ==
  ASSUME IInv, GoOn
  PROVE  IInv'
<1>1. \/ status = "HANDSHAK_OK" /\ status' = "BINDING"
      \/ status = "BINDING_OK" /\ status' = "CONNECTED"
  BY DEF GoOn
<1>2. wire' = wire /\ inbox' = inbox /\ phase' = phase
  BY DEF GoOn, Talking
<1>3. late' \in BOOLEAN /\ beatDue' \in BOOLEAN /\ stuck' \in BOOLEAN
  BY Zenon DEF GoOn, timers, IInv, Flags
<1>4. Talk'
  BY <1>2 DEF IInv, Talk, TalkNew, TalkShaken, TalkBound, ServerNotConfused
<1>5. Step'
  BY <1>1, <1>2 DEF IInv, Step, StepGreet, StepGreeted, StepBind, StepBound, StepDone
<1>6. wire' \in Seq(Requests) /\ inbox' \in Seq(Replies)
  BY <1>2 DEF IInv, Values
<1>7. status \in OnConnection /\ status' \in Statuses /\ Talking
  BY <1>1 DEF GoOn, OnConnection, Waiting, Statuses
<1> QED
  BY <1>3, <1>4, <1>5, <1>6, <1>7, TalkingStep

\* Waiting: what arrives can only be the answer that is waited for.
LEMMA AwaitReplyStep ==
  ASSUME IInv, AwaitReply
  PROVE  IInv'
<1>1. /\ status \in OnConnection /\ Talking /\ phase' = phase
      /\ late' \in BOOLEAN /\ beatDue' \in BOOLEAN /\ stuck' \in BOOLEAN
  <2>1. late' \in BOOLEAN /\ beatDue' \in BOOLEAN /\ stuck' \in BOOLEAN
    BY Zenon DEF AwaitReply, timers, IInv, Flags
  <2> QED
    BY <2>1 DEF AwaitReply, OnConnection, Talking
<1>2. CASE late /\ status' = "RECONNECT" /\ wire' = wire /\ inbox' = inbox
  <2>1. status' \in Statuses /\ wire' \in Seq(Requests) /\ inbox' \in Seq(Replies)
    BY <1>2 DEF IInv, Values, Statuses
  <2>2. Talk'
    BY <1>1, <1>2 DEF IInv, Talk, TalkNew, TalkShaken, TalkBound, ServerNotConfused
  <2>3. Step'
    BY <1>1, <1>2 DEF Step, StepGreet, StepGreeted, StepBind, StepBound, StepDone
  <2> QED
    BY <1>1, <2>1, <2>2, <2>3, TalkingStep
<1>3. CASE status' = status /\ wire' = wire /\ inbox' = inbox
  <2>1. status' \in Statuses /\ wire' \in Seq(Requests) /\ inbox' \in Seq(Replies)
    BY <1>3 DEF IInv, Values
  <2>2. Talk'
    BY <1>1, <1>3 DEF IInv, Talk, TalkNew, TalkShaken, TalkBound, ServerNotConfused
  <2>3. Step'
    BY <1>1, <1>3 DEF IInv, Step, StepGreet, StepGreeted, StepBind, StepBound, StepDone
  <2> QED
    BY <1>1, <2>1, <2>2, <2>3, TalkingStep
<1>4. CASE status = "HANDSHAK_WAIT_REPLY" /\ Receive(status, wire) /\ inbox # <<>>
  <2>1. /\ phase = "shaken" /\ wire = <<>>
        /\ inbox \in {<<"HANDSHAKE">>, <<"torn">>}
    BY <1>4 DEF IInv, Step, StepGreeted, Talk, TalkNew, TalkShaken
  <2>2. CASE ProcessMsg(Head(inbox), status, wire) /\ inbox' = Tail(inbox)
    <3>1. inbox' = <<>> /\ Head(inbox) \in {"HANDSHAKE", "torn"}
      BY <2>1, <2>2
    <3>2. wire' = <<>>
      BY <2>1, <2>2, <3>1 DEF ProcessMsg
    <3>3. status' \in {"HANDSHAK_OK", "HANDSHAK_WAIT_REPLY"}
      BY <1>4, <2>2, <3>1 DEF ProcessMsg, StatusAfter
    <3>4. Talk' /\ Step'
      BY <1>1, <2>1, <3>1, <3>2, <3>3 DEF Talk, TalkNew, TalkShaken, TalkBound,
         ServerNotConfused, Step, StepGreet, StepGreeted, StepBind, StepBound, StepDone
    <3>5. wire' \in Seq(Requests) /\ inbox' \in Seq(Replies)
      BY <3>1, <3>2, EmptySeq
    <3>6. status' \in Statuses
      BY <3>3 DEF Statuses, OnConnection, Waiting
    <3> QED
      BY <1>1, <3>4, <3>5, <3>6, TalkingStep
  <2> QED
    BY <1>3, <1>4, <2>2 DEF Receive
<1>5. CASE status = "BINDING_WAIT_REPLY" /\ Receive(status, wire) /\ inbox # <<>>
  <2>1. phase = "bound"
    BY <1>5 DEF IInv, Step, StepBound, Talk, TalkShaken
  <2>2. wire \in Seq({"heartbeat", "ack"}) /\ inbox \in Seq(Replies \ {"HANDSHAKE"})
    BY <2>1 DEF IInv, Talk, TalkBound
  <2>3. /\ status' \in {status, "BINDING_OK", "RECONNECT"}
        /\ wire' \in Seq({"heartbeat", "ack"})
        /\ inbox' \in Seq(Replies \ {"HANDSHAKE"})
    BY <1>5, <2>2, ReceiveBound
  <2>4. Talk' /\ Step'
    BY <1>1, <1>5, <2>1, <2>3 DEF Talk, TalkNew, TalkShaken, TalkBound,
       ServerNotConfused, Step, StepGreet, StepGreeted, StepBind, StepBound, StepDone
  <2>5. wire' \in Seq(Requests) /\ inbox' \in Seq(Replies)
    BY <2>3, BoundTypes
  <2>6. status' \in Statuses
    BY <1>5, <2>3 DEF Statuses, OnConnection, Waiting
  <2> QED
    BY <1>1, <2>4, <2>5, <2>6, TalkingStep
<1>6. CASE inbox = <<>> /\ Receive(status, wire)
  BY <1>3, <1>6 DEF Receive
<1>7. /\ status \in Waiting
      /\ \/ late /\ status' = "RECONNECT" /\ wire' = wire /\ inbox' = inbox
         \/ Receive(status, wire)
  BY Zenon DEF AwaitReply
<1>8. status = "HANDSHAK_WAIT_REPLY" \/ status = "BINDING_WAIT_REPLY"
  <2>1. status \in Waiting
    BY Zenon DEF AwaitReply
  <2> QED
    BY <2>1 DEF Waiting
<1>9. CASE Receive(status, wire)
  BY <1>4, <1>5, <1>6, <1>8, <1>9, Zenon
<1> QED
  BY <1>2, <1>7, <1>9, Zenon

\* Heartbeats and pushes of a bound connection.
LEMMA ConnectedStep ==
  ASSUME IInv, Connected
  PROVE  IInv'
<1>1. /\ status = "CONNECTED" /\ Talking /\ phase = "bound" /\ phase' = "bound"
      /\ wire \in Seq({"heartbeat", "ack"}) /\ inbox \in Seq(Replies \ {"HANDSHAKE"})
  BY DEF Connected, Talking, IInv, Step, StepDone, Talk, TalkBound
<1>2. PICK st \in {"CONNECTED", "CONNECTING"}, w \in Seq({"heartbeat", "ack"}) : Receive(st, w)
  <2>1. \/ Receive(status, Append(wire, "heartbeat"))
        \/ Receive("CONNECTING", wire)
        \/ Receive(status, wire)
    BY Zenon DEF Connected
  <2>2. Append(wire, "heartbeat") \in Seq({"heartbeat", "ack"})
    BY <1>1, SeqSteps
  <2> QED
    BY <1>1, <2>1, <2>2, Zenon
<1>3. /\ status' \in {st, "BINDING_OK", "RECONNECT"}
      /\ wire' \in Seq({"heartbeat", "ack"})
      /\ inbox' \in Seq(Replies \ {"HANDSHAKE"})
  BY <1>1, <1>2, ReceiveBound
<1>4. Talk' /\ Step'
  BY <1>1, <1>2, <1>3 DEF Talk, TalkNew, TalkShaken, TalkBound, ServerNotConfused,
     Step, StepGreet, StepGreeted, StepBind, StepBound, StepDone
<1>5. wire' \in Seq(Requests) /\ inbox' \in Seq(Replies)
  BY <1>3, BoundTypes
<1>6. late' \in BOOLEAN /\ beatDue' \in BOOLEAN /\ stuck' \in BOOLEAN
  BY Zenon DEF Connected, IInv, Flags
<1>7. status \in OnConnection /\ status' \in Statuses
  BY <1>1, <1>2, <1>3 DEF Statuses, OnConnection
<1> QED
  BY <1>1, <1>4, <1>5, <1>6, <1>7, TalkingStep

\* Wifi events leave the connection as it is and the status off it.
LEMMA CallbackStep ==
  ASSUME IInv, EventCallback
  PROVE  IInv'
<1>1. status' \in {"INIT", "DISCONNECT"} /\ wifi # <<>> /\ wifi' = Tail(wifi)
  BY DEF EventCallback, WifiConnected, WifiDisconnected
<1>2. Flags'
  BY Zenon DEF EventCallback, timers, IInv, Flags
<1>3. Values'
  <2>1. wifi' \in Seq({"WIFI_CONNECTED", "WIFI_DISCONNECTED"})
    BY <1>1, SeqSteps DEF IInv, Values
  <2>2. status' \in Statuses
    BY <1>1 DEF Statuses
  <2>3. UNCHANGED <<sock, openSocks, list, updateCount, net>>
    BY DEF EventCallback
  <2> QED
    BY <2>1, <2>2, <2>3 DEF IInv, Values, net
<1>4. UNCHANGED <<sock, openSocks, net>>
  BY DEF EventCallback
<1>5. (OneSocket /\ SocketKnown)'
  BY <1>1, <1>4 DEF net, IInv, OneSocket, SocketKnown, OnConnection, Waiting
<1>6. Talk'
  BY <1>4 DEF net, IInv, Talk, TalkNew, TalkShaken, TalkBound, ServerNotConfused
<1>7. Step'
  BY <1>1 DEF Step, StepGreet, StepGreeted, StepBind, StepBound, StepDone
<1> QED
  BY <1>2, <1>3, <1>5, <1>6, <1>7 DEF IInv

\* Steps that leave the service and its connection alone.
LEMMA AsideStep ==
  ASSUME IInv, UNCHANGED <<own, net>>, Flags', wifi' \in Seq({"WIFI_CONNECTED", "WIFI_DISCONNECTED"})
  PROVE  IInv'
<1>1. Values' /\ (OneSocket /\ SocketKnown)'
  BY DEF own, net, IInv, Values, OneSocket, SocketKnown
<1>2. Talk' /\ Step'
  BY DEF own, net, IInv, Talk, TalkNew, TalkShaken, TalkBound, ServerNotConfused,
     Step, StepGreet, StepGreeted, StepBind, StepBound, StepDone
<1> QED
  BY <1>1, <1>2 DEF IInv

\* Steps of the network and the server.
LEMMA NetworkStep ==
  ASSUME IInv, Network, link' \in {"none", "up", "lost", "reset"},
         link = "none" <=> link' = "none", wire' \in Seq(Requests),
         inbox' \in Seq(Replies), phase' \in Phases, Talk', Step'
  PROVE  IInv'
<1>1. Flags'
  BY Zenon DEF Network, own, timers, bus, IInv, Flags
<1>2. Values'
  BY DEF Network, own, bus, IInv, Values
<1>3. (OneSocket /\ SocketKnown)'
  BY DEF Network, own, IInv, OneSocket, SocketKnown
<1> QED
  BY <1>1, <1>2, <1>3 DEF IInv

\* The server takes each request in the phase it is meant for.
LEMMA ServerReadsStep ==
  ASSUME IInv, ServerReads
  PROVE  IInv'
<1> DEFINE msg == Head(wire)
<1>1. /\ wire # <<>> /\ wire' = Tail(wire) /\ phase' = PhaseAfter(msg)
      /\ inbox' = inbox \o AnswerTo(msg) /\ link' = link /\ Network
      /\ status' = status /\ wire \in Seq(Requests) /\ inbox \in Seq(Replies)
  BY DEF ServerReads, Network, own, IInv, Values
<1>2. wire' \in Seq(Requests)
  BY <1>1, SeqSteps
<1>3. CASE phase = "new"
  <2>1. wire = <<"handshake">> /\ inbox = <<>>
    BY <1>1, <1>3 DEF IInv, Talk, TalkNew
  <2>2. msg = "handshake" /\ wire' = <<>>
    BY <1>1, <2>1
  <2>3. phase' = "shaken" /\ AnswerTo(msg) = <<"HANDSHAKE">>
    BY <1>1, <1>3, <2>2 DEF PhaseAfter, AnswerTo
  <2>4. inbox' = <<"HANDSHAKE">>
    BY <1>1, <2>1, <2>3
  <2>5. Talk'
    BY <2>2, <2>3, <2>4 DEF Talk, TalkNew, TalkShaken, TalkBound, ServerNotConfused
  <2>6. Step'
    BY <1>1, <1>3, <2>1, <2>2, <2>3 DEF IInv, Step, StepGreet, StepGreeted,
       StepBind, StepBound, StepDone
  <2>7. inbox' \in Seq(Replies)
    BY <2>4 DEF Replies
  <2> QED
    BY <1>1, <1>2, <2>3, <2>5, <2>6, <2>7, NetworkStep DEF Phases, IInv, Values
<1>4. CASE phase = "shaken"
  <2>1. wire = <<"bind">> /\ inbox = <<>>
    BY <1>1, <1>4 DEF IInv, Talk, TalkShaken
  <2>2. msg = "bind" /\ wire' = <<>>
    BY <1>1, <2>1
  <2>3. phase' = "bound" /\ AnswerTo(msg) = <<"BIND">>
    BY <1>1, <1>4, <2>2 DEF PhaseAfter, AnswerTo
  <2>4. inbox' = <<"BIND">>
    BY <1>1, <2>1, <2>3
  <2>5. /\ wire' \in Seq({"heartbeat", "ack"})
        /\ inbox' \in Seq(Replies \ {"HANDSHAKE"}) /\ inbox' \in Seq(Replies)
    BY <2>2, <2>4, EmptySeq DEF Replies
  <2>6. Talk'
    BY <2>3, <2>5 DEF Talk, TalkNew, TalkShaken, TalkBound, ServerNotConfused
  <2>7. Step'
    BY <1>1, <1>4, <2>1, <2>3 DEF IInv, Step, StepGreet, StepGreeted,
       StepBind, StepBound, StepDone
  <2> QED
    BY <1>1, <1>2, <2>3, <2>5, <2>6, <2>7, NetworkStep DEF Phases, IInv, Values
<1>5. CASE phase = "bound"
  <2>1. wire \in Seq({"heartbeat", "ack"}) /\ inbox \in Seq(Replies \ {"HANDSHAKE"})
    BY <1>5 DEF IInv, Talk, TalkBound
  <2>2. msg \in {"heartbeat", "ack"} /\ wire' \in Seq({"heartbeat", "ack"})
    BY <1>1, <2>1, SeqSteps
  <2>3. phase' = "bound" /\ AnswerTo(msg) = <<>>
    BY <1>1, <1>5, <2>2 DEF PhaseAfter, AnswerTo
  <2>4. inbox' = inbox
    BY <1>1, <2>3
  <2>5. Talk'
    BY <2>1, <2>2, <2>3, <2>4 DEF Talk, TalkNew, TalkShaken, TalkBound, ServerNotConfused
  <2>6. Step'
    BY <1>1, <1>5, <2>3 DEF IInv, Step, StepGreet, StepGreeted,
       StepBind, StepBound, StepDone
  <2> QED
    BY <1>1, <1>2, <2>3, <2>4, <2>5, <2>6, NetworkStep DEF Phases, IInv, Values
<1> QED
  BY <1>3, <1>4, <1>5 DEF IInv, Talk, ServerNotConfused, Values, Phases

\* Wifi service, other tasks, clock, network and server keep the invariant.
LEMMA OutsideStep ==
  ASSUME IInv, Outside
  PROVE  IInv'
<1>1. ASSUME NEW ev \in {"WIFI_CONNECTED", "WIFI_DISCONNECTED"}, WifiEvent(ev)
      PROVE  IInv'
  <2>1. wifi' \in Seq({"WIFI_CONNECTED", "WIFI_DISCONNECTED"})
    BY <1>1, SeqSteps DEF WifiEvent, IInv, Values
  <2>2. up' \in BOOLEAN
    BY <1>1, Zenon DEF WifiEvent
  <2>3. Flags'
    BY <1>1, <2>2, Zenon DEF WifiEvent, own, timers, IInv, Flags
  <2> QED
    BY <1>1, <2>1, <2>3, AsideStep DEF WifiEvent
<1>2. CASE WaitExpires \/ HeartbeatDue
  <2>1. UNCHANGED <<own, bus, net>>
    BY <1>2, Zenon DEF WaitExpires, HeartbeatDue
  <2>2. Flags'
    BY <1>2, Zenon DEF WaitExpires, HeartbeatDue, own, timers,
       bus, IInv, Flags
  <2>3. wifi' = wifi
    BY <2>1 DEF bus
  <2> QED
    BY <2>1, <2>2, <2>3, AsideStep DEF IInv, Values
<1>3. CASE LinkFails
  <2>1. UNCHANGED <<wire, inbox, phase>> /\ Network /\ status' = status
    BY <1>3 DEF LinkFails, Network, own
  <2>2. Talk' /\ Step'
    BY <2>1 DEF IInv, Talk, TalkNew, TalkShaken, TalkBound, ServerNotConfused,
       Step, StepGreet, StepGreeted, StepBind, StepBound, StepDone
  <2>3. link' \in {"lost", "reset"} /\ link # "none"
    BY <1>3 DEF LinkFails
  <2> QED
    BY <2>1, <2>2, <2>3, NetworkStep DEF IInv, Values
<1>4. CASE MessageTorn
  <2>1. UNCHANGED <<link, wire, phase>> /\ Network /\ status' = status
    BY <1>4 DEF MessageTorn, Network, own
  <2>2. inbox # <<>> /\ inbox' = <<"torn">> \o Tail(inbox) /\ Head(inbox) # "torn"
    BY <1>4 DEF MessageTorn
  <2>3. inbox' \in Seq(Replies)
    <3>1. Tail(inbox) \in Seq(Replies)
      BY <2>2, SeqSteps DEF IInv, Values
    <3> QED
      BY <2>2, <3>1 DEF Replies
  <2>4. TalkShaken'
    <3>1. CASE phase = "shaken"
      <4>1. wire = <<>> /\ inbox \in {<<"HANDSHAKE">>, <<"torn">>}
        BY <2>2, <3>1 DEF IInv, Talk, TalkShaken
      <4>2. Tail(<<"HANDSHAKE">>) = <<>> /\ Tail(<<"torn">>) = <<>>
        OBVIOUS
      <4>3. inbox' = <<"torn">> \o <<>>
        BY <2>2, <4>1, <4>2
      <4>4. <<"torn">> \o <<>> = <<"torn">>
        OBVIOUS
      <4> QED
        BY <2>1, <4>1, <4>3, <4>4 DEF TalkShaken
    <3> QED
      BY <2>1, <3>1 DEF TalkShaken
  <2>5. TalkBound'
    <3>1. CASE phase = "bound"
      <4>1. Tail(inbox) \in Seq(Replies \ {"HANDSHAKE"})
        BY <2>2, <3>1, SeqSteps DEF IInv, Talk, TalkBound
      <4>2. inbox' \in Seq(Replies \ {"HANDSHAKE"})
        BY <2>2, <4>1 DEF Replies
      <4> QED
        BY <2>1, <4>2 DEF IInv, Talk, TalkBound
    <3> QED
      BY <2>1, <3>1 DEF TalkBound
  <2>6. Talk'
    BY <2>1, <2>2, <2>4, <2>5 DEF IInv, Talk, TalkNew, ServerNotConfused
  <2>7. Step'
    BY <2>1, <2>2 DEF IInv, Step, StepGreet, StepGreeted, StepBind, StepBound, StepDone
  <2> QED
    BY <2>1, <2>3, <2>6, <2>7, NetworkStep DEF IInv, Values
<1>5. ASSUME NEW msg \in {"oversized", "PUSH"}, ServerSends(msg)
      PROVE  IInv'
  <2>1. /\ UNCHANGED <<link, wire, phase>> /\ Network /\ status' = status
        /\ phase = "bound" /\ inbox' = Append(inbox, msg)
    BY <1>5 DEF ServerSends, Network, own
  <2>2. inbox \in Seq(Replies) /\ inbox \in Seq(Replies \ {"HANDSHAKE"})
    BY <2>1 DEF IInv, Values, Talk, TalkBound
  <2>3. msg \in Replies /\ msg \in Replies \ {"HANDSHAKE"}
    BY DEF Replies
  <2>4. inbox' \in Seq(Replies) /\ inbox' \in Seq(Replies \ {"HANDSHAKE"})
    BY <2>1, <2>2, <2>3, SeqSteps
  <2>5. Talk'
    BY <2>1, <2>4 DEF IInv, Talk, TalkNew, TalkShaken, TalkBound, ServerNotConfused
  <2>6. Step'
    BY <2>1 DEF IInv, Step, StepGreet, StepGreeted, StepBind, StepBound, StepDone
  <2> QED
    BY <2>1, <2>4, <2>5, <2>6, NetworkStep DEF IInv, Values
<1>6. CASE ServerReads
  BY <1>6, ServerReadsStep
<1> QED
  BY <1>1, <1>2, <1>3, <1>4, <1>5, <1>6 DEF Outside

\* Every turn of the service keeps the invariant.
LEMMA TurnStep ==
  ASSUME IInv, Turn
  PROVE  IInv'
<1>1. ASSUME NEW ok \in BOOLEAN, Connecting(ok) \/ HangUp
      PROVE  IInv'
  BY <1>1, SocketActions
<1>2. ASSUME NEW ok \in BOOLEAN, NEW answer \in {"servers", "nobody", "failed"},
             \/ GetLicense(ok) \/ GetOfflineMsg(ok) \/ NoAuthParams
             \/ UpdateDeviceInfo(ok, answer) \/ GetServerList(answer)
      PROVE  IInv'
  BY <1>2, ReadyActions
<1>3. CASE Handshaking \/ Binding \/ AwaitReply \/ GoOn \/ Connected
  BY <1>3, HandshakingStep, BindingStep, AwaitReplyStep, GoOnStep, ConnectedStep
<1> QED
  BY <1>1, <1>2, <1>3 DEF Turn

\* Every step keeps the invariant.
LEMMA Inductive == IInv /\ [Next]_vars => IInv'
<1> SUFFICES ASSUME IInv, [Next]_vars PROVE IInv'
  OBVIOUS
<1>1. CASE Next
  BY <1>1, NextParts, TurnStep, CallbackStep, OutsideStep
<1>2. CASE UNCHANGED vars
  <2>1. Flags'
    BY <1>2, Zenon DEF vars, own, timers, bus, IInv, Flags
  <2>2. UNCHANGED <<own, net>> /\ wifi' = wifi
    BY <1>2 DEF vars, bus
  <2> QED
    BY <2>1, <2>2, AsideStep DEF IInv, Values
<1> QED
  BY <1>1, <1>2

\* The invariant holds in every reachable state.
LEMMA Invariance == Spec => []IInv
  BY InitInv, Inductive, PTL DEF Spec
-----------------------------------------------------------------------------
\* Every variable of the push client always has a value of its type.
THEOREM TypeCorrect == Spec => []TypeOK
<1>1. IInv => TypeOK
  BY TypesInHalves DEF IInv
<1> QED
  BY <1>1, Invariance, PTL

(* mpush_is_connected tells the truth: in BINDING_OK and CONNECTED the     *)
(* server of the current connection has taken the handshake and the bind.  *)
THEOREM ConnectedIsBound == Spec => []BoundBeforeConnected
<1>1. IInv => BoundBeforeConnected
  BY DEF IInv, SocketKnown, Step, StepDone, BoundBeforeConnected, OnConnection
<1> QED
  BY <1>1, Invariance, PTL

(* On every connection a server sees one handshake, then one bind, then    *)
(* only heartbeats and acknowledgements.                                   *)
THEOREM ProtocolIsKept == Spec => []ServerNotConfused
<1>1. IInv => ServerNotConfused
  BY DEF IInv, Talk
<1> QED
  BY <1>1, Invariance, PTL

(* The service never has a socket open that server_sock does not hold.     *)
THEOREM SocketsDoNotLeak == Spec => []OneSocket
<1>1. IInv => OneSocket
  BY DEF IInv
<1> QED
  BY <1>1, Invariance, PTL
=============================================================================
