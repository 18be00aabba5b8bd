------------------------------- MODULE Authorize -------------------------------
(***************************************************************************)
(* The authorization by the maker (src/main/yt_src/authorize): when wifi   *)
(* is up the toy sends a packet to the maker's server, asks for a license  *)
(* with the first and shows it with the later ones, and keeps what comes   *)
(* back in flash.  One thread does it all, between the messages of the     *)
(* bus; it is blocked while it tries.  A toy that was refused does not     *)
(* listen to the child any more.                                           *)
(***************************************************************************)
EXTENDS Socket

CONSTANTS
    MAX_RETRY_SEND_TIMES,  \* requests sent in vain, 6 s apart
    MAX_RETRY_RECV_TIMES   \* answers missed, 8 s apart

VARIABLES
    auth_state,     \* without the prefix AUTH_STAUTS_
    is_authorized,
    retry_recv,     \* youngtone_authorize_process
    tries,          \* i: requests of this round that failed
    shows,          \* the packet: 0 asks for a license, 1 shows it, 2 confirms
    stage,          \* the request under way: "none", "closing",
                    \* "closed" or "connected"
    license,        \* auth_info.flag in flash
    answered        \* history: the last answer that was read was good

request == <<tries, shows, stage>>
authVars == <<socketVars, auth_state, is_authorized, retry_recv, request, license, answered>>

Init ==
    /\ SocketInit
    /\ auth_state = "IDLE" /\ is_authorized = TRUE /\ retry_recv = 0
    /\ tries = 0 /\ shows = 0 /\ stage = "none" /\ license \in BOOLEAN
    /\ answered = FALSE
-----------------------------------------------------------------------------
(* The socket.                                                             *)
Idle == stage = "none"
SockKeeps == UNCHANGED <<addrs, peer, pieces>>

\* The old connection is forgotten.
ForgetServerSock == sock' = INVALID_SOCK /\ UNCHANGED <<open, badly>>

\* youngtone_authorize_close
CloseServerSock ==
    IF sock = INVALID_SOCK
      THEN UNCHANGED <<open, badly, sock>>
      ELSE Close(sock) /\ sock' = INVALID_SOCK

\* youngtone_auth_send_request: an old connection is closed first, ...
RequestCloses ==
    /\ stage = "closing" /\ stage' = "closed" /\ CloseServerSock /\ SockKeeps
    /\ UNCHANGED <<auth_state, is_authorized, retry_recv, tries, shows, license, answered>>
\* ... the new one may not come, ...
RequestConnects ==
    /\ stage = "closed" /\ stage' = "connected"
    /\ \E s \in Descriptors : Fresh(s) /\ open' = open \cup {s} /\ sock' = s
    /\ UNCHANGED badly /\ SockKeeps
    /\ UNCHANGED <<auth_state, is_authorized, retry_recv, tries, shows, license, answered>>
\* ... or not take the packet in six seconds; the connection of a request that
\* failed stays open until the next one.
RequestDone ==
    /\ stage = "connected" /\ stage' = "none"
    /\ IF shows = 2
         THEN /\ CloseServerSock /\ auth_state' = "SUCCESS"
              /\ is_authorized' = TRUE /\ retry_recv' = 0
         ELSE auth_state' = "WAIT" /\ UNCHANGED <<open, badly, sock, is_authorized, retry_recv>>
    /\ SockKeeps /\ UNCHANGED <<tries, shows, license, answered>>
GiveUpInit == /\ auth_state' = "IDLE" /\ is_authorized' = FALSE /\ CloseServerSock
              /\ UNCHANGED retry_recv
Success == /\ auth_state' = "SUCCESS" /\ is_authorized' = TRUE /\ CloseServerSock
           /\ retry_recv' = 0
\* The tries are not counted.
RequestFailsForEver ==
    /\ stage \in {"closed", "connected"} /\ stage' = "closing"
    /\ UNCHANGED <<socketVars, auth_state, is_authorized, retry_recv, tries, shows, license, answered>>
RequestFails ==
    /\ stage \in {"closed", "connected"} /\ tries' = tries + 1
    /\ IF tries' < MAX_RETRY_SEND_TIMES
         THEN /\ stage' = "closing"
              /\ UNCHANGED <<open, badly, sock, auth_state, is_authorized, retry_recv>>
         ELSE /\ stage' = "none"
              /\ IF shows = 2 THEN Success ELSE GiveUpInit
    /\ SockKeeps /\ UNCHANGED <<shows, license, answered>>
-----------------------------------------------------------------------------
(* youngtone_authorize_process, every 500 ms.                              *)
StartsRequest(kind) == stage' = "closing" /\ shows' = kind /\ tries' = 0

\* AUTH_STAUTS_INIT: youngtone_authorize_start
AuthorizeStart ==
    /\ Idle /\ auth_state = "INIT"
    /\ StartsRequest(IF license THEN 1 ELSE 0)
    /\ UNCHANGED <<socketVars, auth_state, is_authorized, retry_recv, license, answered>>

\* AUTH_STAUTS_WAIT: youngtone_authorize_recv reads 97 bytes in five seconds
\* and checks them; a good packet is saved, which may fail without notice, and
\* confirmed, whether the confirmation gets there or not.
AuthorizeRecv ==
    /\ Idle /\ auth_state = "WAIT"
    /\ StartsRequest(2) /\ answered' = TRUE
    /\ license' \in {license, TRUE}
    /\ UNCHANGED <<socketVars, auth_state, is_authorized, retry_recv>>
\* An answer that is missed, short, wrong or a refusal: the request is sent
\* again, twice.
\* The round is not counted.
AuthorizeRecvAgain ==
    /\ Idle /\ auth_state = "WAIT" /\ CloseServerSock /\ SockKeeps
    /\ auth_state' = "INIT" /\ answered' = FALSE
    /\ UNCHANGED <<is_authorized, retry_recv, request, license>>
AuthorizeRecvFails ==
    /\ Idle /\ auth_state = "WAIT" /\ CloseServerSock /\ SockKeeps
    /\ IF retry_recv < MAX_RETRY_RECV_TIMES
         THEN retry_recv' = retry_recv + 1 /\ auth_state' = "INIT" /\ UNCHANGED is_authorized
         ELSE retry_recv' = 0 /\ auth_state' = "IDLE" /\ is_authorized' = FALSE
    /\ answered' = FALSE /\ UNCHANGED <<request, license>>

\* auth_event_callback: wifi is up.
WifiConnected ==
    /\ Idle /\ auth_state = "IDLE" /\ auth_state' = "INIT"
    /\ UNCHANGED <<socketVars, is_authorized, retry_recv, request, license, answered>>

Process == \/ AuthorizeStart \/ AuthorizeRecv \/ AuthorizeRecvFails
           \/ RequestCloses \/ RequestConnects \/ RequestDone \/ RequestFails
Next == Process \/ WifiConnected
Spec == Init /\ [][Next]_authVars
-----------------------------------------------------------------------------
AuthTypeOK ==
    /\ SocketTypeOK
    /\ auth_state \in {"IDLE", "INIT", "WAIT", "SUCCESS"} /\ is_authorized \in BOOLEAN
    /\ retry_recv \in 0 .. MAX_RETRY_RECV_TIMES /\ tries \in 0 .. MAX_RETRY_SEND_TIMES
    /\ shows \in 0 .. 2 /\ stage \in {"none", "closing", "closed", "connected"}
    /\ license \in BOOLEAN /\ answered \in BOOLEAN

\* Through all rounds and retries one connection at a time, none when the
\* service rests; a toy that may talk after it asked was told so by an answer
\* that passed the checks, or is still asking.
AuthorizationIsOrderly ==
    /\ ~badly /\ open = {sock} \ {INVALID_SOCK}
    /\ auth_state \in {"IDLE", "SUCCESS"} => open = {}
    /\ auth_state = "SUCCESS" => answered /\ is_authorized
    /\ auth_state = "WAIT" /\ Idle => open # {}

\* After it has begun the service comes to an answer for the child: allowed or
\* not (the counts of youngtone_authorize_process).
AuthorizationEnds == auth_state = "INIT" ~> Idle /\ auth_state \in {"IDLE", "SUCCESS"}
-----------------------------------------------------------------------------
(* Where the request stands decides which socket there is.                 *)
OneSocket ==
    /\ ~badly /\ open = {sock} \ {INVALID_SOCK}
    /\ auth_state \in {"IDLE", "SUCCESS"} => sock = INVALID_SOCK
    /\ stage = "closed" => sock = INVALID_SOCK
    /\ stage = "connected" => sock # INVALID_SOCK
    /\ auth_state = "WAIT" /\ Idle => sock # INVALID_SOCK
RequestFitsState ==
    /\ ~Idle => auth_state \in {"INIT", "WAIT"} /\ tries < MAX_RETRY_SEND_TIMES
    /\ ~Idle /\ shows = 2 => answered
    /\ auth_state = "SUCCESS" => answered /\ is_authorized

AuthInv == AuthTypeOK /\ OneSocket /\ RequestFitsState
=============================================================================
