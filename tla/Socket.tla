-------------------------------- MODULE Socket --------------------------------
(***************************************************************************)
(* The sockets of the platform layer (src/deepbrain/components/            *)
(* sdk_interfaces/socket_interface.cpp) as one thread uses them: it         *)
(* connects to the addresses of a host one after the other, writes and     *)
(* reads in pieces, and closes.                                            *)
(*                                                                         *)
(* Two kinds of loops move the pieces: those with a time limit leave when  *)
(* it has passed, when select fails and when the other side has closed;    *)
(* those without one leave only when everything was moved or the other     *)
(* side has closed, and repeat a call that failed.                         *)
(***************************************************************************)
EXTENDS Integers, FiniteSets

CONSTANTS
    Descriptors,  \* what socket() hands out
    INVALID_SOCK, \* the value of a handle without a socket, no descriptor
    MaxAddresses  \* addresses getaddrinfo finds for a host

VARIABLES
    open,    \* descriptors that are open
    sock,    \* the handle the caller keeps
    badly,   \* a descriptor was closed that was not open
    addrs,   \* addresses that were not tried yet
    peer,    \* the other side: "alive", "closed" or "reset"
    todo,    \* pieces the call under way still has to move
    moved    \* pieces it has moved

socketVars == <<open, sock, badly, addrs, peer, todo, moved>>
ends == <<sock, addrs, peer>>
pieces == <<todo, moved>>

SocketInit ==
    /\ open = {} /\ sock = INVALID_SOCK /\ badly = FALSE
    /\ addrs = 0 /\ peer = "alive" /\ todo = 0 /\ moved = 0
-----------------------------------------------------------------------------
(* The address of a service: http://domain[:port][/params].                *)

\* sock_get_server_info: the parts of an url, or "-1" for one that does not
\* begin with http:// or ends there.
ServerInfo(url) ==
    IF url.scheme # "http://" \/ url.domain = ""
      THEN [ret |-> -1]
      ELSE [ret |-> 0, domain |-> url.domain,
            port |-> IF url.port = "" THEN "80" ELSE url.port,
            params |-> url.params]
-----------------------------------------------------------------------------
(* Connecting.                                                             *)

\* getaddrinfo: an error gives no address.
FindAddresses ==
    /\ addrs' \in 0 .. MaxAddresses
    /\ UNCHANGED <<open, sock, badly, peer, pieces>>

\* socket() fails when all descriptors are open.
NoDescriptor == open = Descriptors
Fresh(s) == s \in Descriptors \ open

\* One address: the connection is there, at once or when select reports the
\* descriptor writable and nothing else within two seconds.
AddressAnswers ==
    /\ addrs > 0
    /\ \E s \in Descriptors : Fresh(s) /\ open' = open \cup {s} /\ sock' = s
    /\ addrs' = 0 /\ peer' = "alive"
    /\ UNCHANGED <<badly, pieces>>
\* The socket of an address that does not answer stays open.
AddressFailsLeak ==
    /\ addrs > 0 /\ addrs' = addrs - 1
    /\ \E s \in Descriptors : Fresh(s) /\ open' = open \cup {s}
    /\ UNCHANGED <<sock, badly, peer, pieces>>
\* Or it is refused, unreachable or silent, or there is no descriptor: its
\* socket is closed again and the next address has its turn.
AddressFails ==
    /\ addrs > 0 /\ addrs' = addrs - 1
    /\ UNCHANGED <<open, sock, badly, peer, pieces>>
NoAddressLeft == addrs = 0

\* sock_close
Close(s) ==
    /\ open' = open \ {s}
    /\ badly' = (badly \/ s \notin open)
-----------------------------------------------------------------------------
(* Moving pieces.                                                          *)
Moves(n) == todo' = n /\ moved' = 0
APiece == /\ todo > 0 /\ todo' = todo - 1 /\ moved' = moved + 1
          /\ UNCHANGED <<open, badly, ends>>

\* The other side may end the connection between any two pieces.
PeerEnds ==
    /\ sock # INVALID_SOCK /\ peer = "alive"
    /\ peer' \in {"closed", "reset"}
    /\ UNCHANGED <<open, sock, badly, addrs, pieces>>

\* sock_readn_with_timeout, sock_writen_with_timeout: ready when all is moved,
\* and at any time before, because the limit may have passed.
EndsInTime == TRUE
\* sock_readn, sock_writen, sock_write: a call that failed is repeated.
EndsWhenMoved == todo = 0 \/ peer = "closed"

SocketTypeOK ==
    /\ open \subseteq Descriptors /\ sock \in Descriptors \cup {INVALID_SOCK}
    /\ badly \in BOOLEAN /\ addrs \in 0 .. MaxAddresses
    /\ peer \in {"alive", "closed", "reset"} /\ todo \in Nat /\ moved \in Nat
=============================================================================
