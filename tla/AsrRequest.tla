------------------------------ MODULE AsrRequest ------------------------------
(***************************************************************************)
(* The cloud session of a spoken question (src/deepbrain/components/DCL/   *)
(* asr/dcl_asr_api.cpp) as the speech service's thread calls it: begin,    *)
(* one packet for every piece of speech, an empty packet with a negative   *)
(* index that asks for the answer, end.  A packet that cannot be written   *)
(* in two goes is written once more on a new connection, and given up.     *)
(***************************************************************************)
EXTENDS Socket, Sequences

CONSTANTS
    MaxPackets,  \* bound: packets with speech of a session
    MaxReads     \* reads of 100 ms for the answer (50 in the code)

VARIABLES
    at,       \* the step of the call under way, or "idle"
    memory,   \* handles allocated and not freed
    tree,     \* http_buffer->cjson is set
    udid,     \* http_buffer->udid is set: the session has a name
    index,    \* http_buffer->index
    call,     \* what the packet is sent for: "audio" or "result"
    goes,     \* send_count
    anew,     \* the packet is sent on a new connection
    reads,    \* loop_num
    mode,     \* asr_params->asr_mode
    code,     \* of the last call
    text,     \* asr_result was written
    heard     \* history: the packets the server got, by their index

sending == <<udid, index, call, goes, anew, heard>>
receiving == <<tree, reads, code, text>>
asrVars == <<socketVars, at, memory, mode, sending, receiving>>

Init ==
    /\ SocketInit
    /\ at = "idle" /\ memory = 0 /\ tree = FALSE /\ udid = FALSE /\ index = 0
    /\ call = "none" /\ goes = 0 /\ anew = FALSE /\ reads = 0 /\ mode = "ASR"
    /\ code = "OK" /\ text = FALSE /\ heard = <<>>
-----------------------------------------------------------------------------
(* dcl_asr_session_begin and dcl_asr_session_end; connecting.              *)
SessionBegin ==
    /\ at = "idle" /\ memory = 0
    /\ \/ code' = "SYS_NOT_ENOUGH_MEM" /\ UNCHANGED <<socketVars, at, memory>>
       \/ memory' = 1 /\ at' = "connect" /\ FindAddresses /\ UNCHANGED code
    /\ udid' = FALSE /\ index' = 0 /\ call' = "none" /\ heard' = <<>>
    /\ goes' = 0 /\ anew' = FALSE /\ text' = FALSE /\ mode' = "ASR"
    /\ UNCHANGED <<tree, reads>>
NextAddress ==
    /\ at \in {"connect", "reconnect"} /\ AddressFails
    /\ UNCHANGED <<at, memory, mode, sending, receiving>>
BeginConnected ==
    /\ at = "connect" /\ AddressAnswers /\ at' = "idle" /\ code' = "OK"
    /\ UNCHANGED <<memory, mode, sending, tree, reads, text>>
BeginFails ==
    /\ at = "connect" /\ NoAddressLeft
    /\ at' = "idle" /\ memory' = 0 /\ code' = "NETWORK_UNAVAILABLE"
    /\ UNCHANGED <<socketVars, mode, sending, tree, reads, text>>

\* dcl_asr_set_param: the mode is set once, after the session began.
SetParam ==
    /\ at = "idle" /\ memory = 1 /\ ~udid /\ mode' \in {"ASR", "NLP"}
    /\ UNCHANGED <<socketVars, at, memory, sending, receiving>>

\* The service ends the session when it likes.
SessionEnd ==
    /\ at = "idle" /\ memory = 1 /\ memory' = 0 /\ tree' = FALSE
    /\ IF sock = INVALID_SOCK
         THEN UNCHANGED <<open, badly, sock>>
         ELSE Close(sock) /\ sock' = INVALID_SOCK
    /\ UNCHANGED <<addrs, peer, pieces, at, mode, sending, reads, code, text>>
-----------------------------------------------------------------------------
(* Sending.                                                                *)

\* dcl_asr_write_packet: the first packet of a session is number one, whatever
\* index was; negative indices count on downwards.
Numbered(i) == LET n == IF udid THEN i ELSE 0 IN IF n >= 0 THEN n + 1 ELSE n - 1
WritePacket(i, why) ==
    /\ at' = "send" /\ call' = why /\ index' = Numbered(i) /\ udid' = TRUE
    /\ goes' = 1 /\ anew' = FALSE /\ Moves(2)
    /\ UNCHANGED <<open, badly, ends, memory, mode, heard>>

\* dcl_asr_audio_write
AudioWrite ==
    /\ at = "idle" /\ memory = 1 /\ call # "result" /\ index < MaxPackets
    /\ WritePacket(index, "audio")
    /\ UNCHANGED receiving
\* dcl_asr_get_result, up to its packet
GetResult ==
    /\ at = "idle" /\ memory = 1 /\ call # "result"
    /\ WritePacket(-index, "result")
    /\ reads' = MaxReads /\ UNCHANGED <<tree, code, text>>

SendsPiece ==
    /\ at = "send" /\ sock # INVALID_SOCK /\ peer # "reset" /\ APiece
    /\ UNCHANGED <<at, memory, mode, sending, receiving>>

\* dcl_asr_send_recv_packet drops the answers to packets with speech, and
\* dcl_asr_audio_write does not look at what it returned.
Afterwards == at' = IF call = "audio" THEN "idle" ELSE "receive"

\* dcl_asr_send: a second go writes what is left, unless the connection was
\* reset.
\* The second go begins with the packet's first byte.
SendEndsRepeats ==
    /\ at = "send" /\ EndsInTime
    /\ IF todo = 0
         THEN /\ Afterwards /\ heard' = heard \o [i \in 1 .. goes |-> index]
              /\ UNCHANGED <<socketVars, goes>>
         ELSE IF goes = 1 /\ peer # "reset"
           THEN goes' = 2 /\ Moves(2) /\ UNCHANGED <<open, badly, ends, at, heard>>
         ELSE (IF anew THEN Afterwards ELSE at' = "close")
              /\ UNCHANGED <<socketVars, goes, heard>>
    /\ UNCHANGED <<memory, mode, udid, index, call, anew, receiving>>
SendEnds ==
    /\ at = "send" /\ EndsInTime
    /\ IF todo = 0
         THEN Afterwards /\ heard' = Append(heard, index) /\ UNCHANGED goes
         ELSE IF goes = 1 /\ peer # "reset"
           THEN goes' = 2 /\ UNCHANGED <<at, heard>>
         ELSE (IF anew THEN Afterwards ELSE at' = "close") /\ UNCHANGED <<goes, heard>>
    /\ UNCHANGED <<socketVars, memory, mode, udid, index, call, anew, receiving>>

\* dcl_asr_reconnect; a session without a connection has nothing to close.
\* The old connection is forgotten.
ReconnectLeaks ==
    /\ at = "close" /\ at' = "reconnect" /\ sock' = INVALID_SOCK
    /\ addrs' \in 0 .. MaxAddresses
    /\ UNCHANGED <<open, badly, peer, pieces, memory, mode, sending, receiving>>
Reconnect ==
    /\ at = "close" /\ at' = "reconnect"
    /\ IF sock = INVALID_SOCK THEN UNCHANGED <<open, badly>> ELSE Close(sock)
    /\ sock' = INVALID_SOCK /\ addrs' \in 0 .. MaxAddresses
    /\ UNCHANGED <<peer, pieces, memory, mode, sending, receiving>>
Reconnected ==
    /\ at = "reconnect" /\ addrs > 0
    /\ \E s \in Descriptors : Fresh(s) /\ open' = open \cup {s} /\ sock' = s
    /\ addrs' = 0 /\ peer' = "alive" /\ at' = "send" /\ anew' = TRUE /\ goes' = 1
    /\ Moves(2)
    /\ UNCHANGED <<badly, memory, mode, udid, index, call, heard, receiving>>
NotReconnected ==
    /\ at = "reconnect" /\ NoAddressLeft /\ Afterwards
    /\ UNCHANGED <<socketVars, memory, mode, sending, receiving>>

ConnectionEnds == PeerEnds /\ UNCHANGED <<at, memory, mode, sending, receiving>>
-----------------------------------------------------------------------------
(* Receiving.  The answer has a head, the beginning of a tree and its end. *)

\* One read of 100 ms: what came before the tree begins is overwritten by the
\* next; a tree that is not whole is read to its end in one more.
ReceiveRead ==
    /\ at = "receive" /\ reads > 0
    /\ \E n \in 0 .. 3 :
          /\ sock = INVALID_SOCK => n = 0
          /\ IF n >= 2
               THEN /\ at' = "decode" /\ reads' = reads - 1
                    /\ \E whole \in BOOLEAN : tree' = (n = 3 \/ whole)
               ELSE at' = "receive" /\ reads' = reads - 1 /\ UNCHANGED tree
    /\ UNCHANGED <<socketVars, memory, mode, sending, code, text>>
ReceiveGivesUp ==
    /\ at = "receive" /\ reads = 0 /\ at' = "decode"
    /\ UNCHANGED <<socketVars, memory, mode, sending, receiving>>

\* dcl_asr_decode_packet: a question without a Result is well.
DecodePacket ==
    /\ at = "decode" /\ at' = "idle"
    /\ IF ~tree
         THEN code' = "NETWORK_POOR" /\ UNCHANGED text
         ELSE \E good \in SUBSET {"responseHead", "asrData", "Result", "statusCode"} :
              LET needed == {"responseHead"} \cup (IF mode = "ASR" THEN {"asrData"} ELSE {"statusCode"})
              IN IF needed \subseteq good
                   THEN code' = "OK" /\ text' = (mode # "ASR" \/ "Result" \in good)
                   ELSE code' = "SERVER_ERROR" /\ UNCHANGED text
    /\ UNCHANGED <<socketVars, memory, mode, sending, tree, reads>>

Progress ==
    \/ NextAddress \/ BeginConnected \/ BeginFails \/ SendsPiece \/ SendEnds
    \/ Reconnect \/ Reconnected \/ NotReconnected \/ ReceiveRead \/ ReceiveGivesUp
    \/ DecodePacket
Next == SessionBegin \/ SetParam \/ AudioWrite \/ GetResult \/ SessionEnd
        \/ ConnectionEnds \/ Progress

Spec == Init /\ [][Next]_asrVars
-----------------------------------------------------------------------------
AsrTypeOK ==
    /\ SocketTypeOK
    /\ at \in {"idle", "connect", "send", "close", "reconnect", "receive", "decode"}
    /\ memory \in 0 .. 1 /\ tree \in BOOLEAN /\ udid \in BOOLEAN
    /\ index \in -(MaxPackets + 1) .. MaxPackets + 1
    /\ call \in {"none", "audio", "result"} /\ goes \in 0 .. 2 /\ anew \in BOOLEAN
    /\ reads \in 0 .. MaxReads /\ mode \in {"ASR", "NLP"} /\ text \in BOOLEAN

Abs(i) == IF i < 0 THEN -i ELSE i

\* Broken connections lose packets, but the server hears each at most once, in
\* the order the child spoke, and nothing after the packet that asks for the
\* answer (the packet is begun again after dcl_asr_reconnect, and written on
\* from where it stood in a second go).
SpeechIsHeardInOrder ==
    \A i, j \in 1 .. Len(heard) :
        i < j => Abs(heard[i]) < Abs(heard[j]) /\ heard[i] > 0

\* A session holds one connection, through all reconnections, and nothing is
\* left of it at its end; a text is only there with an answer.
SessionHasOneConnection ==
    /\ ~badly /\ open \subseteq {sock}
    /\ memory = 0 => open = {} /\ ~tree
    /\ text => tree \/ memory = 0
-----------------------------------------------------------------------------
(* What the connection, the packet under way and the answer are in a       *)
(* session; the two properties follow.                                     *)
OneConnection ==
    /\ ~badly /\ open = {sock} \ {INVALID_SOCK}
    /\ memory = 0 => at = "idle" /\ sock = INVALID_SOCK /\ ~tree
    /\ at \in {"connect", "reconnect"} => sock = INVALID_SOCK
    /\ at = "connect" => ~tree
TextHasItsTree == text /\ memory = 1 => at = "idle" /\ call = "result" /\ tree
InFlight == at \in {"send", "close", "reconnect"}
CountsPackets ==
    /\ call # "result" => index \in 0 .. MaxPackets
    /\ InFlight => udid /\ call # "none" /\ index # 0
    /\ at \in {"receive", "decode"} => call = "result"
    /\ ~udid => heard = <<>>
\* The packet under way was not heard, the earlier ones come before it.
HeardBefore ==
    /\ heard \in Seq(Int)
    /\ \A i \in 1 .. Len(heard) :
         /\ IF InFlight THEN Abs(heard[i]) < Abs(index) ELSE Abs(heard[i]) <= Abs(index)
         /\ call # "result" \/ InFlight => heard[i] > 0

AsrInv == /\ AsrTypeOK /\ OneConnection /\ TextHasItsTree
          /\ CountsPackets /\ HeardBefore /\ SpeechIsHeardInOrder
=============================================================================
