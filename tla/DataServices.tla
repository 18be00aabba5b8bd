---------------------------- MODULE DataServices ----------------------------
(***************************************************************************)
(* The services that bring data to the toy or keep it: the requests to the *)
(* cloud and to the maker, the media by their sources, the push client's   *)
(* stream, the firmware, the discovery in the local network, the start of  *)
(* all of them, the play buffer and the parameters in flash.               *)
(*                                                                         *)
(* Each is a module of its own.  The play buffer and the parameters have   *)
(* their variables, the others share s1, s2, ...: Services lets one of     *)
(* them run at a time.                                                     *)
(***************************************************************************)
EXTENDS MediaPlayBuffer, FlashParams, Shared

CONSTANTS
    Descriptors, INVALID_SOCK, Zero,   \* sockets
    CloudAddresses, MaxAddresses,
    MaxPackets, MaxReads,              \* AsrRequest
    MAX_RETRY_SEND_TIMES, MAX_RETRY_RECV_TIMES,
    PAGE_SIZE, OTA_UPGRADE_AREA_SIZE, OtaHeader, MaxImage,
    MaxFailures,                       \* StartUp
    PushHeader, PushBody, PushQueue, MaxSent,
    FRAME_SIZE, MIN_ID3V2_LENGTH, WAV_HEADER, VOICE_FRAME, UrlPieces, Offered,
    QueueMax, MaxMedia, MaxCuts        \* MediaData

ASSUME SocketAssumption ==
    /\ INVALID_SOCK \notin Descriptors /\ Zero \notin Descriptors
    /\ CloudAddresses \in Nat /\ MaxAddresses \in Nat
ASSUME SpeechAssumption == MaxPackets \in Nat /\ MaxReads \in Nat
ASSUME AuthorizeAssumption ==
    MAX_RETRY_SEND_TIMES \in Nat \ {0} /\ MAX_RETRY_RECV_TIMES \in Nat
\* A part of the image is less than a page and no longer than an image.
ASSUME OtaAssumption ==
    /\ PAGE_SIZE \in Nat \ {0} /\ OTA_UPGRADE_AREA_SIZE \in Nat
    \* the partition is made of whole pages (0x1F4000 bytes, 1024 of them each)
    /\ \E pages \in 0 .. OTA_UPGRADE_AREA_SIZE : OTA_UPGRADE_AREA_SIZE = pages * PAGE_SIZE
    /\ MaxImage \in Nat /\ OtaHeader \in 0 .. MaxImage /\ PAGE_SIZE - 1 <= MaxImage
\* A body has at least a byte, so that its message is not taken for an empty one.
ASSUME PushAssumption ==
    PushHeader \in Nat \ {0} /\ PushBody \in Nat \ {0} /\ PushQueue \in Nat /\ MaxSent \in Nat
\* A piece is no longer than a frame, which holds a header; a decoded piece of a
\* voice is longer than the header.
ASSUME MediaAssumption ==
    /\ FRAME_SIZE \in Nat /\ MIN_ID3V2_LENGTH \in Nat /\ WAV_HEADER \in 1..FRAME_SIZE
    /\ VOICE_FRAME \in Nat /\ VOICE_FRAME > WAV_HEADER /\ UrlPieces \subseteq 1..FRAME_SIZE
    /\ \A m \in Offered :
          m.source \in {"url", "file", "data", "magic"} /\ m.len \in Nat /\ m.front \in Nat
    /\ QueueMax \in Nat /\ MaxMedia \in Nat /\ MaxCuts \in Nat

Cloud == INSTANCE CloudRequest WITH
    MaxAddresses <- CloudAddresses, open <- s1, sock <- s2, badly <- s3,
    addrs <- s4, peer <- s5, todo <- s6, moved <- s7, at <- s8, kind <- s9,
    handle <- s10, memory <- s11, json <- s12, packet <- s13, sent <- s14,
    answer <- s15, wechat <- s16, code <- s17, output <- s18
Speech == INSTANCE AsrRequest WITH
    open <- s1, sock <- s2, badly <- s3, addrs <- s4, peer <- s5,
    todo <- s6, moved <- s7, at <- s8, memory <- s9, tree <- s10,
    udid <- s11, index <- s12, call <- s13, goes <- s14, anew <- s15,
    reads <- s16, mode <- s17, code <- s18, text <- s19, heard <- s20
Auth == INSTANCE Authorize WITH
    open <- s1, sock <- s2, badly <- s3, addrs <- s4, peer <- s5,
    todo <- s6, moved <- s7, auth_state <- s8, is_authorized <- s9,
    retry_recv <- s10, tries <- s11, shows <- s12, stage <- s13,
    license <- s14, answered <- s15
Ota == INSTANCE OtaUpdate WITH
    HeaderSize <- OtaHeader, open <- s1, sock <- s2, badly <- s3,
    addrs <- s4, peer <- s5, todo <- s6, moved <- s7, at <- s8, dcl <- s9,
    cache <- s10, last_addr <- s11, flash <- s12, total_len <- s13,
    firmware_len <- s14, refused <- s15
Lan == INSTANCE LanDiscovery WITH
    open <- s1, sock <- s2, badly <- s3, addrs <- s4, peer <- s5,
    todo <- s6, moved <- s7, discovery_status <- s8, is_connected <- s9,
    theirs <- s10
Starting == INSTANCE StartUp WITH
    boot <- s1, handle <- s2, lock <- s3, task <- s4, inbox <- s5,
    talkKey <- s6, updating <- s7, request <- s8, failed <- s9
Push == INSTANCE PushStream WITH
    HeaderLen <- PushHeader, BodyLen <- PushBody, QueueMax <- PushQueue,
    kinds <- s1, wire <- s2, stage <- s3, got <- s4, want <- s5,
    push <- s6, wchat <- s7, songs <- s8, acks <- s9, heard <- s10,
    due <- s11, lost <- s12
Data == INSTANCE MediaData WITH
    asked <- s1, cuts <- s2, medium <- s3, position <- s4, phase <- s5,
    at <- s6, begun <- s7, carry <- s8, stop <- s9, out <- s10,
    queue <- s11, status <- s12, written <- s13, finished <- s14,
    ends <- s15, kept <- s16, keptSize <- s17, heard <- s18, again <- s19,
    past <- s20, early <- s21
=============================================================================
