------------------------------- MODULE OtaUpdate -------------------------------
(***************************************************************************)
(* The update of the firmware (src/deepbrain/apps/ota_service): when wifi  *)
(* is up the service asks whether there is another version, silences the   *)
(* toy, takes the image from a server into a partition of the flash, page  *)
(* by page, and starts the toy again with it.                              *)
(*                                                                         *)
(* A byte of the image is its place in the image; the flash is a function  *)
(* from the address of a page to the bytes of it.                          *)
(***************************************************************************)
EXTENDS Socket, Sequences

CONSTANTS
    PAGE_SIZE,              \* bytes of a page (1024)
    OTA_UPGRADE_AREA_SIZE,  \* bytes of the partition
    HeaderSize,             \* sizeof(OTA_PACK_HEADER_t)
    MaxImage                \* bound: bytes of an image

VARIABLES
    at,         \* the step of the service, "idle" between two messages
    dcl,        \* yt_dcl_start was called last, not yt_dcl_stop
    cache,      \* the bytes of cache, left_size of them
    last_addr,
    flash,      \* the pages written since the partition was begun
    total_len,
    firmware_len, \* *_out_firmware_len: the bytes of the body that came
    refused     \* history: images for which the partition could not be begun

image == <<cache, last_addr, flash, total_len, firmware_len>>
otaVars == <<socketVars, at, dcl, image, refused>>

Erased == <<>>
Bytes(first, n) == [i \in 1 .. n |-> first + i - 1]
\* str_buf takes one byte less than a page
BufferSize == PAGE_SIZE - 1

Init ==
    /\ SocketInit
    /\ at = "idle" /\ dcl = TRUE /\ refused = 0
    /\ cache = <<>> /\ last_addr = 0 /\ flash = Erased /\ total_len = 0 /\ firmware_len = 0
-----------------------------------------------------------------------------
(* ota_update_check_fw_version                                             *)
WifiConnected ==
    /\ at = "idle" /\ at' = "asks"
    /\ badly' = FALSE /\ sock' = INVALID_SOCK
    /\ UNCHANGED <<open, addrs, peer, pieces, dcl, image, refused>>

\* sock_connect, for the question and for the image.
Connects ==
    /\ at \in {"asks", "fetches"} /\ sock = INVALID_SOCK
    /\ \E s \in Descriptors : Fresh(s) /\ open' = open \cup {s} /\ sock' = s
    /\ at' = IF at = "asks" THEN "asked" ELSE "header"
    \* ota_update_data_start
    /\ IF at = "asks" THEN UNCHANGED <<cache, last_addr>> ELSE cache' = <<>> /\ last_addr' = 0
    /\ UNCHANGED <<badly, addrs, peer, pieces, dcl, flash, total_len, firmware_len, refused>>

\* Nothing was asked: no memory, no address, no connection.
CheckFails ==
    /\ at = "asks" /\ at' = "idle"
    /\ UNCHANGED <<socketVars, dcl, image, refused>>
\* The question could not be written.
CheckNotWritten ==
    /\ at = "asked" /\ at' = "idle" /\ Close(sock)
    /\ UNCHANGED <<sock, addrs, peer, pieces, dcl, image, refused>>
\* The answer was read, or what came of it: the socket is closed at once, and
\* a second time before the function returns, with either answer.
CheckAnswers ==
    /\ at = "asked" /\ Close(sock) /\ at' \in {"same", "newer"}
    /\ UNCHANGED <<sock, addrs, peer, pieces, dcl, image, refused>>
\* The second time the descriptor is not open any more, unless another thread
\* has got it from socket() meanwhile.
CheckEnds ==
    /\ at \in {"same", "newer"} /\ at' = IF at = "same" THEN "idle" ELSE "silences"
    /\ badly' = TRUE
    /\ UNCHANGED <<open, sock, addrs, peer, pieces, dcl, image, refused>>
-----------------------------------------------------------------------------
(* ota_service_callback                                                    *)
\* stop_completely, yt_dcl_stop and the tone.
Silences ==
    /\ at = "silences" /\ at' = "fetches" /\ dcl' = FALSE
    /\ sock' = INVALID_SOCK /\ badly' = FALSE
    /\ total_len' = 0 /\ firmware_len' = 0 /\ flash' = Erased
    /\ UNCHANGED <<open, addrs, peer, pieces, cache, last_addr, refused>>
\* The update was no success: the child may talk again.
UpdateFailed ==
    /\ at = "failed" /\ at' = "idle" /\ dcl' = TRUE
    /\ UNCHANGED <<socketVars, image, refused>>
\* rda_wdt_softreset; nothing that was in memory is left.
Reset ==
    /\ at = "success" /\ at' = "idle" /\ dcl' = TRUE /\ refused' = 0
    /\ open' = {} /\ sock' = INVALID_SOCK /\ badly' = FALSE
    /\ UNCHANGED <<addrs, peer, pieces, image>>
-----------------------------------------------------------------------------
(* ota_update_data_from_server                                             *)
\* The connection is left as it is.
GoneOpen(end) == at' = end /\ UNCHANGED socketVars
\* The handle is closed on every way out but one.
Gone(end) == at' = end /\ Close(sock) /\ UNCHANGED <<sock, addrs, peer, pieces>>

\* ota_update_data: bytes for which there is no page any more are dropped, and
\* that is no error.
Area(addr) == addr + PAGE_SIZE <= OTA_UPGRADE_AREA_SIZE
\* The rest of the bytes is forgotten when a page is full.
UpdateDataDropsRest(data) ==
    IF ~Area(last_addr) THEN UNCHANGED <<cache, last_addr, flash>>
    ELSE IF Len(cache) + Len(data) < PAGE_SIZE
      THEN cache' = cache \o data /\ UNCHANGED <<last_addr, flash>>
    ELSE /\ flash' = Append(flash, SubSeq(cache \o data, 1, PAGE_SIZE))
         /\ cache' = <<>> /\ last_addr' = last_addr + PAGE_SIZE
UpdateData(data) ==
    IF ~Area(last_addr) THEN UNCHANGED <<cache, last_addr, flash>>
    ELSE IF Len(cache) + Len(data) < PAGE_SIZE
      THEN cache' = cache \o data /\ UNCHANGED <<last_addr, flash>>
    ELSE LET all == cache \o data
         IN /\ flash' = Append(flash, SubSeq(all, 1, PAGE_SIZE))
            /\ cache' = SubSeq(all, PAGE_SIZE + 1, Len(all))
            /\ last_addr' = last_addr + PAGE_SIZE

\* sock_get_server_info, sock_connect or the request fail: the handle is
\* closed whether there is a socket or not.
FetchFails ==
    /\ at \in {"fetches", "header"} /\ Gone("failed")
    /\ UNCHANGED <<dcl, image, refused>>

\* An answer without a length passes: the length is -1, and compared as an
\* unsigned number.
Lengths == {-1} \cup HeaderSize + 1 .. MaxImage

\* The first part that comes: a status that is not 200, a short length, no
\* body, less than two bytes of it or the wrong first byte fail; so does
\* rda5981_write_partition_start, and then the socket stays open.
HeaderRefused ==
    /\ at = "header" /\ Gone("failed") /\ total_len' \in Lengths \cup 0 .. HeaderSize
    /\ UNCHANGED <<dcl, cache, last_addr, flash, firmware_len, refused>>
PartitionRefused ==
    /\ at = "header" /\ at' = "failed" /\ total_len' \in Lengths
    /\ refused' = refused + 1
    /\ UNCHANGED <<socketVars, dcl, cache, last_addr, flash, firmware_len>>
Header ==
    /\ at = "header" /\ at' = "body"
    /\ total_len' \in Lengths
    /\ \E n \in 2 .. BufferSize : UpdateData(Bytes(1, n)) /\ firmware_len' = n
    /\ UNCHANGED <<socketVars, dcl, refused>>

\* The next part; nobody looks whether it is more than the server said.
Body ==
    /\ at = "body"
    /\ \E n \in 1 .. BufferSize :
         /\ firmware_len + n <= MaxImage
         /\ UpdateData(Bytes(firmware_len + 1, n)) /\ firmware_len' = firmware_len + n
    /\ UNCHANGED <<socketVars, at, dcl, total_len, refused>>
\* rda5981_write_partition fails.
WriteFails ==
    /\ at = "body" /\ Area(last_addr) /\ Gone("failed")
    /\ UNCHANGED <<dcl, image, refused>>

\* Nothing came in five seconds, or the server has closed.
\* The lengths are not compared.
NothingComesAnyLength ==
    /\ at \in {"header", "body"} /\ at' = "written"
    /\ UNCHANGED <<socketVars, dcl, image, refused>>
NothingComes ==
    /\ at \in {"header", "body"}
    /\ IF total_len = firmware_len
         THEN at' = "written" /\ UNCHANGED socketVars
         ELSE Gone("failed")
    /\ UNCHANGED <<dcl, image, refused>>

\* ota_update_data_end: the last page, with 0xff behind the bytes, if it has
\* a place.
DataEnd ==
    /\ at = "written"
    /\ flash' = IF cache # <<>> /\ Area(last_addr) THEN Append(flash, cache) ELSE flash
    /\ Gone("success")
    /\ UNCHANGED <<dcl, cache, last_addr, total_len, firmware_len, refused>>
DataEndFails ==
    /\ at = "written" /\ cache # <<>> /\ Area(last_addr) /\ Gone("failed")
    /\ UNCHANGED <<dcl, image, refused>>

Next == \/ WifiConnected \/ Connects \/ CheckFails \/ CheckNotWritten \/ CheckAnswers
        \/ CheckEnds \/ Silences \/ UpdateFailed \/ Reset \/ FetchFails \/ HeaderRefused
        \/ PartitionRefused \/ Header \/ Body \/ WriteFails \/ NothingComes \/ DataEnd
        \/ DataEndFails
Spec == Init /\ [][Next]_otaVars
-----------------------------------------------------------------------------
OtaTypeOK ==
    /\ SocketTypeOK /\ dcl \in BOOLEAN /\ refused \in Nat
    /\ total_len \in -1 .. MaxImage /\ firmware_len \in 0 .. MaxImage
    /\ last_addr <= OTA_UPGRADE_AREA_SIZE /\ Len(cache) < PAGE_SIZE

\* The first n bytes of the image are on the pages in their order, and only the
\* last page is not full.
InPlace(page, i) == page = Bytes((i - 1) * PAGE_SIZE + 1, Len(page))
PagesHold(n) ==
    /\ flash # <<>> /\ n = (Len(flash) - 1) * PAGE_SIZE + Len(flash[Len(flash)])
    /\ \A i \in 1 .. Len(flash) : InPlace(flash[i], i)
    /\ \A i \in 1 .. Len(flash) - 1 : Len(flash[i]) = PAGE_SIZE

\* However the image is cut into reads: when the toy is about to start with
\* it, the pages hold all its bytes one after the other.  But for an image
\* that is larger than the partition, and for a server that closes before it
\* says anything: both are taken for a success (hazards).
UpdateIsWhole ==
    at = "success" /\ total_len \in 1 .. OTA_UPGRADE_AREA_SIZE => PagesHold(total_len)

\* An update that was not made lets the child talk again, and the only
\* connections it leaves are those of partitions that could not be begun.
UpdateIsUndone ==
    /\ at = "idle" => dcl /\ Cardinality(open) = refused
    /\ Cardinality(open) <= refused + 1
-----------------------------------------------------------------------------
\* Between the two connections of an update nothing but what was lost with a
\* partition is open.
HandleIsOpen == at \in {"asked", "header", "body", "written"}
OnlyLostAreOpen ==
    /\ IsFiniteSet(open)
    /\ HandleIsOpen => sock \in open /\ Cardinality(open) = refused + 1
    /\ ~HandleIsOpen => Cardinality(open) = refused
    /\ at \in {"asks", "fetches"} => sock = INVALID_SOCK
    /\ at \in {"idle", "asks", "asked", "same", "newer", "silences"} => dcl
OtaSteps == {"idle", "asks", "asked", "same", "newer", "silences", "fetches", "header",
             "body", "written", "success", "failed"}
ImageFits ==
    /\ last_addr \in 0 .. OTA_UPGRADE_AREA_SIZE
    /\ cache \in Seq(Nat) /\ Len(cache) < PAGE_SIZE

\* While the image comes, full pages hold its first bytes and the cache the
\* next ones.  Nothing that came is missing, unless the partition is full.
Filled ==
    /\ flash \in Seq(Seq(Nat)) /\ last_addr = Len(flash) * PAGE_SIZE
    /\ \A i \in 1 .. Len(flash) : InPlace(flash[i], i) /\ Len(flash[i]) = PAGE_SIZE
    /\ cache = Bytes(last_addr + 1, Len(cache))
    /\ last_addr + Len(cache) <= firmware_len
    /\ Area(last_addr) => firmware_len = last_addr + Len(cache)
ImageIsOnItsWay ==
    /\ at = "fetches" => flash = Erased /\ firmware_len = 0
    /\ at = "header" => firmware_len = 0
    /\ at \in {"header", "body", "written"} => Filled
    /\ at = "written" => total_len = firmware_len
    /\ UpdateIsWhole

OtaIsOrderly == OtaTypeOK /\ at \in OtaSteps /\ OnlyLostAreOpen /\ ImageFits
OtaInv == OtaIsOrderly /\ ImageIsOnItsWay
=============================================================================
