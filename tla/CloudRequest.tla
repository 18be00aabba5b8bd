----------------------------- MODULE CloudRequest -----------------------------
(***************************************************************************)
(* One request to a service of the cloud (src/deepbrain/components/DCL):   *)
(* understanding of a text, speech for a text, license, time, device       *)
(* information, translation, and the three of the push service.  Each is a *)
(* blocking call with a session of its own: memory, a socket and the tree  *)
(* of the answer.  The nine files have the same five functions; they       *)
(* differ in who owns the memory while the session begins, in the fields   *)
(* an answer must have, and in what they copy to the caller.               *)
(*                                                                         *)
(* An answer comes in three pieces: the line with the status, the rest of  *)
(* the head, and the body.  A slow or closed connection cuts it after any. *)
(***************************************************************************)
EXTENDS Socket, Sequences

VARIABLES
    at,       \* the step of the call: "idle" between two calls
    kind,     \* which request it is
    handle,   \* the caller's pointer is set
    memory,   \* sessions allocated and not freed
    json,     \* trees parsed and not deleted
    packet,   \* the request is in the session's buffer
    sent,     \* the whole request was written
    answer,   \* what the server says, known when it was read
    wechat,   \* the license is asked for with a wechat device
    code,     \* DCL_ERROR_CODE_t
    output    \* fields copied to the caller

session == <<handle, memory, json, packet, sent, wechat>>
result == <<answer, code, output>>
cloudVars == <<socketVars, at, kind, session, result>>

Nothing == [status |-> -1, tree |-> FALSE, good |-> {}]

Init ==
    /\ SocketInit
    /\ at = "idle" /\ kind = "none" /\ handle = FALSE /\ memory = 0 /\ json = 0
    /\ packet = FALSE /\ sent = FALSE /\ wechat = FALSE
    /\ answer = Nothing /\ code = "OK" /\ output = {}

Fails(why) == at' = "end" /\ code' = why
-----------------------------------------------------------------------------
(* The call.                                                               *)
Called(k, w) ==
    /\ at = "idle" /\ at' = "begin" /\ kind' = k /\ wechat' = w
    /\ code' = "OK" /\ output' = {} /\ answer' = Nothing /\ sent' = FALSE
    /\ UNCHANGED <<socketVars, handle, memory, json, packet>>
CalledWithText(k, empty) ==
    IF empty
      THEN /\ at = "idle" /\ kind' = k /\ code' = "SYS_INVALID_PARAMS" /\ output' = {}
           /\ answer' = Nothing /\ sent' = FALSE
           /\ UNCHANGED <<socketVars, at, handle, memory, json, packet, wechat>>
      ELSE Called(k, FALSE)

\* An url the firmware has: it always has a domain.
Url == [scheme |-> "http://", domain |-> "cloud", port |-> "", params |-> "/"]

\* The session's memory is the caller's from the start (handle is set), or
\* only when the connection is there.
SessionBegins(k, publishes) ==
    /\ at = "begin" /\ kind = k
    /\ \/ Fails("SYS_NOT_ENOUGH_MEM") /\ UNCHANGED <<socketVars, session>>
       \/ /\ memory' = memory + 1 /\ handle' = publishes
          /\ IF ServerInfo(Url).ret # 0
               THEN Fails("NETWORK_DNS_FAIL") /\ UNCHANGED socketVars
               ELSE FindAddresses /\ at' = "connect" /\ UNCHANGED code
          /\ UNCHANGED <<json, packet, sent, wechat>>
    /\ UNCHANGED <<kind, answer, output>>

\* sock_connect, called by all of them.
NextAddress ==
    at = "connect" /\ AddressFails /\ UNCHANGED <<at, kind, session, result>>
Connected ==
    /\ at = "connect" /\ AddressAnswers
    /\ handle' = TRUE /\ at' = "make"
    /\ UNCHANGED <<kind, memory, json, packet, sent, wechat, result>>
\* The memory is forgotten with the local pointer.
NotConnectedLeak ==
    /\ at = "connect" /\ NoAddressLeft /\ Fails("NETWORK_UNAVAILABLE")
    /\ UNCHANGED <<socketVars, kind, session, answer, output>>
NotConnected ==
    /\ at = "connect" /\ NoAddressLeft /\ Fails("NETWORK_UNAVAILABLE")
    /\ memory' = IF handle THEN memory ELSE memory - 1
    /\ UNCHANGED <<socketVars, kind, handle, json, packet, sent, wechat, answer, output>>

\* The request with its nonce, time and key, in the session's buffer.
Makes(k) ==
    /\ at = "make" /\ kind = k /\ at' = "write" /\ packet' = TRUE
    /\ Moves(2)
    /\ UNCHANGED <<open, badly, ends, kind, handle, memory, json, sent, wechat, result>>

MovesOn == at \in {"write", "read"} /\ APiece /\ UNCHANGED <<at, kind, session, result>>
Written ==
    /\ at = "write" /\ EndsInTime
    /\ IF todo > 0
         THEN Fails("NETWORK_POOR") /\ UNCHANGED <<socketVars, sent>>
         ELSE /\ at' = "read" /\ sent' = TRUE /\ Moves(3)
              /\ UNCHANGED <<open, badly, ends, code>>
    /\ UNCHANGED <<kind, handle, memory, json, packet, wechat, answer, output>>
Read ==
    /\ at = "read" /\ EndsInTime
    /\ IF moved = 0 THEN Fails("NETWORK_POOR") ELSE at' = "decode" /\ UNCHANGED code
    /\ UNCHANGED <<socketVars, kind, session, answer, output>>

\* The caller's pointer is followed to everything the session owns.
SessionEndsTwice(k) ==
    /\ at = "end" /\ kind = k /\ at' = "idle"
    /\ IF ~handle
         THEN UNCHANGED <<socketVars, handle, memory, json, packet>>
         ELSE /\ Close(sock) /\ sock' = INVALID_SOCK
              /\ json' = 0 /\ memory' = memory - 1 /\ handle' = FALSE /\ packet' = FALSE
              /\ UNCHANGED <<addrs, peer, pieces>>
    /\ UNCHANGED <<kind, sent, wechat, result>>
SessionEnds(k) ==
    /\ at = "end" /\ kind = k /\ at' = "idle"
    /\ IF ~handle
         THEN UNCHANGED <<socketVars, handle, memory, json, packet>>
         ELSE /\ IF sock = INVALID_SOCK
                   THEN UNCHANGED <<open, badly, sock>>
                   ELSE Close(sock) /\ sock' = INVALID_SOCK
              /\ json' = 0 /\ memory' = memory - 1 /\ handle' = FALSE /\ packet' = FALSE
              /\ UNCHANGED <<addrs, peer, pieces>>
    /\ UNCHANGED <<kind, sent, wechat, result>>
-----------------------------------------------------------------------------
(* The answer (http_api.cpp and the decoders).                             *)
HttpErrorCode(status) == IF moved > 0 /\ status \in {200, 206} THEN status ELSE -1
HttpBody == CASE moved < 2 -> "NULL" [] moved = 2 -> "cut" [] OTHER -> "whole"

\* The fields are looked up one after the other, and those the caller gets
\* are copied when they are found; a status of OK is one of the fields.
Passed(fields, good) ==
    {i \in 1 .. Len(fields) : \A j \in 1 .. i : fields[j] \in good}
DecodeChecks(fields, outputs, good) ==
    /\ output' = {fields[i] : i \in Passed(fields, good)} \cap outputs
    /\ code' = IF Passed(fields, good) = 1 .. Len(fields) THEN "OK" ELSE "SERVER_ERROR"
\* A copy before the status was looked at.
DecodesEagerly(k, fields, outputs) ==
    /\ at = "decode" /\ kind = k /\ at' = "end"
    /\ \E status \in {200, 206, 404}, tree \in BOOLEAN, good \in SUBSET {fields[i] : i \in 1 .. Len(fields)} :
          /\ answer' = [status |-> status, tree |-> tree, good |-> good]
          /\ output' = outputs \cap good /\ json' = json
          /\ code' = IF HttpErrorCode(status) # 200 THEN "NETWORK_POOR" ELSE "OK"
    /\ UNCHANGED <<socketVars, kind, handle, memory, packet, sent, wechat>>
Decodes(k, fields, outputs) ==
    /\ at = "decode" /\ kind = k /\ at' = "end"
    /\ \E status \in {200, 206, 404}, tree \in BOOLEAN, good \in SUBSET {fields[i] : i \in 1 .. Len(fields)} :
          /\ answer' = [status |-> status, tree |-> tree, good |-> good]
          /\ IF HttpErrorCode(status) # 200
               THEN code' = "NETWORK_POOR" /\ UNCHANGED <<json, output>>
             ELSE IF HttpBody = "NULL"
               THEN UNCHANGED <<code, json, output>>
             ELSE IF HttpBody = "cut" \/ ~tree
               THEN code' = "NETWORK_POOR" /\ UNCHANGED <<json, output>>
             ELSE json' = json + 1 /\ DecodeChecks(fields, outputs, good)
    /\ UNCHANGED <<socketVars, kind, handle, memory, packet, sent, wechat>>
-----------------------------------------------------------------------------
(* nlp/dcl_nlp_api.cpp: the whole body is the result.                      *)
DclGetNlpResult == \E empty \in BOOLEAN : CalledWithText("nlp", empty)
NlpSessionBegin == SessionBegins("nlp", TRUE)
NlpMakePacket == Makes("nlp")
NlpDecodePacket ==
    Decodes("nlp", <<"responseHead", "statusCode", "body">>, {"body"})
NlpSessionEnd == SessionEnds("nlp")

(* tts/dcl_tts_api.cpp                                                     *)
DclGetTtsUrl == \E empty \in BOOLEAN : CalledWithText("tts", empty)
TtsSessionBegin == SessionBegins("tts", TRUE)
TtsMakePacket == Makes("tts")
TtsDecodePacket ==
    Decodes("tts", <<"statusCode", "content", "ttsLink">>, {"ttsLink"})
TtsSessionEnd == SessionEnds("tts")

(* license/dcl_device_license.cpp: each part is copied when it is found.   *)
LicenseParts == {"sn", "deviceType", "deviceId", "deviceLicense"}
DclGetDeviceLicense == \E w \in BOOLEAN : Called("license", w)
LicenseSessionBegin == SessionBegins("license", FALSE)
LicenseMakePacket == Makes("license")
LicenseDecodePacket ==
    Decodes("license",
            <<"statusCode", "content", "sn">>
              \o (IF wechat THEN <<"deviceType", "deviceId", "deviceLicense">> ELSE <<>>),
            LicenseParts)
LicenseSessionEnd == SessionEnds("license")

(* other/dcl_update_time.cpp: the clock is set.                            *)
DclUpdateTime == Called("time", FALSE)
TimeSessionBegin == SessionBegins("time", FALSE)
TimeMakePacket == Makes("time")
TimeDecodePacket ==
    Decodes("time", <<"statusCode", "content", "currentTimeMillis">>, {"currentTimeMillis"})
TimeSessionEnd == SessionEnds("time")

(* other/dcl_update_device_info.cpp                                        *)
DclUpdateDeviceInfo == Called("device_info", FALSE)
DevInfoSessionBegin == SessionBegins("device_info", FALSE)
DevInfoMakePacket == Makes("device_info")
DevInfoDecodePacket == Decodes("device_info", <<"statusCode">>, {})
DevInfoSessionEnd == SessionEnds("device_info")

(* other/dcl_translate_api.cpp                                             *)
DclGetTranslateText == \E empty \in BOOLEAN : CalledWithText("translate", empty)
TranslateSessionBegin == SessionBegins("translate", TRUE)
TranslateMakePacket == Makes("translate")
TranslateDecodePacket ==
    Decodes("translate", <<"statusCode", "content", "translateText">>, {"translateText"})
TranslateSessionEnd == SessionEnds("translate")

(* mpush/dcl_mpush_push_msg.cpp                                            *)
DclMpushPushMsg == Called("push", FALSE)
PushMsgSessionBegin == SessionBegins("push", TRUE)
PushMsgMakePacket == Makes("push")
PushMsgDecodePacket == Decodes("push", <<"statusCode">>, {})
PushMsgSessionEnd == SessionEnds("push")

(* mpush/dcl_mpush_server_list.cpp: the items that have both fields.       *)
DclMpushGetServerList == Called("servers", FALSE)
ServerListSessionBegin == SessionBegins("servers", TRUE)
ServerListMakePacket == Makes("servers")
ServerListDecodePacket ==
    Decodes("servers", <<"statusCode", "content", "data", "items">>, {"items"})
ServerListSessionEnd == SessionEnds("servers")

(* mpush/dcl_mpush_offline_msg.cpp: the whole body is the result.          *)
DclMpushGetOfflineMsg == Called("offline", FALSE)
OfflineMsgSessionBegin == SessionBegins("offline", TRUE)
OfflineMsgMakePacket == Makes("offline")
OfflineMsgDecodePacket == Decodes("offline", <<"statusCode", "body">>, {"body"})
OfflineMsgSessionEnd == SessionEnds("offline")
-----------------------------------------------------------------------------
Call == \/ DclGetNlpResult \/ DclGetTtsUrl \/ DclGetDeviceLicense \/ DclUpdateTime
        \/ DclUpdateDeviceInfo \/ DclGetTranslateText \/ DclMpushPushMsg
        \/ DclMpushGetServerList \/ DclMpushGetOfflineMsg
Begin == \/ NlpSessionBegin \/ TtsSessionBegin \/ LicenseSessionBegin
         \/ TimeSessionBegin \/ DevInfoSessionBegin \/ TranslateSessionBegin
         \/ PushMsgSessionBegin \/ ServerListSessionBegin \/ OfflineMsgSessionBegin
MakePacket == \/ NlpMakePacket \/ TtsMakePacket \/ LicenseMakePacket \/ TimeMakePacket
              \/ DevInfoMakePacket \/ TranslateMakePacket \/ PushMsgMakePacket
              \/ ServerListMakePacket \/ OfflineMsgMakePacket
Decode == \/ NlpDecodePacket \/ TtsDecodePacket \/ LicenseDecodePacket \/ TimeDecodePacket
          \/ DevInfoDecodePacket \/ TranslateDecodePacket \/ PushMsgDecodePacket
          \/ ServerListDecodePacket \/ OfflineMsgDecodePacket
End == \/ NlpSessionEnd \/ TtsSessionEnd \/ LicenseSessionEnd \/ TimeSessionEnd
       \/ DevInfoSessionEnd \/ TranslateSessionEnd \/ PushMsgSessionEnd
       \/ ServerListSessionEnd \/ OfflineMsgSessionEnd
Progress == \/ Begin \/ NextAddress \/ Connected \/ NotConnected \/ MakePacket
            \/ MovesOn \/ Written \/ Read \/ Decode \/ End
Next == Call \/ Progress

Spec == Init /\ [][Next]_cloudVars
-----------------------------------------------------------------------------
CloudTypeOK ==
    /\ SocketTypeOK
    /\ at \in {"idle", "begin", "connect", "make", "write", "read", "decode", "end"}
    /\ handle \in BOOLEAN /\ memory \in 0 .. 1 /\ json \in 0 .. 1
    /\ packet \in BOOLEAN /\ sent \in BOOLEAN /\ wechat \in BOOLEAN
    /\ code \in {"OK", "SYS_INVALID_PARAMS", "SYS_NOT_ENOUGH_MEM", "NETWORK_DNS_FAIL",
                 "NETWORK_UNAVAILABLE", "NETWORK_POOR", "SERVER_ERROR"}

\* Whatever fails and whichever function owns the memory at that moment: when
\* the call is back nothing of its session is left, and nothing was closed
\* that was not open (the error paths of session_begin and the goto to
\* session_end in all nine files).
SessionIsReleased ==
    /\ ~badly
    /\ at = "idle" => open = {} /\ memory = 0 /\ json = 0 /\ ~handle

\* A caller that is told OK asked in full and has everything the answer must
\* have, or the answer ended with its head; any other code leaves the caller's
\* buffers alone, except that a license can be there in parts (only its
\* caller, which starts over, may look at it).
TellsTheTruth ==
    /\ code = "OK" =>
          /\ sent /\ answer.status = 200
          /\ \/ moved = 1 /\ output = {}
             \/ moved = 3 /\ answer.tree /\ output \subseteq answer.good
                /\ (kind \in {"push", "device_info"} \/ output # {})
                /\ (kind = "license" /\ wechat => output = LicenseParts)
    /\ code # "OK" /\ kind # "license" => output = {}
    /\ code = "SERVER_ERROR" => sent /\ moved = 3 /\ ~(LicenseParts \subseteq output)
CodeTellsTheTruth == at = "idle" /\ kind # "none" => TellsTheTruth
-----------------------------------------------------------------------------
(* What each step of a call finds and leaves: the properties at its end    *)
(* follow from it.                                                         *)
NothingIsHeld == open = {} /\ sock = INVALID_SOCK /\ memory = 0 /\ json = 0 /\ ~handle
OneIsConnected == sock \in Descriptors /\ open = {sock}
NoneIsConnected == sock = INVALID_SOCK /\ open = {}

HoldsWhatItTook ==
    /\ ~badly
    /\ at \in {"idle", "begin"} => NothingIsHeld
    /\ at = "connect" => NoneIsConnected /\ memory = 1 /\ json = 0
    /\ at \in {"make", "write", "read", "decode"} =>
          OneIsConnected /\ memory = 1 /\ json = 0 /\ handle
    /\ at = "end" => \/ NothingIsHeld
                     \/ memory = 1 /\ handle /\ (NoneIsConnected \/ OneIsConnected)

KnowsWhatItRead ==
    /\ at \notin {"idle", "end"} => code = "OK" /\ output = {}
    /\ at \in {"read", "decode"} => sent /\ todo + moved = 3
    /\ at = "decode" => moved > 0
    /\ at = "end" => TellsTheTruth

CloudInv == CloudTypeOK /\ HoldsWhatItTook /\ KnowsWhatItRead /\ CodeTellsTheTruth
=============================================================================
