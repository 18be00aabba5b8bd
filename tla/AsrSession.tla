------------------------------ MODULE AsrSession ------------------------------
(***************************************************************************)
(* A spoken question on its way to the cloud.  The recorder's thread calls *)
(* the callbacks of main/deepbrain_app.cpp, which cut the recording into   *)
(* objects and hand them to the speech service (dcl_service/asr_service):  *)
(* an object goes into the service's own queue and a NEW_REQUEST message   *)
(* through the bus to its thread, which opens a cloud session for the      *)
(* first object, writes the data and asks for the result at the last one.  *)
(* The answer is taken when its serial number is the current record_sn.    *)
(*                                                                         *)
(* record_sn starts again at 0 when the answer is late (5 s) and when wifi *)
(* comes up.  `epoch' counts these resets and `session' the recordings, so *)
(* that properties can tell recordings with equal numbers apart.           *)
(***************************************************************************)
EXTENDS Integers, Sequences, FiniteSets

CONSTANTS
  MaxSessions,   \* bound: recordings
  MaxFrames,     \* bound: data objects of a recording
  MaxWifi,       \* bound: wifi messages
  FrameMs,       \* how much speech a data object holds
  MallocFails    \* whether memory_malloc may fail

ASSUME BoundsAssumption == {MaxSessions, MaxFrames, MaxWifi, FrameMs} \subseteq Nat
ASSUME MallocAssumption == MallocFails \in BOOLEAN

MinAudioMs == 1000    \* ASR_MIN_AUDIO_MS
NoObject == [session |-> 0, epoch |-> 0, sn |-> 0, id |-> 0, ms |-> 0, spoken |-> 0, freed |-> FALSE]

\* The recording, and the epoch, an object belongs to.
Speech == [session : 0 .. MaxSessions, epoch : Nat]
Nobody == [session |-> 0, epoch |-> 0]
SpeechOf(o) == [session |-> o.session, epoch |-> o.epoch]

VARIABLES
  rec,           \* the recorder's thread: off, talking, or where it is in sending
  out,           \* the object it sends
  recordSn,      \* record_sn of deepbrain_app.cpp
  recordId,      \* record_id
  session,       \* history: recordings begun
  epoch,         \* history: how often recordSn was reset
  timer,         \* dcl_timeout_timer is running
  acceptedSn,    \* the static record_sn of asr_service_send_request
  pcm,           \* pcm_queue
  inbox,         \* the messages of the service's app object
  asr,           \* the service's thread: idle, begin, write, end, or gone
  cur,           \* the object it works on
  cloud,         \* whose speech dcl_asr_handle carries, or Nobody
  result,        \* asr_result: whose speech it is about, and its record_sn
  answer,        \* history: the recording and epoch at the last accepted answer, and its result
  wifi,          \* history: wifi messages so far
  lossy          \* history: the message for a queued object was lost

recorder == <<rec, out, recordId, session>>
service == <<asr, cur, cloud, result>>
vars == <<recorder, recordSn, epoch, timer, acceptedSn, pcm, inbox, service, answer, wifi, lossy>>

Object == [session : 0 .. MaxSessions, epoch : Nat, sn : 0 .. MaxSessions, id : Int, ms : {0, 2000},
           spoken : Nat, freed : BOOLEAN]
Message == {"NEW_REQUEST", "WIFI_CONNECTED", "WIFI_DISCONNECTED"}

TypeOK ==
  /\ rec \in {"off", "talking", "add", "send", "arm"}
  /\ out \in Object /\ cur \in Object /\ cloud \in Speech
  /\ recordSn \in 0 .. MaxSessions /\ recordId \in -(MaxFrames + 1) .. MaxFrames
  /\ session \in 0 .. MaxSessions /\ epoch \in Nat
  /\ timer \in BOOLEAN /\ acceptedSn \in 0 .. MaxSessions
  /\ pcm \in Seq(Object) /\ inbox \in Seq(Message)
  /\ asr \in {"idle", "begin", "write", "end", "gone"}
  /\ result \in [of : Speech, sn : 0 .. MaxSessions]
  /\ answer \in [session : 0 .. MaxSessions, epoch : Nat, of : Speech]
  /\ wifi \in 0 .. MaxWifi /\ lossy \in BOOLEAN

Init ==
  /\ rec = "off" /\ out = NoObject /\ recordSn = 0 /\ recordId = 0
  /\ session = 0 /\ epoch = 0 /\ timer = FALSE
  /\ acceptedSn = 0 /\ pcm = <<>> /\ inbox = <<>>
  /\ asr = "idle" /\ cur = NoObject /\ cloud = Nobody
  /\ result = [of |-> Nobody, sn |-> 0]
  /\ answer = [session |-> 0, epoch |-> 0, of |-> Nobody]
  /\ wifi = 0 /\ lossy = FALSE

-----------------------------------------------------------------------------
(* The recorder's thread. *)

\* yt_dcl_rec_on_start
RecOnStart ==
  /\ rec = "off" /\ session < MaxSessions
  /\ rec' = "talking"
  /\ session' = session + 1
  /\ recordId' = 0
  /\ recordSn' = recordSn + 1
  /\ UNCHANGED <<out, epoch, timer, acceptedSn, pcm, inbox, service, answer, wifi, lossy>>

NewObject(id, ms, spoken) ==
  [session |-> session, epoch |-> epoch, sn |-> recordSn, id |-> id, ms |-> ms,
   spoken |-> spoken, freed |-> FALSE]

\* The head of asr_service_send_request: the first object of a recording sets
\* the serial number that the others must have.
\* Mutant: objects of any recording are accepted.
CheckRequestNever(o) ==
  /\ acceptedSn' = IF o.id = 1 THEN o.sn ELSE acceptedSn
  /\ rec' = "add" /\ out' = o

CheckRequest(o) ==
  /\ acceptedSn' = IF o.id = 1 THEN o.sn ELSE acceptedSn
  /\ IF o.sn = acceptedSn'
       THEN rec' = "add" /\ out' = o
       ELSE rec' = (IF o.id < 0 THEN "off" ELSE "talking") /\ out' = NoObject

\* memory_malloc failed: the object is not made, and what it held is lost.
NoNewObject(then) ==
  /\ MallocFails
  /\ rec' = then /\ UNCHANGED <<out, acceptedSn>>

\* yt_dcl_rec_on_data
RecOnData ==
  /\ rec = "talking" /\ recordId < MaxFrames
  /\ recordId' = recordId + 1
  /\ \/ CheckRequest(NewObject(recordId', 0, 0))
     \/ NoNewObject("talking")
  /\ UNCHANGED <<recordSn, session, epoch, timer, pcm, inbox, service, answer, wifi, lossy>>

\* The length on_stop gives the recording: 2000 ms whatever was recorded.
RecordMs(id) == IF id # 0 THEN 2000 ELSE 0

\* Mutant: the index of the last object is not negative.
StopIdUnsigned(id) == id + 1

\* The index of the last object is the negative of the next one.
StopId(id) == -(id + 1)

\* yt_dcl_rec_on_stop
RecOnStop ==
  /\ rec = "talking"
  /\ recordId' = StopId(recordId)
  /\ \/ CheckRequest(NewObject(recordId', RecordMs(recordId'), recordId * FrameMs))
     \/ NoNewObject("off")
  /\ UNCHANGED <<recordSn, session, epoch, timer, pcm, inbox, service, answer, wifi, lossy>>

\* pcm_queue_add_tail
AddTail ==
  /\ rec = "add"
  /\ pcm' = Append(pcm, out)
  /\ rec' = "send"
  /\ UNCHANGED <<out, recordSn, recordId, session, epoch, timer, acceptedSn, inbox, service, answer, wifi, lossy>>

AfterSend == IF out.id < 0 THEN "arm" ELSE "talking"

\* Mutant: the last object is queued without a message.
SendMessageForData ==
  /\ rec = "send"
  /\ inbox' = IF out.id < 0 THEN inbox ELSE Append(inbox, "NEW_REQUEST")
  /\ rec' = AfterSend /\ out' = NoObject
  /\ UNCHANGED <<recordSn, recordId, session, epoch, timer, acceptedSn, pcm, service, answer, wifi, lossy>>

\* app_send_message: the bus takes the message and delivers it, or main finds no
\* memory for the copy and drops it.
SendMessage ==
  /\ rec = "send"
  /\ \/ inbox' = Append(inbox, "NEW_REQUEST") /\ UNCHANGED lossy
     \/ MallocFails /\ UNCHANGED inbox /\ lossy' = TRUE
  /\ rec' = AfterSend /\ out' = NoObject
  /\ UNCHANGED <<recordSn, recordId, session, epoch, timer, acceptedSn, pcm, service, answer, wifi>>

\* The bus does not take the message: the caller deletes the object, which stays
\* in the queue.
SendRefused ==
  /\ rec = "send" /\ MallocFails
  /\ pcm' = [i \in DOMAIN pcm |-> IF pcm[i] = out THEN [out EXCEPT !.freed = TRUE] ELSE pcm[i]]
  /\ lossy' = TRUE
  /\ rec' = (IF out.id < 0 THEN "off" ELSE "talking") /\ out' = NoObject
  /\ UNCHANGED <<recordSn, recordId, session, epoch, timer, acceptedSn, inbox, service, answer, wifi>>

\* duer_timer_start after the last object was sent.
ArmTimer ==
  /\ rec = "arm"
  /\ timer' = TRUE
  /\ rec' = "off"
  /\ UNCHANGED <<out, recordSn, recordId, session, epoch, acceptedSn, pcm, inbox, service, answer, wifi, lossy>>

\* yt_dcl_rec_on_result_timeout
ResultTimeout ==
  /\ timer
  /\ timer' = FALSE
  /\ recordSn' = 0 /\ epoch' = epoch + 1
  /\ UNCHANGED <<recorder, acceptedSn, pcm, inbox, service, answer, wifi, lossy>>

\* Wifi connects and disconnects: a broadcast reaches the service.
WifiMessage ==
  /\ wifi < MaxWifi
  /\ wifi' = wifi + 1
  /\ \E m \in {"WIFI_CONNECTED", "WIFI_DISCONNECTED"} : inbox' = Append(inbox, m)
  /\ UNCHANGED <<recorder, recordSn, epoch, timer, acceptedSn, pcm, service, answer, lossy>>

-----------------------------------------------------------------------------
(* The service's thread: asr_service_event_callback. *)

WifiConnected ==
  /\ asr = "idle" /\ inbox # <<>> /\ Head(inbox) = "WIFI_CONNECTED"
  /\ inbox' = Tail(inbox)
  /\ recordSn' = 0 /\ epoch' = epoch + 1
  /\ UNCHANGED <<recorder, timer, acceptedSn, pcm, service, answer, wifi, lossy>>

\* Mutant: what is still queued is dropped when wifi is lost.
WifiDisconnectedDrops ==
  /\ asr = "idle" /\ inbox # <<>> /\ Head(inbox) = "WIFI_DISCONNECTED"
  /\ inbox' = Tail(inbox)
  /\ timer' = FALSE /\ pcm' = <<>>
  /\ UNCHANGED <<recorder, recordSn, epoch, acceptedSn, service, answer, wifi, lossy>>

WifiDisconnected ==
  /\ asr = "idle" /\ inbox # <<>> /\ Head(inbox) = "WIFI_DISCONNECTED"
  /\ inbox' = Tail(inbox)
  /\ timer' = FALSE
  /\ UNCHANGED <<recorder, recordSn, epoch, acceptedSn, pcm, service, answer, wifi, lossy>>

Stage(o) == IF o.id = 1 THEN "begin" ELSE IF o.id > 1 THEN "write" ELSE "end"

\* NEW_REQUEST: pcm_queue_first and pcm_queue_remove, which only this thread
\* calls.  What a freed object holds is undefined, and so is the rest of the run.
TakeRequest ==
  /\ asr = "idle" /\ inbox # <<>> /\ Head(inbox) = "NEW_REQUEST"
  /\ inbox' = Tail(inbox)
  /\ IF pcm = <<>> THEN UNCHANGED <<pcm, asr, cur>>
     ELSE /\ pcm' = Tail(pcm)
          /\ cur' = Head(pcm)
          /\ asr' = IF Head(pcm).freed THEN "gone" ELSE Stage(Head(pcm))
  /\ UNCHANGED <<recorder, recordSn, epoch, timer, acceptedSn, cloud, result, answer, wifi, lossy>>

\* asr_rec_begin: two attempts to open a session.
RecBegin ==
  /\ asr = "begin"
  /\ result' = [of |-> SpeechOf(cur), sn |-> cur.sn]
  /\ cloud' \in {SpeechOf(cur), Nobody}
  /\ asr' = "write"
  /\ UNCHANGED <<recorder, recordSn, epoch, timer, acceptedSn, pcm, inbox, cur, answer, wifi, lossy>>

\* asr_rec_runing: a failing dcl_asr_audio_write reports success, so that the
\* session stays open; the object is deleted.
RecRuning ==
  /\ asr = "write"
  /\ asr' = "idle" /\ cur' = NoObject
  /\ UNCHANGED <<recorder, recordSn, epoch, timer, acceptedSn, pcm, inbox, cloud, result, answer, wifi, lossy>>

\* yt_dcl_rec_on_result, called on the service's thread.
\* Mutant: the serial number is not compared.
OnResultOfAny ==
  /\ timer' = FALSE
  /\ answer' = [session |-> session, epoch |-> epoch, of |-> result.of]

OnResult ==
  IF result.sn = recordSn
    THEN /\ timer' = FALSE
         /\ answer' = [session |-> session, epoch |-> epoch, of |-> result.of]
    ELSE UNCHANGED <<timer, answer>>

\* ASR_SERVICE_RECORD_STOP: the result of a recording that is long enough is asked
\* for in the open session.
Recognises == asr = "end" /\ cur.ms >= MinAudioMs /\ cloud # Nobody

\* Whether recognised or not, the session ends and asr_result is reported.
RecEnd ==
  /\ asr = "end"
  /\ cloud' = Nobody
  /\ OnResult
  /\ asr' = "idle" /\ cur' = NoObject
  /\ UNCHANGED <<recorder, recordSn, epoch, acceptedSn, pcm, inbox, result, wifi, lossy>>

Recorder == RecOnStart \/ RecOnData \/ RecOnStop \/ AddTail \/ SendMessage \/ SendRefused \/ ArmTimer
Service == WifiConnected \/ WifiDisconnected \/ TakeRequest \/ RecBegin \/ RecRuning \/ RecEnd
Next == Recorder \/ Service \/ ResultTimeout \/ WifiMessage

Spec == Init /\ [][Next]_vars
FairSpec == Spec /\ WF_vars(Service) /\ WF_vars(AddTail \/ SendMessage \/ ArmTimer)

-----------------------------------------------------------------------------
Requests == Cardinality({i \in DOMAIN inbox : inbox[i] = "NEW_REQUEST"})

\* A NEW_REQUEST message always finds its object in the queue, whatever gets
\* lost: the service never wakes up for nothing.
RequestFindsObject == Requests <= Len(pcm)

\* Speech is written to the cloud session of its own recording, even if mallocs
\* and connections fail and recordings follow each other before the service has
\* caught up; only a reset of record_sn in between makes two recordings alike.
SpeechStaysInSession ==
  asr = "write" /\ cloud # Nobody =>
    cloud.session = cur.session \/ cloud.epoch # cur.epoch

\* An answer that the app takes is the answer to what the user said last, unless
\* record_sn was reset after the answered recording began.
AnswerIsToLastQuestion ==
  answer.of.session # 0 => answer.of.session = answer.session \/ answer.of.epoch # answer.epoch

\* The objects that were queued are all taken in the end, in whatever state the
\* cloud leaves the service, unless malloc failed for the message of one of them.
QueueDrains == pcm # <<>> ~> (pcm = <<>> \/ lossy)

\* dcl_service.h:117 calls record_sn the serial number of the recording: no two
\* recordings have the same one as long as one of them waits for its answer.
SerialNumberIdentifies == answer.of.session # 0 => answer.of.session = answer.session
=============================================================================
