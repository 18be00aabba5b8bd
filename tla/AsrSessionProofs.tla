-------------------------- MODULE AsrSessionProofs --------------------------
(***************************************************************************)
(* Proofs about the speech service for any number of recordings, objects   *)
(* and wifi messages: type correctness, and that neither speech nor an     *)
(* answer gets to another recording than its own.                          *)
(***************************************************************************)
EXTENDS AsrSession, FiniteSetTheorems, TLAPS

\* Between two resets of record_sn the serial numbers and the recordings go up
\* together: numbers given in this epoch lie as far behind as their recordings.
Tagged(x, sn) ==
  x.epoch <= epoch /\ (x.epoch = epoch => recordSn - sn = session - x.session)

TagInv ==
  /\ rec = "add" => Tagged(out, out.sn)
  /\ \A i \in DOMAIN pcm : Tagged(pcm[i], pcm[i].sn)
  /\ asr # "idle" => Tagged(cur, cur.sn)
  /\ Tagged(result.of, result.sn)
  /\ cloud.epoch <= epoch
  /\ answer.of.session # 0 => answer.of.session = answer.session \/ answer.of.epoch # answer.epoch

TypeInv ==
  /\ TypeOK
  /\ recordSn <= session
  /\ rec = "talking" \/ (rec \in {"add", "send"} /\ out.id >= 0) => recordId >= 0


LEMMA Bounds == /\ MaxSessions \in Nat /\ MaxFrames \in Nat /\ MaxWifi \in Nat /\ FrameMs \in Nat
  BY BoundsAssumption

LEMMA NoObjectIsObject == NoObject \in Object /\ Nobody \in Speech
  BY Bounds DEF NoObject, Object, Nobody, Speech

LEMMA TypeInit == Init => TypeInv
<1> SUFFICES ASSUME Init PROVE TypeInv
  OBVIOUS
<1>1. 0 \in -(MaxFrames + 1) .. MaxFrames
  BY Bounds
<1>2. pcm \in Seq(Object) /\ inbox \in Seq(Message)
  BY DEF Init
<1>3. /\ result \in [of : Speech, sn : 0 .. MaxSessions]
      /\ answer \in [session : 0 .. MaxSessions, epoch : Nat, of : Speech]
  BY Bounds, NoObjectIsObject DEF Init
<1>4. /\ session \in 0 .. MaxSessions /\ recordSn \in 0 .. MaxSessions
      /\ acceptedSn \in 0 .. MaxSessions /\ wifi \in 0 .. MaxWifi /\ epoch \in Nat
  BY Bounds DEF Init
<1>5. TypeOK
  BY <1>1, <1>2, <1>3, <1>4, NoObjectIsObject, Zenon DEF Init, TypeOK
<1>6. QED
  BY <1>5 DEF Init, TypeInv

LEMMA ObjectFields ==
  ASSUME NEW o \in Object
  PROVE  /\ o.session \in 0 .. MaxSessions /\ o.epoch \in Nat /\ o.sn \in 0 .. MaxSessions
         /\ o.id \in Int /\ o.freed \in BOOLEAN
         /\ SpeechOf(o) \in Speech /\ SpeechOf(o).epoch = o.epoch /\ SpeechOf(o).session = o.session
  BY DEF Object, SpeechOf, Speech

\* SMT takes records whose fields are sets' elements, and TRUE as such an element.
LEMMA ChangedFlag ==
  ASSUME NEW o \in Object, NEW G, NEW x, G = BOOLEAN, x = TRUE
  PROVE  [o EXCEPT !.freed = x] \in Object
<1> DEFINE Records == [session : 0 .. MaxSessions, epoch : Nat, sn : 0 .. MaxSessions, id : Int,
                       ms : {0, 2000}, spoken : Nat, freed : G]
<1>1. o \in Records /\ x \in G
  BY DEF Object
<1>2. [o EXCEPT !.freed = x] \in Records
  BY ONLY <1>1
<1>3. QED
  BY <1>2 DEF Object

LEMMA FreedIsObject ==
  ASSUME NEW o \in Object
  PROVE  [o EXCEPT !.freed = TRUE] \in Object
<1>1. \A G, x : G = BOOLEAN /\ x = TRUE => [o EXCEPT !.freed = x] \in Object
  BY ChangedFlag
<1>2. QED
  BY <1>1, Zenon

LEMMA NewObjectIsObject ==
  ASSUME TypeInv, NEW id \in Int, NEW ms \in {0, 2000}, NEW spoken \in Nat
  PROVE  NewObject(id, ms, spoken) \in Object
  BY DEF TypeInv, TypeOK, NewObject, Object

\* The recorder's callbacks make an object, which goes on or is turned away.
LEMMA TypeCheck ==
  ASSUME TypeInv, NEW id \in Int, NEW ms \in {0, 2000}, NEW spoken \in Nat,
         CheckRequest(NewObject(id, ms, spoken))
  PROVE  /\ out' \in Object /\ acceptedSn' \in 0 .. MaxSessions
         /\ rec' \in {"add", "off", "talking"} /\ (rec' = "talking" => id >= 0)
<1>1. NewObject(id, ms, spoken) \in Object
  BY NewObjectIsObject
<1>2. NewObject(id, ms, spoken).id = id /\ NewObject(id, ms, spoken).sn \in 0 .. MaxSessions
  BY DEF TypeInv, TypeOK, NewObject
<1>3. NoObject \in Object
  BY NoObjectIsObject
<1>4. QED
  BY <1>1, <1>2, <1>3 DEF CheckRequest, TypeInv, TypeOK

LEMMA TypeRecorder == TypeInv /\ Recorder => TypeInv'
<1> SUFFICES ASSUME TypeInv, Recorder PROVE TypeInv'
  OBVIOUS
<1> USE Bounds DEF TypeInv, TypeOK, recorder, service
<1>1. CASE RecOnStart
  BY <1>1 DEF RecOnStart
<1>2. CASE RecOnData
  <2>1. recordId' \in 1 .. MaxFrames /\ rec = "talking"
    BY <1>2 DEF RecOnData
  <2>2. /\ out' \in Object /\ acceptedSn' \in 0 .. MaxSessions
        /\ rec' \in {"add", "off", "talking"}
    BY <1>2, <2>1, TypeCheck DEF RecOnData, NoNewObject
  <2>3. UNCHANGED <<recordSn, session, epoch, timer, pcm, inbox, service, answer, wifi, lossy>>
    BY <1>2 DEF RecOnData
  <2>4. QED
    BY <2>1, <2>2, <2>3
<1>3. CASE RecOnStop
  <2>1. recordId' \in -(MaxFrames + 1) .. -1 /\ rec = "talking"
    BY <1>3 DEF RecOnStop, StopId
  <2>2. recordId' \in Int /\ RecordMs(recordId') \in {0, 2000}
    BY <2>1 DEF RecordMs
  <2>3. recordId * FrameMs \in Nat
    <3>1. recordId \in Nat /\ FrameMs \in Nat
      BY <2>1
    <3>2. QED
      BY ONLY <3>1
  <2>4. \/ CheckRequest(NewObject(recordId', RecordMs(recordId'), recordId * FrameMs))
        \/ NoNewObject("off")
    BY <1>3 DEF RecOnStop
  <2>5. /\ out' \in Object /\ acceptedSn' \in 0 .. MaxSessions
        /\ rec' \in {"add", "off", "talking"} /\ rec' # "talking"
        /\ rec' = "add" => out'.id = recordId'
    <3>1. CASE NoNewObject("off")
      BY <3>1 DEF NoNewObject
    <3>2. CASE CheckRequest(NewObject(recordId', RecordMs(recordId'), recordId * FrameMs))
      <4> HIDE DEF TypeInv, TypeOK
      <4>1. /\ out' \in Object /\ acceptedSn' \in 0 .. MaxSessions
            /\ rec' \in {"add", "off", "talking"} /\ (rec' = "talking" => recordId' >= 0)
        BY <2>2, <2>3, <3>2, TypeCheck
      <4>2. rec' = "add" => out'.id = recordId'
        BY <3>2 DEF CheckRequest, NewObject
      <4>3. QED
        BY <2>1, <4>1, <4>2
    <3>3. QED
      BY <2>4, <3>1, <3>2
  <2>6. UNCHANGED <<recordSn, session, epoch, timer, pcm, inbox, service, answer, wifi, lossy>>
    BY <1>3 DEF RecOnStop
  <2>7. QED
    BY <2>1, <2>5, <2>6
<1>4. CASE AddTail
  BY <1>4 DEF AddTail
<1>5. CASE SendMessage \/ ArmTimer
  <2>1. inbox' = inbox \/ inbox' = Append(inbox, "NEW_REQUEST")
    BY <1>5 DEF SendMessage, ArmTimer
  <2>2. inbox' \in Seq(Message)
    <3>1. inbox \in Seq(Message) /\ "NEW_REQUEST" \in Message
      BY DEF Message
    <3>2. QED
      BY ONLY <2>1, <3>1
  <2>3. /\ rec' \in {"off", "talking", "arm"}
        /\ rec' = "talking" => rec = "send" /\ out.id >= 0
        /\ out' \in Object
    BY <1>5, ObjectFields, NoObjectIsObject, SMTT(30) DEF SendMessage, ArmTimer, AfterSend
  <2>4. QED
    BY <1>5, <2>2, <2>3 DEF SendMessage, ArmTimer
<1>6. CASE SendRefused
  <2>1. [out EXCEPT !.freed = TRUE] \in Object
    <3>1. out \in Object
      OBVIOUS
    <3>2. QED
      BY <3>1, FreedIsObject
  <2>2. DOMAIN pcm = 1 .. Len(pcm) /\ Len(pcm) \in Nat
    OBVIOUS
  <2>3. pcm' = [i \in DOMAIN pcm |-> IF pcm[i] = out THEN [out EXCEPT !.freed = TRUE] ELSE pcm[i]]
    BY <1>6 DEF SendRefused
  <2>4. pcm' \in [1 .. Len(pcm) -> Object]
    BY <2>1, <2>2, <2>3, SMTT(30)
  <2>5. pcm' \in Seq(Object)
    BY <2>2, <2>4, SMTT(30)
  <2>6. /\ rec' \in {"off", "talking"} /\ out' \in Object
        /\ rec' = "talking" => rec = "send" /\ out.id >= 0
    <3>1. out.id \in Int
      BY ObjectFields
    <3>2. /\ rec = "send" /\ out' = NoObject
          /\ rec' = (IF out.id < 0 THEN "off" ELSE "talking")
      BY <1>6 DEF SendRefused
    <3>3. QED
      BY ONLY <3>1, <3>2, NoObjectIsObject
  <2>7. QED
    BY <1>6, <2>5, <2>6 DEF SendRefused
<1>7. QED
  BY <1>1, <1>2, <1>3, <1>4, <1>5, <1>6 DEF Recorder

LEMMA TypeRest ==
  ASSUME TypeInv, Service \/ ResultTimeout \/ WifiMessage \/ UNCHANGED vars
  PROVE  TypeInv'
<1> USE Bounds DEF TypeInv, TypeOK, recorder, service
<1>0. CASE ResultTimeout
  <2>1. recordSn' = 0 /\ 0 \in 0 .. MaxSessions /\ recordSn' <= session /\ epoch' \in Nat
    BY <1>0 DEF ResultTimeout
  <2>2. timer' \in BOOLEAN /\ UNCHANGED <<recorder, acceptedSn, pcm, inbox, service, answer, wifi, lossy>>
    BY <1>0 DEF ResultTimeout
  <2>3. QED
    BY <2>1, <2>2
<1>1. CASE WifiConnected \/ WifiDisconnected
  <2>1. inbox' \in Seq(Message)
    <3>1. inbox \in Seq(Message) /\ inbox # <<>> /\ inbox' = Tail(inbox)
      BY <1>1 DEF WifiConnected, WifiDisconnected
    <3>2. QED
      BY ONLY <3>1
  <2>2. recordSn' \in 0 .. MaxSessions /\ recordSn' <= session /\ epoch' \in Nat
    BY <1>1, SMTT(30) DEF WifiConnected, WifiDisconnected
  <2>3. timer' \in BOOLEAN /\ UNCHANGED <<recorder, acceptedSn, pcm, service, answer, wifi, lossy>>
    BY <1>1 DEF WifiConnected, WifiDisconnected
  <2>4. QED
    BY <2>1, <2>2, <2>3
<1>2. CASE WifiMessage
  <2>1. inbox' \in Seq(Message)
    <3>1. PICK m \in {"WIFI_CONNECTED", "WIFI_DISCONNECTED"} : inbox' = Append(inbox, m)
      BY <1>2 DEF WifiMessage
    <3>2. m \in Message /\ inbox \in Seq(Message)
      BY DEF Message
    <3>3. QED
      BY ONLY <3>1, <3>2
  <2>2. QED
    BY <1>2, <2>1 DEF WifiMessage
<1>3. CASE TakeRequest
  <2>1. inbox' \in Seq(Message)
    <3>1. inbox \in Seq(Message) /\ inbox # <<>> /\ inbox' = Tail(inbox)
      BY <1>3 DEF TakeRequest
    <3>2. QED
      BY ONLY <3>1
  <2>2. pcm' \in Seq(Object) /\ cur' \in Object /\ asr' \in {"idle", "begin", "write", "end", "gone"}
    <3>1. pcm \in Seq(Object) /\ cur \in Object /\ asr = "idle"
      BY <1>3 DEF TakeRequest
    <3>2. CASE pcm = <<>>
      BY <1>3, <3>1, <3>2 DEF TakeRequest
    <3>3. CASE pcm # <<>>
      <4>1. Head(pcm) \in Object /\ Tail(pcm) \in Seq(Object)
        BY ONLY <3>1, <3>3
      <4>2. QED
        BY <1>3, <3>3, <4>1 DEF TakeRequest, Stage
    <3>4. QED
      BY <3>2, <3>3
  <2>3. UNCHANGED <<recorder, recordSn, epoch, timer, acceptedSn, cloud, result, answer, wifi, lossy>>
    BY <1>3 DEF TakeRequest
  <2>4. QED
    BY <2>1, <2>2, <2>3
<1>4. CASE RecBegin
  <2>1. SpeechOf(cur) \in Speech /\ cur.sn \in 0 .. MaxSessions
    BY ObjectFields
  <2>2. cloud' \in Speech /\ result' \in [of : Speech, sn : 0 .. MaxSessions]
    BY <1>4, <2>1, NoObjectIsObject DEF RecBegin
  <2>3. QED
    BY <1>4, <2>2 DEF RecBegin
<1>5. CASE RecRuning
  BY <1>5, NoObjectIsObject DEF RecRuning
<1>6. CASE RecEnd
  <2>1. timer' = FALSE \/ timer' = timer
    BY <1>6 DEF RecEnd, OnResult
  <2>2. answer' \in [session : 0 .. MaxSessions, epoch : Nat, of : Speech]
    BY <1>6 DEF RecEnd, OnResult
  <2>3. QED
    BY <1>6, <2>1, <2>2, NoObjectIsObject DEF RecEnd
<1>7. CASE UNCHANGED vars
  BY <1>7 DEF vars
<1>8. QED
  BY <1>0, <1>1, <1>2, <1>3, <1>4, <1>5, <1>6, <1>7 DEF Service

LEMMA TypeNext == TypeInv /\ [Next]_vars => TypeInv'
  BY TypeRecorder, TypeRest DEF Next

\* The variables of the speech service always have values of their types, for
\* any number of recordings, objects and wifi messages.
THEOREM SpeechTypeCorrect == Spec => []TypeOK
<1>1. TypeInv => TypeOK
  BY DEF TypeInv
<1>2. QED
  BY <1>1, TypeInit, TypeNext, PTL DEF Spec

-----------------------------------------------------------------------------
(* Serial numbers, and answers to the last question. *)

TaggedInv == TypeInv /\ TagInv

LEMMA TagInit == Init => TaggedInv
<1> SUFFICES ASSUME Init PROVE TaggedInv
  OBVIOUS
<1>1. pcm = <<>> /\ DOMAIN pcm = {}
  BY DEF Init
<1>2. /\ epoch = 0 /\ recordSn = 0 /\ session = 0 /\ rec = "off" /\ asr = "idle"
      /\ result.of.session = 0 /\ result.of.epoch = 0 /\ result.sn = 0 /\ cloud.epoch = 0
      /\ answer.of.session = 0
  BY DEF Init, Nobody
<1>3. QED
  BY <1>1, <1>2, TypeInit DEF TaggedInv, TagInv, Tagged

\* The numbers, and everything tagged, in a form that arithmetic needs.
LEMMA TagTypes ==
  ASSUME TypeInv
  PROVE  /\ recordSn \in Nat /\ session \in Nat /\ epoch \in Nat /\ acceptedSn \in Nat
         /\ out \in Object /\ cur \in Object /\ result.of \in Speech /\ result.sn \in Nat
         /\ cloud \in Speech
         /\ \A i \in DOMAIN pcm : pcm[i] \in Object
         /\ \A x \in Object \cup Speech : x.epoch \in Nat /\ x.session \in Nat
         /\ \A x \in Object : x.sn \in Nat /\ x.id \in Int
<1>1. \A x \in Object \cup Speech : x.epoch \in Nat /\ x.session \in Nat
  BY Bounds DEF Object, Speech
<1>2. \A x \in Object : x.sn \in Nat /\ x.id \in Int
  BY Bounds DEF Object
<1>3. pcm \in Seq(Object)
  BY DEF TypeInv, TypeOK
<1>4. \A i \in DOMAIN pcm : pcm[i] \in Object
  BY ONLY <1>3
<1>5. QED
  BY <1>1, <1>2, <1>4, Bounds DEF TypeInv, TypeOK

LEMMA TagRecorder ==
  ASSUME TaggedInv, TypeInv', Recorder
  PROVE  TagInv'
<1> USE DEF TaggedInv, TagInv, recorder, service
<1>0. TypeInv
  OBVIOUS
<1>1. CASE RecOnStart
  <2>1. /\ UNCHANGED <<out, epoch, pcm, asr, cur, cloud, result, answer>>
        /\ rec' # "add" /\ recordSn' = recordSn + 1 /\ session' = session + 1
    BY <1>1 DEF RecOnStart
  <2>2. QED
    BY <1>0, <2>1, TagTypes DEF Tagged
<1>2. CASE RecOnData \/ RecOnStop
  <2>1. /\ UNCHANGED <<epoch, recordSn, session, pcm, asr, cur, cloud, result, answer>>
        /\ rec' = "add" => /\ out'.epoch = epoch /\ out'.sn = recordSn
                           /\ out'.session = session
    BY <1>2 DEF RecOnData, RecOnStop, CheckRequest, NoNewObject, NewObject
  <2>2. QED
    BY <1>0, <2>1, TagTypes DEF Tagged
<1>3. CASE AddTail
  <2>1. /\ UNCHANGED <<epoch, recordSn, session, out, asr, cur, cloud, result, answer>>
        /\ rec = "add" /\ rec' = "send" /\ pcm' = Append(pcm, out)
    BY <1>3 DEF AddTail
  <2>2. pcm \in Seq(Object) /\ out \in Object
    BY DEF TypeInv, TypeOK
  <2>3. \A i \in DOMAIN pcm' : (i \in DOMAIN pcm /\ pcm'[i] = pcm[i]) \/ pcm'[i] = out
    BY ONLY <2>1, <2>2
  <2>4. QED
    BY <2>1, <2>3 DEF Tagged
<1>4. CASE SendMessage \/ ArmTimer
  <2>1. /\ UNCHANGED <<epoch, recordSn, session, pcm, asr, cur, cloud, result, answer>>
        /\ rec' # "add"
    BY <1>4 DEF SendMessage, ArmTimer, AfterSend
  <2>2. QED
    BY <2>1 DEF Tagged
<1>5. CASE SendRefused
  <2>1. /\ UNCHANGED <<epoch, recordSn, session, asr, cur, cloud, result, answer>>
        /\ rec' # "add" /\ DOMAIN pcm' = DOMAIN pcm
        /\ \A i \in DOMAIN pcm : pcm'[i] = IF pcm[i] = out THEN [out EXCEPT !.freed = TRUE] ELSE pcm[i]
    BY <1>5 DEF SendRefused
  <2>2. \A o \in Object : LET x == [o EXCEPT !.freed = TRUE]
                          IN  x.epoch = o.epoch /\ x.session = o.session /\ x.sn = o.sn
    BY DEF Object
  <2>3. \A i \in DOMAIN pcm : /\ pcm'[i].epoch = pcm[i].epoch /\ pcm'[i].session = pcm[i].session
                              /\ pcm'[i].sn = pcm[i].sn
    BY <1>0, <2>1, <2>2, TagTypes
  <2>4. QED
    BY <2>1, <2>3 DEF Tagged
<1>6. QED
  BY <1>1, <1>2, <1>3, <1>4, <1>5 DEF Recorder

\* A reset of record_sn makes everything tagged so far one of an earlier epoch;
\* an answer is taken with the number of the last recording only.
LEMMA TagRest ==
  ASSUME TaggedInv, TypeInv', Service \/ ResultTimeout \/ WifiMessage \/ UNCHANGED vars
  PROVE  TagInv'
<1> USE DEF TaggedInv, TagInv, recorder, service
<1>0. TypeInv
  OBVIOUS
<1>1. CASE ResultTimeout \/ WifiConnected
  <2>1. /\ UNCHANGED <<rec, out, session, pcm, asr, cur, cloud, result, answer>>
        /\ epoch' = epoch + 1
    BY <1>1 DEF ResultTimeout, WifiConnected
  <2>2. QED
    BY <1>0, <2>1, TagTypes DEF Tagged
<1>2. CASE WifiMessage \/ WifiDisconnected \/ UNCHANGED vars
  <2>1. UNCHANGED <<rec, out, session, epoch, recordSn, pcm, asr, cur, cloud, result, answer>>
    BY <1>2 DEF WifiMessage, WifiDisconnected, vars
  <2>2. QED
    BY <2>1 DEF Tagged
<1>3. CASE TakeRequest
  <2>1. UNCHANGED <<rec, out, session, epoch, recordSn, cloud, result, answer>>
    BY <1>3 DEF TakeRequest
  <2>2. CASE pcm = <<>>
    <3>1. UNCHANGED <<pcm, asr, cur>>
      BY <1>3, <2>2 DEF TakeRequest
    <3>2. QED
      BY <2>1, <3>1 DEF Tagged
  <2>3. CASE pcm # <<>>
    <3>1. pcm' = Tail(pcm) /\ cur' = Head(pcm) /\ pcm \in Seq(Object)
      BY <1>3, <2>3 DEF TakeRequest, TypeInv, TypeOK
    <3>2. /\ 1 \in DOMAIN pcm /\ cur' = pcm[1]
          /\ \A i \in DOMAIN pcm' : i + 1 \in DOMAIN pcm /\ pcm'[i] = pcm[i + 1]
      BY ONLY <2>3, <3>1
    <3>3. QED
      BY <2>1, <3>2 DEF Tagged
  <2>4. QED
    BY <2>2, <2>3
<1>4. CASE RecBegin
  <2>1. /\ UNCHANGED <<rec, out, session, epoch, recordSn, pcm, cur, answer>> /\ asr = "begin"
        /\ result'.of.epoch = cur.epoch /\ result'.of.session = cur.session /\ result'.sn = cur.sn
        /\ cloud'.epoch \in {cur.epoch, 0}
    BY <1>4 DEF RecBegin, SpeechOf, Nobody
  <2>2. QED
    BY <1>0, <2>1, TagTypes DEF Tagged
<1>5. CASE RecRuning
  <2>1. UNCHANGED <<rec, out, session, epoch, recordSn, pcm, cloud, result, answer>> /\ asr' = "idle"
    BY <1>5 DEF RecRuning
  <2>2. QED
    BY <2>1 DEF Tagged
<1>6. CASE RecEnd
  <2>1. /\ UNCHANGED <<rec, out, session, epoch, recordSn, pcm, result>> /\ asr' = "idle"
        /\ cloud'.epoch = 0
    BY <1>6 DEF RecEnd, Nobody
  <2>2. \/ answer' = answer
        \/ /\ result.sn = recordSn
           /\ answer' = [session |-> session, epoch |-> epoch, of |-> result.of]
    BY <1>6 DEF RecEnd, OnResult
  <2>3. answer'.of.session # 0 =>
          answer'.of.session = answer'.session \/ answer'.of.epoch # answer'.epoch
    BY <1>0, <2>2, TagTypes DEF Tagged
  <2>4. QED
    BY <1>0, <2>1, <2>3, TagTypes DEF Tagged
<1>7. QED
  BY <1>1, <1>2, <1>3, <1>4, <1>5, <1>6 DEF Service

LEMMA TagNext == TaggedInv /\ [Next]_vars => TaggedInv'
  BY TypeNext, TagRecorder, TagRest DEF Next, TaggedInv

\* asr_service reports an answer only with the serial number of the recording it
\* was asked for, so that yt_dcl_rec_on_result takes none but the answer to what
\* the user said last, unless record_sn was reset in between.
THEOREM AnswersAreToTheLast == Spec => []AnswerIsToLastQuestion
<1>1. TaggedInv => AnswerIsToLastQuestion
  BY DEF TaggedInv, TagInv, AnswerIsToLastQuestion
<1>2. QED
  BY <1>1, TagInit, TagNext, PTL DEF Spec

-----------------------------------------------------------------------------
(* The order of the queue, and speech that stays in its session. *)

IsStart(o) == o.id = 1
IsMore(o) == o.id > 1

\* Two pieces of speech are of one recording, or of two epochs.
Same(c, o) == c.epoch = o.epoch => c.session = o.session

NoStartIn(m, n) == \A k \in DOMAIN pcm : m < k /\ k < n => ~IsStart(pcm[k])

\* The speech in whose cloud session the first queued object will be written.
Open == IF asr = "begin" THEN SpeechOf(cur) ELSE cloud

\* An object that is queued follows the start of its own recording.
FollowsStart(o, n) ==
  /\ \A i \in DOMAIN pcm : i < n /\ IsStart(pcm[i]) /\ NoStartIn(i, n) => Same(pcm[i], o)
  /\ NoStartIn(0, n) /\ Open # Nobody => Same(Open, o)

\* acceptedSn is the number of the recording that started last in the queue.
AcceptsOnly(x) == x.epoch = epoch => session - x.session = recordSn - acceptedSn

AcceptInv ==
  IF rec = "add" /\ IsStart(out) THEN AcceptsOnly(out)
  ELSE /\ \A i \in DOMAIN pcm : IsStart(pcm[i]) /\ NoStartIn(i, Len(pcm) + 1) => AcceptsOnly(pcm[i])
       /\ NoStartIn(0, Len(pcm) + 1) /\ Open # Nobody => AcceptsOnly(Open)

OrderInv ==
  asr # "gone" =>
    /\ \A j \in DOMAIN pcm : IsMore(pcm[j]) => FollowsStart(pcm[j], j)
    /\ rec = "add" /\ IsMore(out) => FollowsStart(out, Len(pcm) + 1)
    /\ AcceptInv
    /\ asr = "write" /\ cloud # Nobody => Same(cloud, cur)

SpeechInv == TaggedInv /\ OrderInv

LEMMA OrderInit == Init => OrderInv
<1> SUFFICES ASSUME Init PROVE OrderInv
  OBVIOUS
<1>1. pcm = <<>> /\ DOMAIN pcm = {} /\ rec = "off" /\ asr = "idle" /\ cloud = Nobody
  BY DEF Init
<1>2. QED
  BY <1>1 DEF OrderInv, AcceptInv, FollowsStart, Open

\* The object on_start's, on_data's or on_stop's callback makes is accepted at its
\* start, or when nothing of another recording of this epoch started after it.
LEMMA OrderRecorder ==
  ASSUME SpeechInv, TypeInv', Recorder
  PROVE  OrderInv'
<1> USE DEF SpeechInv, TaggedInv, recorder, service
<1>0. TypeInv
  OBVIOUS
<1> SUFFICES ASSUME asr' # "gone" PROVE OrderInv'
  BY DEF OrderInv
<1>a. asr = asr' /\ cloud' = cloud /\ cur' = cur /\ asr # "gone" /\ epoch' = epoch
  BY DEF Recorder, RecOnStart, RecOnData, RecOnStop, AddTail, SendMessage, SendRefused, ArmTimer
<1>b. Open' = Open
  BY <1>a DEF Open
<1>1. CASE RecOnStart
  <2>1. /\ pcm' = pcm /\ acceptedSn' = acceptedSn
        /\ rec # "add" /\ rec' # "add" /\ recordSn' = recordSn + 1 /\ session' = session + 1
    BY <1>1 DEF RecOnStart
  <2>2. \A x \in Object \cup Speech : AcceptsOnly(x) => AcceptsOnly(x)'
    BY <1>0, <1>a, <2>1, TagTypes DEF AcceptsOnly
  <2>3. \A i \in DOMAIN pcm : pcm[i] \in Object
    BY <1>0, TagTypes
  <2>4. Open \in Speech
    BY <1>0, TagTypes, ObjectFields DEF Open
  <2>5. AcceptInv'
    BY <1>a, <1>b, <2>1, <2>2, <2>3, <2>4 DEF OrderInv, AcceptInv, NoStartIn
  <2>6. QED
    BY <1>a, <1>b, <2>1, <2>5 DEF OrderInv, FollowsStart, NoStartIn
<1>2. CASE RecOnData \/ RecOnStop
  <2>1. pcm' = pcm /\ recordSn' = recordSn /\ session' = session /\ rec = "talking"
    BY <1>2 DEF RecOnData, RecOnStop
  <2>2. CASE rec' # "add" /\ acceptedSn' = acceptedSn
    <3>1. AcceptInv'
      BY <1>a, <1>b, <2>1, <2>2 DEF OrderInv, AcceptInv, NoStartIn, AcceptsOnly
    <3>2. QED
      BY <1>a, <1>b, <2>1, <2>2, <3>1 DEF OrderInv, FollowsStart, NoStartIn
  <2>3. CASE rec' = "add" /\ IsStart(out') /\ acceptedSn' = recordSn /\ out'.session = session
    <3>1. AcceptInv'
      BY <1>0, <1>a, <2>1, <2>3, TagTypes DEF AcceptInv, AcceptsOnly
    <3>2. ~IsMore(out')
      BY <2>3 DEF IsStart, IsMore
    <3>3. QED
      BY <1>a, <1>b, <2>1, <2>3, <3>1, <3>2 DEF OrderInv, FollowsStart, NoStartIn
  <2>4. CASE /\ rec' = "add" /\ ~IsStart(out') /\ acceptedSn' = acceptedSn /\ acceptedSn = recordSn
             /\ out'.session = session /\ out'.epoch = epoch
    <3>1. AcceptInv'
      BY <1>a, <1>b, <2>1, <2>4 DEF OrderInv, AcceptInv, NoStartIn, AcceptsOnly
    <3>2. \A x \in Object \cup Speech : AcceptsOnly(x) => Same(x, out')
      BY <1>0, <2>4, TagTypes DEF AcceptsOnly, Same
    <3>3. Open \in Speech /\ \A i \in DOMAIN pcm : pcm[i] \in Object
      BY <1>0, TagTypes, ObjectFields DEF Open
    <3>4. FollowsStart(out', Len(pcm) + 1)
      BY <1>a, <2>1, <3>2, <3>3 DEF OrderInv, AcceptInv, FollowsStart
    <3>5. FollowsStart(out, Len(pcm) + 1)'
      BY <1>b, <2>1, <3>4 DEF FollowsStart, NoStartIn
    <3>6. QED
      BY <1>a, <1>b, <2>1, <2>4, <3>1, <3>5 DEF OrderInv, FollowsStart, NoStartIn
  <2>5. QED
    BY <1>2, <2>2, <2>3, <2>4
    DEF RecOnData, RecOnStop, CheckRequest, NoNewObject, NewObject, IsStart, TypeInv, TypeOK
<1>3. CASE AddTail
  <2>1. /\ UNCHANGED <<recordSn, session, acceptedSn, out>> /\ rec = "add" /\ rec' = "send"
        /\ pcm' = Append(pcm, out)
    BY <1>3 DEF AddTail
  <2>2. /\ Len(pcm) \in Nat /\ DOMAIN pcm = 1 .. Len(pcm) /\ DOMAIN pcm' = 1 .. Len(pcm) + 1
        /\ Len(pcm') = Len(pcm) + 1 /\ pcm'[Len(pcm) + 1] = out
        /\ \A i \in 1 .. Len(pcm) : pcm'[i] = pcm[i]
    <3>1. pcm \in Seq(Object) /\ out \in Object
      BY DEF TypeInv, TypeOK
    <3>2. QED
      BY ONLY <2>1, <3>1
  <2>3. \A m \in Nat : \A n \in 0 .. Len(pcm) + 1 : NoStartIn(m, n)' => NoStartIn(m, n)
    BY <2>2 DEF NoStartIn
  <2>4. \A o : \A n \in 0 .. Len(pcm) + 1 : FollowsStart(o, n) => FollowsStart(o, n)'
    BY <1>b, <2>2, <2>3 DEF FollowsStart
  <2>5. ASSUME NEW j \in DOMAIN pcm', IsMore(pcm'[j]) PROVE FollowsStart(pcm[j], j)'
    <3>1. CASE j = Len(pcm) + 1
      BY <1>a, <2>1, <2>2, <2>4, <2>5, <3>1 DEF OrderInv
    <3>2. CASE j \in 1 .. Len(pcm)
      BY <1>a, <2>2, <2>4, <2>5, <3>2 DEF OrderInv
    <3>3. QED
      BY <2>2, <3>1, <3>2
  <2>6. AcceptInv'
    <3>1. \A m \in Nat : NoStartIn(m, Len(pcm) + 1)' /\ m < Len(pcm) + 1 =>
            ~IsStart(out) /\ NoStartIn(m, Len(pcm) + 1)
      <4> SUFFICES ASSUME NEW m \in Nat, NoStartIn(m, Len(pcm) + 1)', m < Len(pcm) + 1
                   PROVE  ~IsStart(out) /\ NoStartIn(m, Len(pcm) + 1)
        OBVIOUS
      <4>1. Len(pcm) + 1 \in DOMAIN pcm' /\ Len(pcm) + 1 < Len(pcm') + 1
        BY <2>2
      <4>2. ~IsStart(pcm'[Len(pcm) + 1])
        BY <4>1 DEF NoStartIn, IsStart
      <4>3. NoStartIn(m, Len(pcm) + 1)
        BY <2>2 DEF NoStartIn, IsStart
      <4>4. QED
        BY <2>2, <4>2, <4>3
    <3>2. \A x : AcceptsOnly(x) => AcceptsOnly(x)'
      BY <1>a, <2>1 DEF AcceptsOnly
    <3>3. AcceptInv
      BY <1>a DEF OrderInv
    <3>4. ASSUME NEW i \in DOMAIN pcm', IsStart(pcm'[i]), NoStartIn(i, Len(pcm) + 1)'
          PROVE  AcceptsOnly(pcm[i])'
      <4>1. CASE i = Len(pcm) + 1
        BY <2>1, <2>2, <3>2, <3>3, <3>4, <4>1 DEF AcceptInv, AcceptsOnly
      <4>2. CASE i \in 1 .. Len(pcm)
        <5>1. ~IsStart(out) /\ NoStartIn(i, Len(pcm) + 1)
          BY <2>2, <3>1, <3>4, <4>2
        <5>2. AcceptsOnly(pcm[i])
          BY <2>2, <3>3, <3>4, <4>2, <5>1 DEF AcceptInv
        <5>3. QED
          BY <1>a, <2>1, <2>2, <4>2, <5>2 DEF AcceptsOnly
      <4>3. QED
        BY <2>2, <4>1, <4>2
    <3>5. NoStartIn(0, Len(pcm) + 1)' /\ Open' # Nobody => AcceptsOnly(Open)'
      BY <1>a, <1>b, <2>1, <2>2, <3>1, <3>2, <3>3 DEF AcceptInv, AcceptsOnly
    <3>6. QED
      BY <2>1, <3>4, <3>5 DEF AcceptInv
  <2>7. QED
    BY <1>a, <2>1, <2>5, <2>6 DEF OrderInv
<1>4. CASE SendMessage \/ ArmTimer
  <2>1. UNCHANGED <<recordSn, session, acceptedSn, pcm>> /\ rec # "add" /\ rec' # "add"
    BY <1>4 DEF SendMessage, ArmTimer, AfterSend
  <2>2. AcceptInv'
    BY <1>a, <1>b, <2>1 DEF OrderInv, AcceptInv, NoStartIn, AcceptsOnly
  <2>3. QED
    BY <1>a, <1>b, <2>1, <2>2 DEF OrderInv, FollowsStart, NoStartIn
<1>5. CASE SendRefused
  <2>1. /\ UNCHANGED <<recordSn, session, acceptedSn>> /\ rec # "add" /\ rec' # "add"
        /\ DOMAIN pcm' = DOMAIN pcm
        /\ \A i \in DOMAIN pcm : pcm'[i] = IF pcm[i] = out THEN [out EXCEPT !.freed = TRUE] ELSE pcm[i]
    BY <1>5 DEF SendRefused
  <2>2. \A o \in Object : LET x == [o EXCEPT !.freed = TRUE]
                          IN  x.epoch = o.epoch /\ x.session = o.session /\ x.id = o.id
    BY DEF Object
  <2>3. \A i \in DOMAIN pcm : /\ pcm'[i].epoch = pcm[i].epoch /\ pcm'[i].session = pcm[i].session
                              /\ pcm'[i].id = pcm[i].id
    BY <1>0, <2>1, <2>2, TagTypes
  <2>4. Len(pcm') = Len(pcm)
    <3>1. pcm \in Seq(Object) /\ pcm' \in Seq(Object)
      BY DEF TypeInv, TypeOK
    <3>2. QED
      BY ONLY <2>1, <3>1
  <2>5. \A m, n : NoStartIn(m, n)' <=> NoStartIn(m, n)
    BY <2>1, <2>3 DEF NoStartIn, IsStart
  <2>6. AcceptInv'
    BY <1>a, <1>b, <2>1, <2>3, <2>4, <2>5 DEF OrderInv, AcceptInv, AcceptsOnly, IsStart
  <2>7. QED
    BY <1>a, <1>b, <2>1, <2>3, <2>5, <2>6 DEF OrderInv, FollowsStart, Same, IsStart, IsMore
<1>6. QED
  BY <1>1, <1>2, <1>3, <1>4, <1>5 DEF Recorder

\* After a reset of record_sn nothing in the queue is of the current epoch.
LEMMA OrderReset ==
  ASSUME SpeechInv, ResultTimeout \/ WifiConnected
  PROVE  OrderInv'
<1> USE DEF SpeechInv, TaggedInv, recorder, service
<1>0. TypeInv
  OBVIOUS
<1> SUFFICES ASSUME asr' # "gone" PROVE OrderInv'
  BY DEF OrderInv
<1>1. /\ UNCHANGED <<rec, out, pcm, asr, cur, cloud>> /\ epoch' = epoch + 1
  BY DEF ResultTimeout, WifiConnected
<1>2. \A x \in Object \cup Speech : x.epoch <= epoch => AcceptsOnly(x)'
  BY <1>0, <1>1, TagTypes DEF AcceptsOnly
<1>3. Open' = Open /\ Open \in Speech /\ (Open # Nobody => Open.epoch <= epoch)
  BY <1>0, <1>1, TagTypes, ObjectFields DEF Open, TagInv, Tagged, SpeechOf
<1>4. \A i \in DOMAIN pcm : pcm[i] \in Object /\ pcm[i].epoch <= epoch
  BY <1>0, TagTypes DEF TagInv, Tagged
<1>5. out \in Object /\ (rec = "add" => out.epoch <= epoch)
  BY <1>0, TagTypes DEF TagInv, Tagged
<1>6. AcceptInv'
  BY <1>1, <1>2, <1>3, <1>4, <1>5 DEF AcceptInv, AcceptsOnly
<1>7. QED
  BY <1>1, <1>3, <1>6 DEF OrderInv, FollowsStart, NoStartIn

\* The first object of the queue becomes the one the service works on.
LEMMA OrderTake ==
  ASSUME SpeechInv, TakeRequest, pcm # <<>>
  PROVE  OrderInv'
<1> USE DEF SpeechInv, TaggedInv, recorder, service
<1>0. TypeInv
  OBVIOUS
<1> SUFFICES ASSUME asr' # "gone" PROVE OrderInv'
  BY DEF OrderInv
<1>1. /\ UNCHANGED <<rec, out, session, epoch, recordSn, acceptedSn, cloud>>
      /\ asr = "idle" /\ pcm' = Tail(pcm) /\ cur' = Head(pcm) /\ asr' = Stage(Head(pcm))
  BY DEF TakeRequest
<1>2. /\ Len(pcm) \in Nat /\ Len(pcm) > 0 /\ DOMAIN pcm = 1 .. Len(pcm) /\ cur' = pcm[1]
      /\ Len(pcm') = Len(pcm) - 1 /\ DOMAIN pcm' = 1 .. Len(pcm) - 1
      /\ \A i \in 1 .. Len(pcm) - 1 : pcm'[i] = pcm[i + 1]
  <2>1. pcm \in Seq(Object) /\ pcm # <<>>
    BY DEF TypeInv, TypeOK
  <2>2. QED
    BY ONLY <1>1, <2>1
<1>3. pcm[1] \in Object /\ pcm[1].id \in Int
  BY <1>0, <1>2, TagTypes
<1>4. Open = cloud
  BY <1>1 DEF Open
<1>5. Open' = IF IsStart(pcm[1]) THEN SpeechOf(pcm[1]) ELSE cloud
  BY <1>1, <1>2, <1>3 DEF Open, Stage, IsStart
<1>6. ASSUME NEW m \in Nat, NEW n \in Nat, NoStartIn(m, n)' PROVE NoStartIn(m + 1, n + 1)
  <2>1. ASSUME NEW k \in DOMAIN pcm, m + 1 < k, k < n + 1 PROVE ~IsStart(pcm[k])
    <3>1. k - 1 \in DOMAIN pcm' /\ m < k - 1 /\ k - 1 < n /\ pcm'[k - 1] = pcm[k]
      BY <1>2, <2>1
    <3>2. ~IsStart(pcm'[k - 1])
      BY <1>6, <3>1 DEF NoStartIn, IsStart
    <3>3. QED
      BY <3>1, <3>2
  <2>2. QED
    BY <2>1 DEF NoStartIn
<1>7. ASSUME NEW n \in Nat, NoStartIn(1, n), ~IsStart(pcm[1]) PROVE NoStartIn(0, n)
  BY <1>2, <1>7 DEF NoStartIn
<1>8. ASSUME NEW o, NEW n \in Nat, n >= 1, FollowsStart(o, n + 1) PROVE FollowsStart(o, n)'
  <2>1. ASSUME NEW i \in DOMAIN pcm', i < n, IsStart(pcm'[i]), NoStartIn(i, n)'
        PROVE  Same(pcm'[i], o)
    <3>1. i + 1 \in DOMAIN pcm /\ i + 1 < n + 1 /\ pcm'[i] = pcm[i + 1] /\ i \in Nat
      BY <1>2, <2>1
    <3>2. NoStartIn(i + 1, n + 1)
      BY <1>6, <2>1, <3>1
    <3>3. QED
      BY <1>8, <2>1, <3>1, <3>2 DEF FollowsStart
  <2>2. ASSUME NoStartIn(0, n)', Open' # Nobody PROVE Same(Open', o)
    <3>1. NoStartIn(1, n + 1)
      BY <1>6, <2>2
    <3>2. CASE IsStart(pcm[1])
      <4>1. Same(pcm[1], o)
        BY <1>2, <1>8, <3>1, <3>2 DEF FollowsStart
      <4>2. QED
        BY <1>5, <3>2, <4>1 DEF Same, SpeechOf
    <3>3. CASE ~IsStart(pcm[1])
      BY <1>4, <1>5, <1>7, <1>8, <2>2, <3>1, <3>3 DEF FollowsStart
    <3>4. QED
      BY <3>2, <3>3
  <2>3. QED
    BY <2>1, <2>2 DEF FollowsStart, Same, IsStart
<1>9. ASSUME NEW j \in DOMAIN pcm', IsMore(pcm'[j]) PROVE FollowsStart(pcm[j], j)'
  <2>1. j + 1 \in DOMAIN pcm /\ pcm'[j] = pcm[j + 1] /\ j \in Nat /\ j >= 1
    BY <1>2
  <2>2. FollowsStart(pcm[j + 1], j + 1)
    BY <1>1, <1>9, <2>1 DEF OrderInv
  <2>3. QED
    BY <1>8, <2>1, <2>2 DEF FollowsStart, Same
<1>10. rec' = "add" /\ IsMore(out') => FollowsStart(out, Len(pcm) + 1)'
  <2> SUFFICES ASSUME rec' = "add", IsMore(out') PROVE FollowsStart(out, Len(pcm) + 1)'
    OBVIOUS
  <2>1. FollowsStart(out, Len(pcm) + 1)
    BY <1>1 DEF OrderInv
  <2>2. Len(pcm) >= 1
    BY <1>2
  <2>3. QED
    BY <1>1, <1>2, <1>8, <2>1, <2>2 DEF FollowsStart, Same
<1>11. AcceptInv'
  <2>1. AcceptInv /\ \A x : AcceptsOnly(x)' <=> AcceptsOnly(x)
    BY <1>1 DEF OrderInv, AcceptsOnly
  <2>2. CASE rec = "add" /\ IsStart(out)
    BY <1>1, <2>1, <2>2 DEF AcceptInv, AcceptsOnly
  <2>3. CASE ~(rec = "add" /\ IsStart(out))
    <3>1. ASSUME NEW i \in DOMAIN pcm', IsStart(pcm'[i]), NoStartIn(i, Len(pcm) + 1)'
          PROVE  AcceptsOnly(pcm[i])'
      <4>1. i + 1 \in DOMAIN pcm /\ pcm'[i] = pcm[i + 1] /\ i \in Nat /\ Len(pcm') + 1 = Len(pcm)
        BY <1>2
      <4>2. NoStartIn(i + 1, Len(pcm) + 1)
        BY <1>2, <1>6, <3>1, <4>1
      <4>3. AcceptsOnly(pcm[i + 1])
        BY <2>1, <2>3, <3>1, <4>1, <4>2 DEF AcceptInv
      <4>4. QED
        BY <1>1, <4>1, <4>3 DEF AcceptsOnly
    <3>2. ASSUME NoStartIn(0, Len(pcm) + 1)', Open' # Nobody PROVE AcceptsOnly(Open)'
      <4>1. NoStartIn(1, Len(pcm) + 1)
        BY <1>2, <1>6, <3>2
      <4>2. CASE IsStart(pcm[1])
        <5>1. AcceptsOnly(pcm[1])
          BY <1>2, <2>1, <2>3, <4>1, <4>2 DEF AcceptInv
        <5>2. QED
          BY <1>1, <1>5, <4>2, <5>1 DEF AcceptsOnly, SpeechOf
      <4>3. CASE ~IsStart(pcm[1])
        <5>1. NoStartIn(0, Len(pcm) + 1)
          BY <1>2, <1>7, <4>1, <4>3
        <5>2. AcceptsOnly(cloud)
          BY <1>4, <1>5, <2>1, <2>3, <3>2, <4>3, <5>1 DEF AcceptInv
        <5>3. QED
          BY <1>1, <1>5, <4>3, <5>2 DEF AcceptsOnly
      <4>4. QED
        BY <4>2, <4>3
    <3>3. QED
      BY <1>1, <2>3, <3>1, <3>2 DEF AcceptInv
  <2>4. QED
    BY <2>2, <2>3
<1>12. asr' = "write" /\ cloud' # Nobody => Same(cloud, cur)'
  <2> SUFFICES ASSUME asr' = "write", cloud' # Nobody PROVE Same(cloud', cur')
    BY DEF Same
  <2>1. IsMore(pcm[1]) /\ 1 \in DOMAIN pcm /\ NoStartIn(0, 1)
    BY <1>1, <1>2, <1>3 DEF Stage, IsMore, NoStartIn
  <2>2. QED
    BY <1>1, <1>2, <1>4, <2>1 DEF OrderInv, FollowsStart
<1>13. QED
  BY <1>9, <1>10, <1>11, <1>12 DEF OrderInv

LEMMA OrderRest ==
  ASSUME SpeechInv, Service \/ ResultTimeout \/ WifiMessage \/ UNCHANGED vars
  PROVE  OrderInv'
<1> USE DEF SpeechInv, TaggedInv, recorder, service
<1>1. CASE ResultTimeout \/ WifiConnected
  BY <1>1, OrderReset
<1>2. CASE TakeRequest /\ pcm # <<>>
  BY <1>2, OrderTake
<1>3. ASSUME UNCHANGED <<rec, out, session, epoch, recordSn, acceptedSn, pcm>>,
             Open' = Open \/ Open' = Nobody,
             asr' # "gone" => asr # "gone",
             asr' = "write" /\ cloud' # Nobody => Same(cloud', cur')
      PROVE  OrderInv'
  <2> SUFFICES ASSUME asr' # "gone" PROVE OrderInv'
    BY DEF OrderInv
  <2>1. AcceptInv'
    BY <1>3 DEF OrderInv, AcceptInv, NoStartIn, AcceptsOnly
  <2>2. QED
    BY <1>3, <2>1 DEF OrderInv, FollowsStart, NoStartIn, Same
<1>4. CASE \/ WifiMessage \/ WifiDisconnected \/ UNCHANGED vars
           \/ TakeRequest /\ pcm = <<>>
  <2>1. UNCHANGED <<rec, out, session, epoch, recordSn, acceptedSn, pcm, asr, cur, cloud>>
    BY <1>4 DEF WifiMessage, WifiDisconnected, vars, TakeRequest
  <2>2. asr # "gone" /\ asr = "write" /\ cloud # Nobody => Same(cloud, cur)
    BY DEF OrderInv
  <2>3. QED
    BY <1>3, <2>1, <2>2 DEF Open
<1>5. CASE RecBegin
  <2>1. /\ UNCHANGED <<rec, out, session, epoch, recordSn, acceptedSn, pcm, cur>>
        /\ asr = "begin" /\ asr' = "write" /\ cloud' \in {SpeechOf(cur), Nobody}
    BY <1>5 DEF RecBegin
  <2>2. cloud' # Nobody => Same(cloud', cur')
    BY <2>1 DEF Same, SpeechOf
  <2>3. QED
    BY <1>3, <2>1, <2>2 DEF Open
<1>6. CASE RecRuning \/ RecEnd
  <2>1. /\ UNCHANGED <<rec, out, session, epoch, recordSn, acceptedSn, pcm>>
        /\ asr \in {"write", "end"} /\ asr' = "idle" /\ cloud' \in {cloud, Nobody}
    BY <1>6 DEF RecRuning, RecEnd
  <2>2. QED
    BY <1>3, <2>1 DEF Open
<1>7. QED
  BY <1>1, <1>2, <1>4, <1>5, <1>6 DEF Service

LEMMA SpeechNext == SpeechInv /\ [Next]_vars => SpeechInv'
<1> SUFFICES ASSUME SpeechInv, [Next]_vars PROVE SpeechInv'
  OBVIOUS
<1>1. TaggedInv' /\ TypeInv'
  BY TagNext DEF SpeechInv, TaggedInv
<1>2. OrderInv'
  BY <1>1, OrderRecorder, OrderRest DEF Next
<1>3. QED
  BY <1>1, <1>2 DEF SpeechInv

\* asr_rec_runing writes speech only to the session that asr_rec_begin opened for
\* the same recording, although its objects, its session and the number that
\* asr_service_send_request accepts may each be lost: for any number of
\* recordings, objects and wifi messages, unless record_sn was reset in between.
THEOREM SpeechIsNotMixed == Spec => []SpeechStaysInSession
<1>1. SpeechInv => SpeechStaysInSession
  BY DEF SpeechInv, OrderInv, Same, SpeechStaysInSession
<1>2. QED
  BY <1>1, TagInit, OrderInit, SpeechNext, PTL DEF Spec, SpeechInv

-----------------------------------------------------------------------------
(* Messages and queued objects. *)

RequestsIn(s) == {i \in DOMAIN s : s[i] = "NEW_REQUEST"}

LEMMA RequestsFinite ==
  ASSUME NEW s \in Seq(Message)
  PROVE  IsFiniteSet(RequestsIn(s)) /\ Cardinality(RequestsIn(s)) \in Nat
<1>1. Len(s) \in Nat /\ DOMAIN s = 1 .. Len(s)
  OBVIOUS
<1>2. IsFiniteSet(1 .. Len(s))
  BY <1>1, FS_Interval
<1>3. IsFiniteSet(RequestsIn(s))
  BY <1>1, <1>2, FS_Subset DEF RequestsIn
<1>4. QED
  BY <1>3, FS_CardinalityType

LEMMA RequestsOfAppend ==
  ASSUME NEW s \in Seq(Message), NEW m \in Message
  PROVE  Cardinality(RequestsIn(Append(s, m)))
           = Cardinality(RequestsIn(s)) + (IF m = "NEW_REQUEST" THEN 1 ELSE 0)
<1>1. /\ Len(s) \in Nat /\ DOMAIN s = 1 .. Len(s) /\ DOMAIN Append(s, m) = 1 .. Len(s) + 1
      /\ Append(s, m)[Len(s) + 1] = m /\ \A i \in 1 .. Len(s) : Append(s, m)[i] = s[i]
  OBVIOUS
<1>2. CASE m = "NEW_REQUEST"
  <2>1. RequestsIn(Append(s, m)) = RequestsIn(s) \cup {Len(s) + 1}
    BY <1>1, <1>2 DEF RequestsIn
  <2>2. Len(s) + 1 \notin RequestsIn(s)
    BY <1>1 DEF RequestsIn
  <2>3. QED
    BY <1>2, <2>1, <2>2, RequestsFinite, FS_AddElement
<1>3. CASE m # "NEW_REQUEST"
  <2>1. RequestsIn(Append(s, m)) = RequestsIn(s)
    BY <1>1, <1>3 DEF RequestsIn
  <2>2. QED
    BY <1>3, <2>1, RequestsFinite
<1>4. QED
  BY <1>2, <1>3

LEMMA RequestsOfTail ==
  ASSUME NEW s \in Seq(Message), s # <<>>
  PROVE  Cardinality(RequestsIn(Tail(s)))
           <= Cardinality(RequestsIn(s)) - (IF Head(s) = "NEW_REQUEST" THEN 1 ELSE 0)
<1>1. /\ Len(s) \in Nat /\ Len(s) > 0 /\ DOMAIN s = 1 .. Len(s) /\ DOMAIN Tail(s) = 1 .. Len(s) - 1
      /\ Head(s) = s[1] /\ \A i \in 1 .. Len(s) - 1 : Tail(s)[i] = s[i + 1]
      /\ Tail(s) \in Seq(Message)
  OBVIOUS
<1> DEFINE S == RequestsIn(s) \ {1}
           T == RequestsIn(Tail(s))
           f == [i \in S |-> i - 1]
<1>2. ASSUME NEW i \in S PROVE i - 1 \in T
  BY <1>1 DEF RequestsIn
<1>3. ASSUME NEW j \in T PROVE j + 1 \in S /\ f[j + 1] = j
  <2>1. j \in 1 .. Len(s) - 1 /\ Tail(s)[j] = "NEW_REQUEST"
    BY <1>1 DEF RequestsIn
  <2>2. j + 1 \in S
    BY <1>1, <2>1 DEF RequestsIn
  <2>3. QED
    BY <2>1, <2>2
<1>4. f \in Surjection(S, T)
  <2>1. f \in [S -> T]
    BY <1>2
  <2>2. \A j \in T : \E i \in S : f[i] = j
    BY <1>3
  <2>3. QED
    BY <2>1, <2>2 DEF Surjection
<1>5. /\ IsFiniteSet(RequestsIn(s)) /\ Cardinality(RequestsIn(s)) \in Nat
      /\ IsFiniteSet(T) /\ Cardinality(T) \in Nat
  BY <1>1, RequestsFinite
<1>6. /\ IsFiniteSet(S)
      /\ Cardinality(S) = Cardinality(RequestsIn(s)) - (IF Head(s) = "NEW_REQUEST" THEN 1 ELSE 0)
  <2>1. 1 \in RequestsIn(s) <=> Head(s) = "NEW_REQUEST"
    BY <1>1 DEF RequestsIn
  <2>2. QED
    BY <1>5, <2>1, FS_RemoveElement
<1> HIDE DEF S, T, f
<1>7. Cardinality(T) <= Cardinality(S)
  BY <1>4, <1>6, FS_Surjection
<1>8. QED
  BY <1>6, <1>7 DEF T

\* A message that is still to be sent counts as one that is there.
CountInv ==
  TypeInv /\ Cardinality(RequestsIn(inbox)) + (IF rec = "send" THEN 1 ELSE 0) <= Len(pcm)

LEMMA CountInit == Init => CountInv
<1> SUFFICES ASSUME Init PROVE CountInv
  OBVIOUS
<1>1. RequestsIn(inbox) = {} /\ Len(pcm) = 0 /\ rec = "off"
  BY DEF Init, RequestsIn
<1>2. QED
  BY <1>1, TypeInit, FS_EmptySet DEF CountInv

LEMMA CountNext == CountInv /\ [Next]_vars => CountInv'
<1> SUFFICES ASSUME CountInv, [Next]_vars PROVE CountInv'
  OBVIOUS
<1>1. TypeInv /\ TypeInv'
  BY TypeNext DEF CountInv
<1>2. /\ inbox \in Seq(Message) /\ inbox' \in Seq(Message) /\ pcm \in Seq(Object)
      /\ pcm' \in Seq(Object) /\ out \in Object
      /\ "NEW_REQUEST" \in Message /\ "WIFI_CONNECTED" \in Message /\ "WIFI_DISCONNECTED" \in Message
  BY <1>1 DEF TypeInv, TypeOK, Message
<1>3. /\ Len(pcm) \in Nat /\ Len(pcm') \in Nat
      /\ Cardinality(RequestsIn(inbox)) \in Nat /\ Cardinality(RequestsIn(inbox')) \in Nat
  BY <1>2, RequestsFinite
<1> DEFINE C == Cardinality(RequestsIn(inbox))
           D == Cardinality(RequestsIn(inbox'))
<1> SUFFICES D + (IF rec' = "send" THEN 1 ELSE 0) <= Len(pcm')
  BY <1>1 DEF CountInv
<1>4. C + (IF rec = "send" THEN 1 ELSE 0) <= Len(pcm)
  BY DEF CountInv
<1> USE DEF recorder, service
<1>5. CASE AddTail
  <2>1. inbox' = inbox /\ rec = "add" /\ rec' = "send" /\ Len(pcm') = Len(pcm) + 1
    BY <1>2, <1>5 DEF AddTail
  <2>2. QED
    BY <1>3, <1>4, <2>1
<1>6. CASE SendMessage
  <2>1. pcm' = pcm /\ rec = "send" /\ rec' # "send"
        /\ (inbox' = inbox \/ inbox' = Append(inbox, "NEW_REQUEST"))
    BY <1>6 DEF SendMessage, AfterSend
  <2>2. D <= C + 1
    <3>1. Cardinality(RequestsIn(Append(inbox, "NEW_REQUEST"))) = C + 1
      BY <1>2, RequestsOfAppend
    <3>2. CASE inbox' = inbox
      BY <1>3, <3>2
    <3>3. CASE inbox' = Append(inbox, "NEW_REQUEST")
      <4>1. D = C + 1
        BY <3>1, <3>3
      <4>2. QED
        BY <1>3, <4>1
    <3>4. QED
      BY <2>1, <3>2, <3>3
  <2>3. QED
    BY <1>3, <1>4, <2>1, <2>2
<1>7. CASE SendRefused
  <2>1. inbox' = inbox /\ rec' # "send" /\ DOMAIN pcm' = DOMAIN pcm
    BY <1>7 DEF SendRefused
  <2>2. Len(pcm') = Len(pcm)
    BY ONLY <1>2, <2>1
  <2>3. QED
    BY <1>3, <1>4, <2>1, <2>2
<1>8. CASE WifiMessage
  <2>1. PICK m \in {"WIFI_CONNECTED", "WIFI_DISCONNECTED"} : inbox' = Append(inbox, m)
    BY <1>8 DEF WifiMessage
  <2>2. pcm' = pcm /\ rec' = rec
    BY <1>8 DEF WifiMessage
  <2>3. D = C
    BY <1>2, <1>3, <2>1, RequestsOfAppend
  <2>4. QED
    BY <1>3, <1>4, <2>2, <2>3
<1>9. CASE WifiConnected \/ WifiDisconnected
  <2>1. inbox # <<>> /\ inbox' = Tail(inbox) /\ pcm' = pcm /\ rec' = rec
    BY <1>9 DEF WifiConnected, WifiDisconnected
  <2>2. D <= C
    BY <1>2, <1>3, <2>1, RequestsOfTail
  <2>3. QED
    BY <1>3, <1>4, <2>1, <2>2
<1>10. CASE TakeRequest
  <2>1. /\ inbox # <<>> /\ Head(inbox) = "NEW_REQUEST" /\ inbox' = Tail(inbox) /\ rec' = rec
        /\ pcm' = pcm \/ (pcm # <<>> /\ pcm' = Tail(pcm))
    BY <1>10 DEF TakeRequest
  <2>2. D <= C - 1
    BY <1>2, <1>3, <2>1, RequestsOfTail
  <2>3. Len(pcm') >= Len(pcm) - 1
    BY <1>2, <2>1
  <2>4. QED
    BY <1>3, <1>4, <2>1, <2>2, <2>3
<1>11. CASE \/ RecOnStart \/ RecOnData \/ RecOnStop \/ ArmTimer \/ ResultTimeout
            \/ RecBegin \/ RecRuning \/ RecEnd \/ UNCHANGED vars
  <2>1. inbox' = inbox /\ pcm' = pcm
    BY <1>11 DEF RecOnStart, RecOnData, RecOnStop, ArmTimer, ResultTimeout, RecBegin, RecRuning,
                 RecEnd, vars
  <2>2. rec' = "send" => rec = "send"
    BY <1>11 DEF RecOnStart, RecOnData, RecOnStop, CheckRequest, NoNewObject, ArmTimer, ResultTimeout,
                 RecBegin, RecRuning, RecEnd, vars
  <2>3. QED
    BY <1>3, <1>4, <2>1, <2>2
<1>12. QED
  BY <1>5, <1>6, <1>7, <1>8, <1>9, <1>10, <1>11 DEF Next, Recorder, Service

\* asr_service_send_request queues the object before it sends the message, and
\* what mallocs lose is the message: a NEW_REQUEST finds its object however many
\* recordings, objects and wifi messages there are.
THEOREM RequestsFindObjects == Spec => []RequestFindsObject
<1>1. CountInv => RequestFindsObject
  <2> SUFFICES ASSUME CountInv PROVE RequestFindsObject
    OBVIOUS
  <2>1. inbox \in Seq(Message) /\ pcm \in Seq(Object)
    BY DEF CountInv, TypeInv, TypeOK
  <2>2. Requests = Cardinality(RequestsIn(inbox))
    BY DEF Requests, RequestsIn
  <2>3. Cardinality(RequestsIn(inbox)) \in Nat /\ Len(pcm) \in Nat
    BY <2>1, RequestsFinite
  <2>4. QED
    BY <2>2, <2>3 DEF CountInv, RequestFindsObject
<1>2. QED
  BY <1>1, CountInit, CountNext, PTL DEF Spec
=============================================================================
