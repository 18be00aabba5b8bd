-------------------------- MODULE DataServicesProofs --------------------------
(***************************************************************************)
(* The services of DataServices one by one, for every number of addresses, *)
(* packets, retries, pages and failures: the inductive invariant of each,  *)
(* and what it promises.  ServicesProofs puts them together.               *)
(***************************************************************************)
EXTENDS DataServices, FiniteSetTheorems, SequenceTheorems, TLAPS

(* The parameters in flash.                                               *)

\* A record that is being written, or that failed, is the only one the flash
\* does not share with the services.  A test mode ends where one was asked for.
FlashInv ==
    /\ FlashTypeOK
    /\ writing <=> setting # "none"
    /\ up \/ setting = "none"
    /\ ParametersAreKept

\* Any record of the right type may be found at the first start.
LEMMA DefaultsAreRecord == Defaults \in Record
BY DEF Defaults, Record, Fields, Allowed, OtaModes

\* One parameter changes within its range.
LEMMA RecordWithOther ==
  ASSUME NEW r \in Record, NEW f \in Fields, NEW v \in Allowed(f)
  PROVE  [r EXCEPT ![f] = v] \in Record
<1>1. v \in OtaModes \cup Values \cup {Default}
  BY DEF Allowed
<1>2. [r EXCEPT ![f] = v] \in [Fields -> OtaModes \cup Values \cup {Default}]
  BY <1>1 DEF Record
<1>3. ASSUME NEW g \in Fields PROVE [r EXCEPT ![f] = v][g] \in Allowed(g)
  BY DEF Record
<1> QED
  BY <1>2, <1>3 DEF Record

\* The first start.
LEMMA FlashBegins == FlashInit => FlashInv
<1> SUFFICES ASSUME FlashInit PROVE FlashInv
  OBVIOUS
<1>1. flash \in Record \cup {Torn}
  <2>1. CASE flash = Torn
    BY <2>1
  <2>2. CASE flash # Torn
    <3>1. PICK m \in OtaModes : flash = [Defaults EXCEPT !["ota_mode"] = m]
      BY <2>2 DEF FlashInit
    <3> QED
      BY <3>1, DefaultsAreRecord, RecordWithOther DEF Fields, Allowed
  <2> QED BY <2>1, <2>2
<1> QED
  BY <1>1, DefaultsAreRecord
     DEF FlashInit, FlashInv, FlashTypeOK, ParametersAreKept, FlashIsWhole, ParametersAreSeparate, Fields

\* A service that sets a parameter disturbs no other.
LEMMA SetIsGood ==
  ASSUME FlashInv, NEW f \in Fields \ {"ota_mode"}, NEW v \in Values, Sets(f, v)
  PROVE  FlashInv'
<1> USE DEF FlashInv
<1>1. ram' \in Record /\ asked' \in Record
  BY RecordWithOther DEF Sets, FlashTypeOK, Allowed
<1>2. FlashTypeOK'
  BY <1>1 DEF Sets, FlashTypeOK
<1>3. FlashIsWhole'
  <2>1. CASE setting' = "none"
    <3>1. ram[f] = v /\ f # "none"
      BY <2>1 DEF Sets, Fields
    <3>2. ram' = ram
      BY <3>1 DEF Sets, FlashTypeOK, Record
    <3> QED
      BY <3>2 DEF Sets, Locked, ParametersAreKept, FlashIsWhole
  <2> QED
    BY <2>1 DEF FlashIsWhole
<1>4. ParametersAreSeparate'
  BY DEF Sets, Locked, FlashTypeOK, Record, ParametersAreKept, ParametersAreSeparate,
         GetFlashCfg, Fields
<1> QED
  BY <1>2, <1>3, <1>4 DEF Sets, Locked, ParametersAreKept, Fields

\* The end of a write leaves the parameters, but for the mode of the updates.
LEMMA WrittenIsGood ==
  ASSUME FlashInv, writing, NEW ok \in BOOLEAN, NEW noTimer \in BOOLEAN, Written(ok, noTimer),
         ok => flash' = ram, ~ok => flash' = flash
  PROVE  FlashInv'
<1> USE DEF FlashInv
<1>1. ram' \in Record
  BY RecordWithOther DEF Written, FlashTypeOK, Allowed, OtaModes, Fields
<1>2. FlashTypeOK'
  BY <1>1 DEF Written, FlashTypeOK, Fields
<1>3. FlashIsWhole'
  BY DEF Written, FlashIsWhole
<1>4. ParametersAreSeparate'
  BY DEF Written, FlashTypeOK, Record, ParametersAreKept, ParametersAreSeparate, GetFlashCfg, Fields
<1> QED
  BY <1>2, <1>3, <1>4 DEF Written, ParametersAreKept

\* Every step keeps the invariant.
LEMMA FlashStep == FlashInv /\ [FlashNext]_flashVars => FlashInv'
<1> SUFFICES ASSUME FlashInv, [FlashNext]_flashVars PROVE FlashInv'
  OBVIOUS
<1>1. CASE InitDeviceParams
  <2>1. FlashTypeOK'
    BY <1>1, DefaultsAreRecord DEF InitDeviceParams, ChecksumIsRight, FlashInv, FlashTypeOK
  <2>2. ParametersAreKept'
    BY <1>1, <2>1
       DEF InitDeviceParams, ChecksumIsRight, ParametersAreKept, FlashIsWhole,
           ParametersAreSeparate, GetFlashCfg
  <2> QED
    BY <1>1, <2>1, <2>2 DEF InitDeviceParams, FlashInv
<1>2. CASE SetAuthInfo \/ SetWifiInfo \/ SetDeviceLicense \/ SetMemoParams
  <2>1. PICK f \in Fields \ {"ota_mode"}, v \in Values : Sets(f, v)
    BY <1>2 DEF SetAuthInfo, SetWifiInfo, SetDeviceLicense, SetMemoParams, Fields
  <2> QED
    BY <2>1, SetIsGood
<1>3. CASE WriteBegins
  BY <1>3
     DEF WriteBegins, FlashInv, FlashTypeOK, ParametersAreKept, FlashIsWhole,
         ParametersAreSeparate, GetFlashCfg
<1>4. CASE WriteEnds
  <2>1. PICK noTimer \in BOOLEAN : Written(TRUE, noTimer)
    BY <1>4 DEF WriteEnds
  <2> QED
    BY <1>4, <2>1, WrittenIsGood DEF WriteEnds
<1>5. CASE WriteFails
  <2>1. PICK noTimer \in BOOLEAN : Written(FALSE, noTimer)
    BY <1>5 DEF WriteFails
  <2> QED
    BY <1>5, <2>1, WrittenIsGood DEF WriteFails
<1>6. CASE PowerCut
  BY <1>6
     DEF PowerCut, FlashInv, FlashTypeOK, ParametersAreKept, FlashIsWhole, ParametersAreSeparate
<1>7. CASE UNCHANGED flashVars
  BY <1>7
     DEF flashVars, FlashInv, FlashTypeOK, ParametersAreKept, FlashIsWhole,
         ParametersAreSeparate, GetFlashCfg
<1> QED
  BY <1>1, <1>2, <1>3, <1>4, <1>5, <1>6, <1>7 DEF FlashNext

\* Every variable of the parameters in flash has values of its type.
THEOREM FlashTypeCorrect == FlashSpec => []FlashTypeOK
<1>1. FlashInv => FlashTypeOK
  BY DEF FlashInv
<1> QED
  BY FlashBegins, FlashStep, <1>1, PTL DEF FlashSpec

\* However writes fail, power goes and the services take turns: what
\* set_flash_cfg was given is what get_flash_cfg gives, and the flash holds it
\* after a write that did not fail.
THEOREM ParametersStay == FlashSpec => []ParametersAreKept
<1>1. FlashInv => ParametersAreKept
  BY DEF FlashInv
<1> QED
  BY FlashBegins, FlashStep, <1>1, PTL DEF FlashSpec
-----------------------------------------------------------------------------
(* The play buffer: who waits is woken.                                   *)

\* The part of the state that the waiting protocol is about.
WaitTypeOK ==
  /\ wait \in BOOLEAN /\ sem \in {0, 1}
  /\ writer \in Places /\ reader \in Places

\* A thread that waits or is about to.
Waits(place) == place \in {"marked", "asleep"}

\* The flag is set by a thread that waits, or is about to.
FlagHasOwner == wait => Waits(writer) \/ Waits(reader)

\* A thread on its way to wait left the flag set, or finds a token; two of them
\* left the flag set.
MarkIsSeen ==
  /\ writer = "marked" \/ reader = "marked" => wait \/ sem = 1
  /\ writer = "marked" /\ reader = "marked" => wait

\* The flag and a token at the same time are two threads on their way.
TokenAndFlag == sem = 1 /\ wait => writer = "marked" /\ reader = "marked"

\* What every step of the two threads keeps.
WaitInv ==
  /\ WaitTypeOK /\ TokenIsOwed /\ SleeperIsFlagged
  /\ FlagHasOwner /\ MarkIsSeen /\ TokenAndFlag

\* The buffer starts with nobody waiting.
LEMMA WaitBegins == Init => WaitInv
<1> SUFFICES ASSUME Init PROVE WaitInv
  OBVIOUS
<1>1. ~wait /\ wait \in BOOLEAN
  BY DEF Init
<1>2. sem = 0 /\ writer = "idle" /\ reader = "idle"
  BY DEF Init
<1> QED
  BY <1>1, <1>2 DEF WaitInv, WaitTypeOK, Places, TokenIsOwed, SleeperIsFlagged,
              FlagHasOwner, MarkIsSeen, TokenAndFlag, Waits

\* The writer, in the critical section and having moved its chunk, keeps the
\* invariant.
LEMMA WriterReleases ==
  ASSUME WaitInv, writer = "try", ReleaseOther(reader),
         reader' = AfterRelease(reader), writer' = "idle"
  PROVE  WaitInv'
<1> USE DEF WaitInv, WaitTypeOK, Places, TokenIsOwed, SleeperIsFlagged, FlagHasOwner,
            MarkIsSeen, TokenAndFlag, Waits, ReleaseOther, AfterRelease
<1>1. CASE ~wait
  <2>1. sem' = sem /\ ~wait' /\ wait' \in BOOLEAN
    BY <1>1
  <2> QED
    BY <1>1, <2>1
<1>2. CASE wait /\ reader = "asleep"
  BY <1>2
<1>3. CASE wait /\ reader = "marked"
  <2>1. sem = 0
    BY <1>3
  <2>2. reader # "asleep"
    BY <1>3
  <2>3. sem' = sem + 1 /\ reader' = reader /\ wait' = FALSE
    BY <1>3, <2>2, Zenon
  <2>4. ~wait' /\ wait' \in BOOLEAN
    BY <2>3, Zenon
  <2>5. sem' = 1 /\ reader' = "marked"
    BY <1>3, <2>1, <2>3
  <2> QED
    BY <1>3, <2>4, <2>5
<1> QED
  BY <1>1, <1>2, <1>3

\* So does the reader.
LEMMA ReaderReleases ==
  ASSUME WaitInv, reader = "try", ReleaseOther(writer),
         writer' = AfterRelease(writer), reader' = "idle"
  PROVE  WaitInv'
<1> USE DEF WaitInv, WaitTypeOK, Places, TokenIsOwed, SleeperIsFlagged, FlagHasOwner,
            MarkIsSeen, TokenAndFlag, Waits, ReleaseOther, AfterRelease
<1>1. CASE ~wait
  <2>1. sem' = sem /\ ~wait' /\ wait' \in BOOLEAN
    BY <1>1
  <2> QED
    BY <1>1, <2>1
<1>2. CASE wait /\ writer = "asleep"
  BY <1>2
<1>3. CASE wait /\ writer = "marked"
  <2>1. sem = 0
    BY <1>3
  <2>2. writer # "asleep"
    BY <1>3
  <2>3. sem' = sem + 1 /\ writer' = writer /\ wait' = FALSE
    BY <1>3, <2>2, Zenon
  <2>4. ~wait' /\ wait' \in BOOLEAN
    BY <2>3, Zenon
  <2>5. sem' = 1 /\ writer' = "marked"
    BY <1>3, <2>1, <2>3
  <2> QED
    BY <1>3, <2>4, <2>5
<1> QED
  BY <1>1, <1>2, <1>3

\* Every step keeps the invariant.
LEMMA WaitStep == WaitInv /\ [Next]_vars => WaitInv'
<1> SUFFICES ASSUME WaitInv, [Next]_vars PROVE WaitInv'
  OBVIOUS
<1> USE DEF WaitInv, WaitTypeOK, Places, TokenIsOwed, SleeperIsFlagged, FlagHasOwner,
            MarkIsSeen, TokenAndFlag, Waits
<1>1. CASE WriteStart
  BY <1>1 DEF WriteStart
<1>2. CASE WriteTry
  <2>1. CASE writer' = "idle"
    BY <1>2, <2>1, WriterReleases DEF WriteTry
  <2>2. CASE writer' # "idle"
    BY <1>2, <2>2 DEF WriteTry
  <2> QED BY <2>1, <2>2
<1>3. CASE WriteMark
  BY <1>3 DEF WriteMark
<1>4. CASE WriteWait
  BY <1>4 DEF WriteWait
<1>5. CASE ReadStart
  BY <1>5 DEF ReadStart
<1>6. CASE ReadTry
  <2>1. CASE reader' = "idle"
    BY <1>6, <2>1, ReaderReleases DEF ReadTry
  <2>2. CASE reader' # "idle"
    BY <1>6, <2>2 DEF ReadTry
  <2> QED BY <2>1, <2>2
<1>7. CASE ReadMark
  BY <1>7 DEF ReadMark
<1>8. CASE ReadWait
  BY <1>8 DEF ReadWait
<1>9. CASE UNCHANGED vars
  BY <1>9 DEF vars
<1> QED
  BY <1>1, <1>2, <1>3, <1>4, <1>5, <1>6, <1>7, <1>8, <1>9 DEF Next, Write, Read

\* Whoever waits in write() or read() is owed a wakeup, by the flag or by a
\* token of the semaphore, and no token is left behind.
THEOREM WakeupsAreOwed == Spec => []WakeupIsOwed
<1>1. WaitInv => WakeupIsOwed
  BY DEF WaitInv, WakeupIsOwed
<1> QED
  BY WaitBegins, WaitStep, <1>1, PTL DEF Spec
-----------------------------------------------------------------------------
(* The bytes.                                                              *)

\* The slot k places behind a, around the end of the buffer.
Slot(a, k) == IF a + k < Size THEN a + k ELSE a + k - Size

\* The types of the bytes and of the places in the buffer.
DataTypeOK ==
  /\ start \in -1 .. Size - 1 /\ end \in -1 .. Size - 1 /\ (start = -1 <=> end = -1)
  /\ buf \in [Slots -> Nat] /\ written \in Nat /\ got \in Seq(Nat)
  /\ chunks \in Seq(1 .. Size) /\ sent \in 0 .. Len(chunks) /\ readChunks \in Nat
  /\ writer \in Places /\ (writer # "idle" => sent < Len(chunks))

\* The bytes between _start and _end are those that come next.
StoredIsNext ==
  start # -1 => \A k \in 0 .. Size - 1 :
     k < Valid => buf[Slot(start, k)] = Len(got) + k + 1

\* What every step keeps of the bytes.
DInv == DataTypeOK /\ BytesInOrder /\ StoredIsNext

\* % is the way around the end, for the positions the code computes.
LEMMA Wrap ==
  ASSUME NEW a \in Slots, NEW n \in 0 .. Size
  PROVE  (a + n) % Size = Slot(a, n) /\ Slot(a, n) \in Slots
<1> USE SizeAssumption DEF Slots
<1>1. CASE a + n < Size
  BY <1>1 DEF Slot
<1>2. CASE a + n >= Size
  <2> DEFINE q == (a + n) \div Size
             r == (a + n) % Size
  <2>1. q \in Int /\ r \in 0 .. Size - 1 /\ a + n = Size * q + r
    OBVIOUS
  <2>2. a + n <= 2 * Size - 1
    OBVIOUS
  <2> HIDE DEF q, r
  <2>3. q = 1
    BY <1>2, <2>1, <2>2
  <2> QED
    BY <1>2, <2>1, <2>3 DEF Slot, r
<1> QED
  BY <1>1, <1>2

\* The buffer starts empty.
LEMMA DataInit == Init => DInv
<1> SUFFICES ASSUME Init PROVE DInv
  OBVIOUS
<1> USE SizeAssumption, ChoiceAssumption DEF Init
<1>1. DataTypeOK
  BY DEF DataTypeOK, Places, Slots
<1>2. BytesInOrder
  <2>1. \A i \in DOMAIN got : got[i] = i
    OBVIOUS
  <2>2. Valid = written - Len(got)
    <3>1. Len(got) = 0 /\ written = 0
      OBVIOUS
    <3>2. Valid = 0
      BY DEF Valid
    <3> HIDE DEF Init
    <3> QED
      BY <3>1, <3>2
  <2>3. Free + Valid = Size
    BY DEF Valid, Free
  <2> QED
    BY <2>1, <2>2, <2>3 DEF BytesInOrder
<1> QED
  BY <1>1, <1>2 DEF DInv, StoredIsNext

\* The positions are integers of their range.
Numbered ==
  /\ Size \in Nat /\ Size > 0 /\ start \in Int /\ end \in Int
  /\ -1 <= start /\ start < Size /\ -1 <= end /\ end < Size
  /\ (start = -1 <=> end = -1)
  /\ written \in Nat /\ Len(got) \in Nat
  /\ Valid = written - Len(got) /\ Free + Valid = Size
  /\ Valid \in Int /\ 0 <= Valid /\ Valid <= Size
  /\ Free \in Int /\ 0 <= Free /\ Free <= Size

\* They follow from the invariant.
LEMMA PositionsAreNumbers == DInv => Numbered
BY SizeAssumption DEF Numbered, DInv, DataTypeOK, BytesInOrder, Valid, Free

\* write() puts its chunk behind what is stored.
LEMMA WriterStores ==
  ASSUME DInv, WriteTry, writer' = "idle"
  PROVE  DInv'
<1>0. Numbered
  BY PositionsAreNumbers
<1> DEFINE n == chunks[sent + 1]
           from == IF start = -1 THEN 0 ELSE end
<1>1. n \in 1 .. Size /\ from \in Slots /\ Free >= n
  BY SizeAssumption, SMTT(30) DEF DInv, DataTypeOK, WriteTry, Slots, Places, Free
<1>2. /\ start' = (IF start = -1 THEN 0 ELSE start)
      /\ buf' = Stored(from, n) /\ end' = (from + n) % Size
      /\ sent' = sent + 1 /\ written' = written + n
      /\ UNCHANGED <<chunks, readChunks, got>>
  BY <1>1 DEF WriteTry
<1>3. end' = Slot(from, n) /\ end' \in Slots
  BY <1>1, <1>2, Wrap
<1> HIDE DEF n, from
<1>4. DataTypeOK'
  <2>1. buf' \in [Slots -> Nat]
    BY <1>1, <1>2, SizeAssumption DEF Stored, DInv, DataTypeOK, Slots
  <2>2. start' \in Slots /\ end' \in Slots
    BY <1>2, <1>3, SizeAssumption DEF DInv, DataTypeOK, Slots
  <2>3. sent' \in 0 .. Len(chunks')
    BY <1>2 DEF WriteTry, DInv, DataTypeOK
  <2>4. written' \in Nat /\ got' \in Seq(Nat) /\ chunks' \in Seq(1 .. Size) /\ readChunks' \in Nat
    BY <1>0, <1>1, <1>2 DEF Numbered, DInv, DataTypeOK
  <2>5. start' \in -1 .. Size - 1 /\ end' \in -1 .. Size - 1 /\ (start' = -1 <=> end' = -1)
    BY <1>0, <2>2 DEF Numbered, Slots
  <2>6. writer' \in Places
    BY DEF Places
  <2> QED
    BY <2>1, <2>3, <2>4, <2>5, <2>6 DEF DataTypeOK
<1>5. Valid' = Valid + n /\ Free' = Free - n
  BY <1>0, <1>1, <1>2, <1>3 DEF Numbered, Valid, Free, from, Slot, Slots
<1>6. BytesInOrder'
  <2>1. Valid' = written' - Len(got') /\ Free' + Valid' = Size
    BY <1>0, <1>1, <1>2, <1>5 DEF Numbered
  <2> QED
    BY <2>1, <1>2 DEF DInv, BytesInOrder
<1>7. StoredIsNext'
  <2> SUFFICES ASSUME NEW k \in 0 .. Size - 1, k < Valid'
               PROVE  buf'[Slot(start', k)] = Len(got) + k + 1
    BY <1>2 DEF StoredIsNext
  <2>1. Slot(start', k) \in Slots
    BY <1>2, SizeAssumption DEF Slot, Slots, DInv, DataTypeOK
  <2>2. CASE k < Valid
    <3>1. start # -1 /\ start' = start /\ buf[Slot(start, k)] = Len(got) + k + 1
      BY <2>2, <1>2 DEF DInv, StoredIsNext, Valid, DataTypeOK
    <3>2. ~(LET i == Slot(start, k) IN (IF i >= from THEN i - from ELSE i + Size - from) < n)
      BY <1>0, <2>2, <3>1, <1>1, <1>5 DEF Numbered, Slot, from, Valid, Free, Slots
    <3> QED
      BY <2>1, <3>1, <3>2, <1>2 DEF Stored
  <2>3. CASE k >= Valid
    <3>1. LET i == Slot(start', k) IN
            (IF i >= from THEN i - from ELSE i + Size - from) = k - Valid
      BY <1>0, <2>3, <1>1, <1>2, <1>5 DEF Numbered, Slot, from, Valid, Free, Slots
    <3>2. written = Len(got) + Valid /\ k - Valid < n
      BY <1>0, <1>1, <1>5 DEF Numbered
    <3>3. Valid \in Int /\ Len(got) \in Nat
      BY <1>0 DEF Numbered
    <3> QED
      BY <2>1, <3>1, <3>2, <3>3, <1>2 DEF Stored
  <2>4. Valid \in Int
    BY <1>0 DEF Numbered
  <2> QED
    BY <2>2, <2>3, <2>4
<1> QED
  BY <1>4, <1>6, <1>7 DEF DInv

\* What the reader has, with a chunk behind it.
LEMMA Concat ==
  ASSUME NEW a \in Seq(Nat), NEW b \in Seq(Nat)
  PROVE  a \o b \in Seq(Nat) /\ Len(a \o b) = Len(a) + Len(b)
OBVIOUS

\* read() takes its chunk from the front.
LEMMA ReaderTakes ==
  ASSUME DInv, ReadTry, reader' = "idle"
  PROVE  DInv'
<1>0. Numbered
  BY PositionsAreNumbers
<1> DEFINE w == Wanted
           next == (start + w) % Size
<1>1. w \in 1 .. Size
  BY SizeAssumption DEF Wanted, DInv, DataTypeOK
<1>2. Valid >= w /\ start \in Slots /\ Valid \in 1 .. Size
  BY <1>1, SizeAssumption DEF ReadTry, Valid, DInv, DataTypeOK, Slots
<1>3. /\ got' = got \o ReadBytes(w)
      /\ start' = (IF next = end THEN -1 ELSE next)
      /\ end' = (IF next = end THEN -1 ELSE end)
      /\ writer' = AfterRelease(writer) /\ readChunks' = readChunks + 1
      /\ UNCHANGED <<buf, chunks, sent, written>>
  BY <1>1, <1>2, SizeAssumption DEF ReadTry, Slots
<1>4. next = Slot(start, w) /\ next \in Slots
  BY <1>1, <1>2, Wrap
<1> HIDE DEF w, next
<1>5. ReadBytes(w) \in Seq(Nat) /\ Len(ReadBytes(w)) = w
      /\ \A i \in 1 .. w : ReadBytes(w)[i] = Len(got) + i
  <2>1. ASSUME NEW i \in 1 .. w
        PROVE  buf[(start + i - 1) % Size] = Len(got) + i
    <3>1. i - 1 \in 0 .. Size - 1 /\ i - 1 < Valid /\ start # -1
      BY <1>1, <1>2, SizeAssumption DEF Slots
    <3>2. (start + i - 1) % Size = Slot(start, i - 1)
      <4>1. (start + (i - 1)) % Size = Slot(start, i - 1)
        BY <3>1, <1>2, Wrap, SizeAssumption
      <4>2. start + (i - 1) = start + i - 1
        BY <1>1, <1>2, SizeAssumption DEF Slots
      <4> QED BY <4>1, <4>2
    <3>3. buf[Slot(start, i - 1)] = Len(got) + (i - 1) + 1
      BY <3>1 DEF DInv, StoredIsNext
    <3>4. Len(got) \in Nat
      BY DEF DInv, DataTypeOK
    <3> QED
      BY <1>1, <3>2, <3>3, <3>4
  <2>2. Len(got) \in Nat
    BY DEF DInv, DataTypeOK
  <2>3. \A i \in 1 .. w : Len(got) + i \in Nat
    BY <1>1, <2>2
  <2> QED
    BY <1>1, <2>1, <2>3 DEF ReadBytes
<1>6. got' \in Seq(Nat) /\ Len(got') = Len(got) + w
      /\ \A i \in DOMAIN got' : got'[i] = i
  <2>1. got \in Seq(Nat) /\ \A i \in DOMAIN got : got[i] = i
    BY DEF DInv, DataTypeOK, BytesInOrder
  <2>2. got' \in Seq(Nat) /\ Len(got') = Len(got) + w
    <3>1. got' = got \o ReadBytes(w)
      BY <1>3
    <3>2. ReadBytes(w) \in Seq(Nat) /\ Len(ReadBytes(w)) = w
      BY <1>5
    <3> QED
      BY <2>1, <3>1, <3>2, Concat
  <2>3. ASSUME NEW i \in DOMAIN got' PROVE got'[i] = i
    <3>1. i \in 1 .. Len(got) + w
      BY <2>2
    <3>2. CASE i <= Len(got)
      BY <3>1, <3>2, <1>3, <1>5, <2>1
    <3>3. CASE i > Len(got)
      <4>1. got'[i] = ReadBytes(w)[i - Len(got)] /\ i - Len(got) \in 1 .. w
        BY <3>1, <3>3, <1>1, <1>3, <1>5, <2>1
      <4> QED
        BY <3>1, <4>1, <1>5, <2>1
    <3> QED
      BY <3>1, <3>2, <3>3, <2>1
  <2> QED
    BY <2>2, <2>3
<1>7. DataTypeOK'
  <2>1. start' \in -1 .. Size - 1 /\ end' \in -1 .. Size - 1 /\ (start' = -1 <=> end' = -1)
    BY <1>0, <1>2, <1>3, <1>4 DEF Numbered, Slots
  <2>2. readChunks' \in Nat /\ buf' \in [Slots -> Nat] /\ written' \in Nat
        /\ chunks' \in Seq(1 .. Size) /\ sent' \in 0 .. Len(chunks')
    BY <1>3 DEF DInv, DataTypeOK
  <2>3. writer' \in Places /\ (writer' # "idle" => sent' < Len(chunks'))
    BY <1>3 DEF DInv, DataTypeOK, Places, AfterRelease
  <2> QED
    BY <1>6, <2>1, <2>2, <2>3 DEF DataTypeOK
<1>8. Valid' = Valid - w /\ Free' = Free + w
  BY <1>0, <1>1, <1>2, <1>3, <1>4 DEF Numbered, Valid, Free, Slot, Slots
<1>9. BytesInOrder'
  <2>1. Valid' = written' - Len(got') /\ Free' + Valid' = Size
    <3>1. written' = written /\ Len(got') = Len(got) + w
      BY <1>3, <1>6
    <3> QED
      BY <1>0, <1>1, <1>8, <3>1 DEF Numbered
  <2> QED
    BY <2>1, <1>6 DEF BytesInOrder
<1>10. StoredIsNext'
  <2> SUFFICES ASSUME start' # -1, NEW k \in 0 .. Size - 1, k < Valid'
               PROVE  buf[Slot(start', k)] = Len(got') + k + 1
    BY <1>3 DEF StoredIsNext
  <2>1. start' = Slot(start, w) /\ k + w < Valid /\ k + w \in 0 .. Size - 1
    BY <1>1, <1>2, <1>3, <1>4, <1>8, SizeAssumption
  <2>2. Slot(start', k) = Slot(start, k + w)
    BY <1>1, <1>2, <2>1, SizeAssumption DEF Slot, Slots
  <2>3. buf[Slot(start, k + w)] = Len(got) + (k + w) + 1
    BY <1>2, <2>1, SizeAssumption DEF DInv, StoredIsNext, Slots
  <2>4. Len(got) \in Nat
    BY DEF DInv, DataTypeOK
  <2> QED
    BY <1>1, <1>6, <2>2, <2>3, <2>4
<1> QED
  BY <1>7, <1>9, <1>10 DEF DInv

\* Every other step leaves the bytes and the positions alone.
LEMMA OthersLeaveBytes ==
  ASSUME DInv, UNCHANGED <<store, readChunks, sent, written, got>>, DataTypeOK'
  PROVE  DInv'
<1>1. BytesInOrder'
  BY DEF DInv, BytesInOrder, Valid, Free, store
<1>2. StoredIsNext'
  BY DEF DInv, StoredIsNext, Valid, Slot, store
<1> QED
  BY <1>1, <1>2 DEF DInv

\* Every step keeps the bytes in order.
LEMMA DataStep == DInv /\ [Next]_vars => DInv'
<1> SUFFICES ASSUME DInv, [Next]_vars PROVE DInv'
  OBVIOUS
<1> USE SizeAssumption
<1>1. CASE WriteStart
  <2>1. chunks' \in Seq(1 .. Size) /\ sent < Len(chunks')
    <3>1. CASE sent < Len(chunks)
      BY <1>1, <3>1 DEF WriteStart, DInv, DataTypeOK
    <3>2. CASE ~(sent < Len(chunks))
      <4>1. PICK data \in {<<>>} \cup {<<n>> : n \in DataSizes} :
               chunks' = chunks \o <<HeaderSize>> \o data
        BY <1>1, <3>2 DEF WriteStart
      <4>2. data \in Seq(1 .. Size)
        <5>1. CASE data = <<>>
          BY <5>1
        <5>2. CASE data # <<>>
          <6>1. PICK n \in DataSizes : data = <<n>>
            BY <4>1, <5>2
          <6> QED
            BY <6>1
        <5> QED BY <5>1, <5>2
      <4>3. chunks \in Seq(1 .. Size) /\ <<HeaderSize>> \in Seq(1 .. Size)
            /\ Len(<<HeaderSize>>) = 1 /\ sent \in 0 .. Len(chunks)
        BY DEF DInv, DataTypeOK
      <4> QED
        BY <4>1, <4>2, <4>3
    <3> QED
      BY <3>1, <3>2
  <2>2. DataTypeOK'
    BY <1>1, <2>1 DEF WriteStart, DInv, DataTypeOK, store, Places
  <2> QED
    BY <1>1, <2>2, OthersLeaveBytes DEF WriteStart
<1>2. CASE WriteTry
  <2>1. CASE writer' = "idle"
    BY <1>2, <2>1, WriterStores
  <2>2. CASE writer' # "idle"
    \* An empty buffer has room for every chunk.
    <3>1. start # -1 /\ UNCHANGED <<store, readChunks, sent, written, got, chunks>>
      BY <1>2, <2>2 DEF WriteTry, store, Free, DInv, DataTypeOK
    <3>2. DataTypeOK'
      BY <1>2, <2>2, <3>1 DEF WriteTry, DInv, DataTypeOK, store, Places
    <3> QED
      BY <3>1, <3>2, OthersLeaveBytes
  <2> QED BY <2>1, <2>2
<1>3. CASE WriteMark \/ WriteWait
  <2>1. UNCHANGED <<store, histories>> /\ writer # "idle" /\ writer' \in Places
    BY <1>3 DEF WriteMark, WriteWait, Places
  <2>2. DataTypeOK'
    BY <2>1 DEF DInv, DataTypeOK, store, histories
  <2> QED
    BY <2>1, <2>2, OthersLeaveBytes DEF histories
<1>4. CASE ReadTry
  <2>1. CASE reader' = "idle"
    BY <1>4, <2>1, ReaderTakes
  <2>2. CASE reader' # "idle"
    <3>1. UNCHANGED <<store, readChunks, sent, written, got, chunks, writer>>
      BY <1>4, <2>2 DEF ReadTry, store
    <3>2. DataTypeOK'
      BY <3>1 DEF DInv, DataTypeOK, store
    <3> QED
      BY <3>1, <3>2, OthersLeaveBytes
  <2> QED BY <2>1, <2>2
<1>5. CASE ReadStart \/ ReadMark \/ ReadWait \/ UNCHANGED vars
  <2>1. UNCHANGED <<store, histories, writer>>
    BY <1>5 DEF ReadStart, ReadMark, ReadWait, vars, store, histories
  <2>2. DataTypeOK'
    BY <2>1 DEF DInv, DataTypeOK, store, histories
  <2> QED
    BY <2>1, <2>2, OthersLeaveBytes DEF histories
<1> QED
  BY <1>1, <1>2, <1>3, <1>4, <1>5 DEF Next, Write, Read

\* The reader gets the bytes that were written, in order, and the positions
\* count what is between them, for every size of the buffer and every stream.
THEOREM BytesKeepOrder == Spec => []BytesInOrder
<1>1. DInv => BytesInOrder
  BY DEF DInv
<1> QED
  BY DataInit, DataStep, <1>1, PTL DEF Spec
-----------------------------------------------------------------------------
(* The play buffer: the chunks.                                           *)

\* f[i] is the number of the last byte of the i-th of the chunks c.
Sums(c, f) ==
  /\ f \in [0 .. Len(c) -> Nat] /\ f[0] = 0
  /\ \A i \in 1 .. Len(c) : f[i] = f[i - 1] + c[i]

\* What was written and what the reader has are whole chunks of the stream, and
\* the reader is not ahead of the writer.
ChunksAreCounted ==
  \E f \in [0 .. Len(chunks) -> Nat] :
     /\ Sums(chunks, f)
     /\ f[sent] = written /\ f[readChunks] = Len(got)
     /\ readChunks <= sent

\* One more chunk has one more sum, and changes none.
LEMMA OneMoreSum ==
  ASSUME NEW c \in Seq(1 .. Size), NEW f, Sums(c, f), NEW n \in 1 .. Size
  PROVE  \E g \in [0 .. Len(Append(c, n)) -> Nat] :
            Sums(Append(c, n), g) /\ \A i \in 0 .. Len(c) : g[i] = f[i]
<1> USE SizeAssumption
<1> DEFINE l == Len(c)
           d == Append(c, n)
           g == [i \in 0 .. l + 1 |-> IF i <= l THEN f[i] ELSE f[l] + n]
<1>1. l \in Nat /\ Len(d) = l + 1 /\ d[l + 1] = n /\ \A i \in 1 .. l : d[i] = c[i]
  OBVIOUS
<1>2. f \in [0 .. l -> Nat] /\ f[0] = 0 /\ \A i \in 1 .. l : f[i] = f[i - 1] + c[i]
  BY DEF Sums
<1> HIDE DEF l, d
<1>3. g \in [0 .. l + 1 -> Nat] /\ g[0] = 0 /\ \A i \in 0 .. l : g[i] = f[i]
  BY <1>1, <1>2
<1>4. \A i \in 1 .. l + 1 : g[i] = g[i - 1] + d[i]
  <2> TAKE i \in 1 .. l + 1
  <2>1. CASE i <= l
    BY <2>1, <1>1, <1>2
  <2>2. CASE i = l + 1
    BY <2>2, <1>1, <1>2
  <2> QED
    BY <1>1, <2>1, <2>2
<1> HIDE DEF g
<1>5. Sums(d, g)
  BY <1>1, <1>3, <1>4 DEF Sums
<1> QED
  BY <1>1, <1>3, <1>5 DEF d, l

\* The sums stay those of the chunks before when a message is begun.
LEMMA MessageIsCounted ==
  ASSUME NEW c \in Seq(1 .. Size), NEW f, Sums(c, f),
         NEW data \in {<<>>} \cup {<<n>> : n \in DataSizes}
  PROVE  \E g \in [0 .. Len(c \o <<HeaderSize>> \o data) -> Nat] :
            Sums(c \o <<HeaderSize>> \o data, g) /\ \A i \in 0 .. Len(c) : g[i] = f[i]
<1> USE SizeAssumption
<1> DEFINE a == Append(c, HeaderSize)
<1>1. a \in Seq(1 .. Size) /\ Len(a) = Len(c) + 1 /\ c \o <<HeaderSize>> = a /\ Len(c) \in Nat
  OBVIOUS
<1>2. PICK g \in [0 .. Len(a) -> Nat] : Sums(a, g) /\ \A i \in 0 .. Len(c) : g[i] = f[i]
  BY OneMoreSum
<1> HIDE DEF a
<1>3. CASE data = <<>>
  <2>1. a \o data = a
    BY <1>1, <1>3
  <2> QED
    BY <1>1, <1>2, <2>1
<1>4. CASE data # <<>>
  <2>1. PICK n \in DataSizes : data = <<n>>
    BY <1>4
  <2>2. a \o data = Append(a, n) /\ n \in 1 .. Size
    BY <1>1, <2>1
  <2>3. PICK h \in [0 .. Len(Append(a, n)) -> Nat] :
          Sums(Append(a, n), h) /\ \A i \in 0 .. Len(a) : h[i] = g[i]
    <3>1. a \in Seq(1 .. Size) /\ n \in 1 .. Size
      BY <1>1, <2>2
    <3>2. Sums(a, g)
      BY <1>2
    <3> QED
      BY ONLY <3>1, <3>2, OneMoreSum, Zenon
  <2>4. \A i \in 0 .. Len(c) : h[i] = f[i]
    BY <1>1, <1>2, <2>3
  <2> QED
    BY <1>1, <2>2, <2>3, <2>4
<1> QED
  BY <1>3, <1>4

\* Nothing is counted at first.
LEMMA CountBegins == Init => ChunksAreCounted
<1> SUFFICES ASSUME Init PROVE ChunksAreCounted
  OBVIOUS
<1> DEFINE f == [i \in 0 .. 0 |-> 0]
<1>1. Len(chunks) = 0 /\ Len(got) = 0 /\ sent = 0 /\ readChunks = 0 /\ written = 0
  BY DEF Init
<1>2. f \in [0 .. Len(chunks) -> Nat] /\ f[0] = 0
  BY <1>1
<1> HIDE DEF f
<1>3. Sums(chunks, f)
  BY <1>1, <1>2 DEF Sums
<1> QED
  BY <1>1, <1>2, <1>3 DEF ChunksAreCounted

\* read() is given a chunk that was written: with all of them read the buffer
\* is empty, and the reader asks for at least a byte.
LEMMA ReaderIsBehind ==
  ASSUME DInv, ChunksAreCounted, Valid >= Wanted
  PROVE  readChunks < sent /\ Wanted = chunks[readChunks + 1]
<1> USE SizeAssumption
<1>0. Numbered
  BY PositionsAreNumbers
<1>1. PICK f \in [0 .. Len(chunks) -> Nat] :
        Sums(chunks, f) /\ f[sent] = written /\ f[readChunks] = Len(got) /\ readChunks <= sent
  BY DEF ChunksAreCounted
<1>2. chunks \in Seq(1 .. Size) /\ sent \in 0 .. Len(chunks) /\ readChunks \in Nat
      /\ Len(chunks) \in Nat
  BY DEF DInv, DataTypeOK
<1>3. Wanted \in 1 .. Size
  <2>1. CASE readChunks < Len(chunks)
    BY <1>2, <2>1 DEF Wanted
  <2>2. CASE ~(readChunks < Len(chunks))
    BY <2>2 DEF Wanted
  <2> QED
    BY <2>1, <2>2
<1>4. readChunks # sent
  <2> SUFFICES ASSUME readChunks = sent PROVE FALSE
    OBVIOUS
  <2>1. written = Len(got) /\ Valid = written - Len(got) /\ Len(got) \in Nat
    BY <1>0, <1>1 DEF Numbered
  <2> QED
    BY <1>3, <2>1
<1> QED
  BY <1>1, <1>2, <1>4 DEF Wanted

\* Every step keeps the count.
LEMMA CountStep ==
  ASSUME DInv, ChunksAreCounted, [Next]_vars
  PROVE  ChunksAreCounted'
<1> USE SizeAssumption
<1>0. Numbered
  BY PositionsAreNumbers
<1>1. PICK f \in [0 .. Len(chunks) -> Nat] :
        Sums(chunks, f) /\ f[sent] = written /\ f[readChunks] = Len(got) /\ readChunks <= sent
  BY DEF ChunksAreCounted
<1>2. chunks \in Seq(1 .. Size) /\ sent \in 0 .. Len(chunks) /\ readChunks \in Nat
      /\ Len(chunks) \in Nat /\ got \in Seq(Nat)
  BY DEF DInv, DataTypeOK
<1>3. CASE UNCHANGED histories
  BY <1>1, <1>3 DEF histories, ChunksAreCounted
<1>4. CASE WriteStart
  <2>1. CASE sent < Len(chunks)
    BY <1>3, <1>4, <2>1 DEF WriteStart, histories
  <2>2. CASE ~(sent < Len(chunks))
    <3>1. PICK data \in {<<>>} \cup {<<n>> : n \in DataSizes} :
            chunks' = chunks \o <<HeaderSize>> \o data
      BY <1>4, <2>2 DEF WriteStart
    <3>2. PICK g \in [0 .. Len(chunks') -> Nat] :
            Sums(chunks', g) /\ \A i \in 0 .. Len(chunks) : g[i] = f[i]
      <4>1. \E g \in [0 .. Len(chunks \o <<HeaderSize>> \o data) -> Nat] :
              /\ Sums(chunks \o <<HeaderSize>> \o data, g)
              /\ \A i \in 0 .. Len(chunks) : g[i] = f[i]
        BY ONLY <1>1, <1>2, <3>1, MessageIsCounted
      <4> QED
        BY ONLY <3>1, <4>1
    <3>3. UNCHANGED <<sent, readChunks, written, got>>
      BY <1>4 DEF WriteStart
    <3>4. g[sent] = written /\ g[readChunks] = Len(got)
      BY <1>1, <1>2, <3>2
    <3> QED
      BY <1>1, <3>2, <3>3, <3>4 DEF ChunksAreCounted
  <2> QED
    BY <2>1, <2>2
<1>5. CASE WriteTry
  <2>1. CASE writer' = "idle"
    <3>1. /\ sent' = sent + 1 /\ written' = written + chunks[sent + 1]
          /\ UNCHANGED <<chunks, readChunks, got>>
      BY <1>5, <2>1 DEF WriteTry
    <3>2. sent + 1 \in 1 .. Len(chunks)
      BY <1>2, <1>5 DEF WriteTry, DInv, DataTypeOK
    <3>3. f[sent + 1] = f[sent] + chunks[sent + 1]
      BY <1>1, <1>2, <3>2 DEF Sums
    <3>4. f[sent'] = written' /\ readChunks' <= sent' /\ f[readChunks'] = Len(got')
      BY <1>1, <1>2, <3>1, <3>3
    <3> QED
      BY <1>1, <3>1, <3>4 DEF ChunksAreCounted
  <2>2. CASE writer' # "idle"
    BY <1>3, <1>5, <2>2 DEF WriteTry, histories
  <2> QED
    BY <2>1, <2>2
<1>6. CASE ReadTry
  <2>1. CASE Valid >= Wanted
    <3>1. readChunks < sent /\ Wanted = chunks[readChunks + 1]
      BY <2>1, ReaderIsBehind
    <3>2. /\ got' = got \o ReadBytes(Wanted) /\ readChunks' = readChunks + 1
          /\ UNCHANGED <<chunks, sent, written>>
      BY <1>6, <2>1 DEF ReadTry
    <3>3. Wanted \in 1 .. Size
      BY <1>2, <3>1
    <3>4. Len(got') = Len(got) + Wanted
      <4>1. ReadBytes(Wanted) \in Seq(Nat) /\ Len(ReadBytes(Wanted)) = Wanted
        <5>1. \A i \in 1 .. Wanted : buf[(start + i - 1) % Size] \in Nat
          BY <1>0, <3>3 DEF Numbered, DInv, DataTypeOK, Slots
        <5> QED
          BY <3>3, <5>1 DEF ReadBytes
      <4> QED
        BY <1>2, <3>2, <4>1, Concat
    <3>5. f[readChunks + 1] = f[readChunks] + chunks[readChunks + 1]
      BY <1>1, <1>2, <3>1 DEF Sums
    <3>6. f[readChunks'] = Len(got') /\ readChunks' <= sent'
      BY <1>1, <1>2, <3>1, <3>2, <3>4, <3>5
    <3> QED
      BY <1>1, <3>2, <3>6 DEF ChunksAreCounted
  <2>2. CASE ~(Valid >= Wanted)
    BY <1>3, <1>6, <2>2 DEF ReadTry, histories
  <2> QED
    BY <2>1, <2>2
<1>7. CASE WriteMark \/ WriteWait \/ ReadStart \/ ReadMark \/ ReadWait \/ UNCHANGED vars
  BY <1>3, <1>7 DEF WriteMark, WriteWait, ReadStart, ReadMark, ReadWait, vars, histories
<1> QED
  BY <1>4, <1>5, <1>6, <1>7 DEF Next, Write, Read

\* The state of the buffer has its types, for every size and every stream; among
\* them that no chunk is read before it was written.
THEOREM BufferTypeCorrect == Spec => []TypeOK
<1>1. DInv /\ WaitInv /\ ChunksAreCounted => TypeOK
  <2> SUFFICES ASSUME DInv, WaitInv, ChunksAreCounted PROVE TypeOK
    OBVIOUS
  <2>1. readChunks <= sent
    BY DEF ChunksAreCounted
  <2> QED
    BY <2>1 DEF DInv, DataTypeOK, WaitInv, WaitTypeOK, TypeOK
<1>2. DInv /\ ChunksAreCounted /\ [Next]_vars => ChunksAreCounted'
  BY CountStep
<1> QED
  BY WaitBegins, WaitStep, DataInit, DataStep, CountBegins, <1>1, <1>2, PTL DEF Spec
-----------------------------------------------------------------------------
(* The start of the services.                                             *)

\* There are eight services, each with one place in the order, and three stages.
LEMMA StartNames ==
  /\ Len(Starting!Order) = 8 /\ Len(Starting!Stages) = 3
  /\ \A i \in 1 .. 8 : Starting!Order[i] \in Starting!Services
  /\ \A s \in Starting!Services : \E i \in 1 .. 8 : s = Starting!Order[i]
  /\ \A i, k \in 1 .. 8 : Starting!Order[i] = Starting!Order[k] => i = k
<1>1. Len(Starting!Order) = 8 /\ Len(Starting!Stages) = 3
  BY DEF Starting!Order, Starting!Stages
<1>2. DOMAIN Starting!Order = 1 .. 8
  BY DEF Starting!Order
<1>3. /\ \A i \in 1 .. 8 : Starting!Order[i] \in Starting!Services
      /\ \A s \in Starting!Services : \E i \in 1 .. 8 : s = Starting!Order[i]
  BY <1>2 DEF Starting!Services
<1>4. \A i, k \in 1 .. 8 : Starting!Order[i] = Starting!Order[k] => i = k
  BY DEF Starting!Order
<1>5. QED BY <1>1, <1>3, <1>4

\* Where main is decides what comes and what is behind it.
LEMMA StartPlace ==
  ASSUME NEW b, NEW i \in 1 .. 8, NEW j \in 1 .. 3, b = <<i, j>>, NEW k \in 1 .. 8
  PROVE  /\ (\E m \in k + 1 .. 8, n \in 1 .. 3 : b = <<m, n>>) <=> k < i
         /\ (\E m \in 1 .. k - 1, n \in 1 .. 3 : b = <<m, n>>) <=> i < k
         /\ \A n \in 1 .. 3 : b = <<k, n>> <=> k = i /\ n = j
         /\ b # <<"loop">> /\ b # <<"play">> /\ b # <<"test">>
OBVIOUS

\* While main is at a stage of the i-th service, the later ones come.
LEMMA StartAt ==
  ASSUME NEW i \in 1 .. 8, NEW j \in 1 .. 3, s1 = <<i, j>>, NEW k \in 1 .. 8
  PROVE  /\ Starting!Behind(k) <=> k < i
         /\ Starting!Comes(k) <=> i < k \/ (k = i /\ j = 1)
         /\ \A n \in 1 .. 3 : Starting!At(k, n) <=> k = i /\ n = j
<1> DEFINE b == s1
<1>1. /\ (\E m \in k + 1 .. 8, n \in 1 .. 3 : b = <<m, n>>) <=> k < i
      /\ (\E m \in 1 .. k - 1, n \in 1 .. 3 : b = <<m, n>>) <=> i < k
      /\ \A n \in 1 .. 3 : b = <<k, n>> <=> k = i /\ n = j
      /\ b # <<"loop">> /\ b # <<"play">> /\ b # <<"test">>
  <2>1. b = <<i, j>>
    OBVIOUS
  <2> HIDE DEF b
  <2> QED BY <2>1, StartPlace, SMTT(30)
<1>2. Starting!Behind(k) <=> (\E m \in k + 1 .. 8, n \in 1 .. 3 : b = <<m, n>>)
  BY <1>1, StartNames DEF Starting!Behind, Starting!At
<1>3. Starting!Comes(k) <=> (\E m \in 1 .. k - 1, n \in 1 .. 3 : b = <<m, n>>) \/ b = <<k, 1>>
  BY <1>1, StartNames DEF Starting!Comes, Starting!At
<1>4. \A n \in 1 .. 3 : Starting!At(k, n) <=> b = <<k, n>>
  BY DEF Starting!At
<1> HIDE DEF b
<1> QED BY <1>1, <1>2, <1>3, <1>4

\* The same after a step.
LEMMA StartGoesTo ==
  ASSUME NEW i \in 1 .. 8, NEW j \in 1 .. 3, s1' = <<i, j>>, NEW k \in 1 .. 8
  PROVE  /\ Starting!Behind(k)' <=> k < i
         /\ Starting!Comes(k)' <=> i < k \/ (k = i /\ j = 1)
         /\ \A n \in 1 .. 3 : Starting!At(k, n)' <=> k = i /\ n = j
<1> DEFINE b == s1'
<1>1. /\ (\E m \in k + 1 .. 8, n \in 1 .. 3 : b = <<m, n>>) <=> k < i
      /\ (\E m \in 1 .. k - 1, n \in 1 .. 3 : b = <<m, n>>) <=> i < k
      /\ \A n \in 1 .. 3 : b = <<k, n>> <=> k = i /\ n = j
      /\ b # <<"loop">> /\ b # <<"play">> /\ b # <<"test">>
  <2>1. b = <<i, j>>
    OBVIOUS
  <2> HIDE DEF b
  <2> QED BY <2>1, StartPlace, SMTT(30)
<1>2. Starting!Behind(k)' <=> (\E m \in k + 1 .. 8, n \in 1 .. 3 : b = <<m, n>>)
  BY <1>1, StartNames DEF Starting!Behind, Starting!At
<1>3. Starting!Comes(k)' <=> (\E m \in 1 .. k - 1, n \in 1 .. 3 : b = <<m, n>>) \/ b = <<k, 1>>
  BY <1>1, StartNames DEF Starting!Comes, Starting!At
<1>4. \A n \in 1 .. 3 : Starting!At(k, n)' <=> b = <<k, n>>
  BY DEF Starting!At
<1> HIDE DEF b
<1> QED BY <1>1, <1>2, <1>3, <1>4

\* Nothing is created before the greeting.
LEMMA StartBegins ==
  ASSUME Starting!StartInit PROVE Starting!StartInv
<1> USE DEF Starting!StartInit, Starting!None
<1>1. s6 \in BOOLEAN /\ s7 \in BOOLEAN /\ ~s6 /\ ~s7
  OBVIOUS
<1>2. Starting!StartTypeOK
  <2>1. s5 \in [Starting!Listeners -> {<<>>, <<"connected">>, <<"gone">>}]
    OBVIOUS
  <2>2. s9 \in Seq(Starting!Services)
    OBVIOUS
  <2>3. QED BY <1>1, <2>1, <2>2 DEF Starting!StartTypeOK
<1>3. Starting!CreatedInOrder
  <2>1. \A i \in 1 .. 8 : ~Starting!Behind(i) /\ ~Starting!At(i, 2) /\ ~Starting!At(i, 3)
    BY DEF Starting!Behind, Starting!At
  <2>2. QED BY <2>1, StartNames DEF Starting!CreatedInOrder, Starting!CreatedSoFar
<1>4. Starting!RunsWithAll
  BY DEF Starting!RunsWithAll
<1>5. Starting!HearsWhenJoined
  BY <1>1 DEF Starting!HearsWhenJoined
<1>6. Starting!AsksWhenStarted
  BY <1>1 DEF Starting!AsksWhenStarted
<1>7. QED BY <1>2, <1>3, <1>4, <1>5, <1>6 DEF Starting!StartInv

\* What main creates is what its place says.
LEMMA StartCreates ==
  ASSUME Starting!StartTypeOK, NEW s \in Starting!Services, NEW j \in 1 .. 3, Starting!Creates(s, Starting!Stages[j])
  PROVE  \E i \in 1 .. 8 : s1 = <<i, j>> /\ s = Starting!Order[i]
<1>1. PICK i \in 1 .. 8, n \in 1 .. 3 : s1 = <<i, n>>
  <2>1. Len(s1) = 2 /\ Len(<<"play">>) = 1 /\ Len(<<"test">>) = 1 /\ Len(<<"loop">>) = 1
    BY DEF Starting!Creates
  <2>2. s1 \in (1 .. 8) \X (1 .. 3)
    <3>1. s1 # <<"play">> /\ s1 # <<"test">> /\ s1 # <<"loop">>
      BY <2>1
    <3>2. s1 \in {<<"play">>, <<"test">>, <<"loop">>} \cup ((1 .. Len(Starting!Order)) \X (1 .. Len(Starting!Stages)))
      BY DEF Starting!StartTypeOK
    <3>3. QED BY <3>1, <3>2, StartNames
  <2>3. QED BY <2>2
<1>2. s = Starting!Order[i] /\ Starting!Stages[n] = Starting!Stages[j]
  BY <1>1 DEF Starting!Creates
<1>3. n = j
  BY <1>2 DEF Starting!Stages
<1>4. QED BY <1>1, <1>2, <1>3

\* The stage and the service after this one.
LEMMA StartNext ==
  ASSUME NEW i \in 1 .. 8, NEW j \in 1 .. 3, s1 = <<i, j>>
  PROVE  /\ Starting!NextService = IF i < 8 THEN <<i + 1, 1>> ELSE <<"loop">>
         /\ Starting!NextStage = IF j < 3 THEN <<i, j + 1>> ELSE Starting!NextService
BY StartNames DEF Starting!NextService, Starting!NextStage

\* A step of main leaves the services before and behind the one it creates as
\* they are.
LEMMA StartOthers ==
  ASSUME Starting!StartTypeOK, Starting!CreatedInOrder,
         NEW i \in 1 .. 8, NEW j \in 1 .. 3, s1 = <<i, j>>,
         s1' \in {Starting!NextStage, Starting!NextService},
         \A s \in Starting!Services : s # Starting!Order[i] =>
            s2'[s] = s2[s] /\ s3'[s] = s3[s] /\ s4'[s] = s4[s] /\ (Starting!Unhurt(s)' => Starting!Unhurt(s)),
         NEW k \in 1 .. 8, k # i
  PROVE  Starting!CreatedSoFar(k)'
<1> DEFINE s == Starting!Order[k]
<1>1. s \in Starting!Services /\ s # Starting!Order[i]
  BY StartNames
<1>2. s2'[s] = s2[s] /\ s3'[s] = s3[s] /\ s4'[s] = s4[s] /\ (Starting!Unhurt(s)' => Starting!Unhurt(s))
  BY <1>1
<1>3. (Starting!Behind(k) <=> k < i) /\ (Starting!Comes(k) <=> k > i)
  BY StartAt
<1>4. s1' = <<"loop">> \/ \E m \in 1 .. 8, n \in 1 .. 3 : s1' = <<m, n>> /\ (m = i \/ (m = i + 1 /\ n = 1))
  BY StartNext
<1>5. (Starting!Behind(k)' => k < i) /\ (Starting!Comes(k)' => Starting!Comes(k)) /\ (k < i => Starting!Behind(k)')
  <2>1. CASE s1' = <<"loop">>
    BY <1>3, <2>1, StartNext, StartNames DEF Starting!Behind, Starting!Comes, Starting!At
  <2>2. CASE s1' # <<"loop">>
    <3>1. PICK m \in 1 .. 8, n \in 1 .. 3 : s1' = <<m, n>> /\ (m = i \/ (m = i + 1 /\ n = 1))
      BY <1>4, <2>2
    <3>2. (Starting!Behind(k)' <=> k < m) /\ (Starting!Comes(k)' => m < k \/ (k = m /\ n = 1))
      BY <3>1, StartGoesTo
    <3>3. QED BY <1>3, <3>1, <3>2
  <2>3. QED BY <2>1, <2>2
<1>6. ~Starting!At(k, 2)' /\ ~Starting!At(k, 3)'
  <2>1. CASE s1' = <<"loop">>
    BY <2>1 DEF Starting!At
  <2>2. CASE \E m \in 1 .. 8, n \in 1 .. 3 : s1' = <<m, n>> /\ (m = i \/ (m = i + 1 /\ n = 1))
    BY <2>2, StartGoesTo
  <2>3. QED BY <1>4, <2>1, <2>2
<1>7. Starting!CreatedSoFar(k)
  BY StartNames DEF Starting!CreatedInOrder
<1>8. QED BY <1>2, <1>3, <1>5, <1>6, <1>7 DEF Starting!CreatedSoFar

\* A failure hurts the service it is of, and no failure is forgotten.
LEMMA StartHurts ==
  ASSUME Starting!StartTypeOK, NEW s \in Starting!Services, s9' = s9 \/ s9' = Append(s9, s)
  PROVE  /\ s9' \in Seq(Starting!Services)
         /\ \A x \in Starting!Services : Starting!Unhurt(x)' => Starting!Unhurt(x)
         /\ s9' = Append(s9, s) => ~Starting!Unhurt(s)'
<1>1. s9 \in Seq(Starting!Services)
  BY DEF Starting!StartTypeOK
<1>2. CASE s9' = s9
  <2>1. Append(s9, s) # s9
    BY <1>1
  <2>2. QED BY <1>1, <1>2, <2>1 DEF Starting!Unhurt
<1>3. CASE s9' = Append(s9, s)
  <2>1. /\ s9' \in Seq(Starting!Services) /\ DOMAIN s9' = 1 .. Len(s9) + 1 /\ DOMAIN s9 = 1 .. Len(s9)
        /\ s9'[Len(s9) + 1] = s /\ Len(s9) + 1 \in DOMAIN s9'
        /\ \A i \in 1 .. Len(s9) : s9'[i] = s9[i] /\ i \in DOMAIN s9'
    BY <1>1, <1>3
  <2>2. QED BY <2>1 DEF Starting!Unhurt
<1>4. QED BY <1>2, <1>3

\* A step of main that does what its stage asks of the service, or undoes it.
LEMMA StartMainStep ==
  ASSUME Starting!StartInv, Starting!StartTypeOK',
         NEW i \in 1 .. 8, NEW j \in 1 .. 3, s1 = <<i, j>>, NEW s, s = Starting!Order[i],
         s1' \in {Starting!NextStage, Starting!NextService},
         UNCHANGED <<s5, s6, s7, s8>>,
         s9' = s9 \/ s9' = Append(s9, s),
         \A x \in Starting!Services : x # s => s2'[x] = s2[x] /\ s3'[x] = s3[x] /\ s4'[x] = s4[x],
         Starting!CreatedSoFar(i)',
         s4'[s] \in {"created", "joined"} => Starting!HasHandle(s)' /\ Starting!HasLock(s)',
         s2'[s] = "freed" => s = "memo"
  PROVE  Starting!StartInv'
<1> USE DEF Starting!StartInv
<1>1. s \in Starting!Services /\ s4[s] = "none"
  <2>1. ~Starting!Behind(i)
    BY StartAt
  <2>2. QED BY <2>1, StartNames DEF Starting!CreatedInOrder, Starting!CreatedSoFar
<1>2. \A x \in Starting!Services : Starting!Unhurt(x)' => Starting!Unhurt(x)
  BY <1>1, StartHurts
<1>3. Starting!CreatedInOrder'
  <2>1. \A k \in 1 .. 8 : k # i => Starting!CreatedSoFar(k)'
    BY <1>2, StartOthers
  <2>2. QED BY <2>1, StartNames DEF Starting!CreatedInOrder
<1>4. Starting!RunsWithAll'
  <2>1. \A x \in Starting!Services : x # s /\ s4'[x] \in {"created", "joined"} => Starting!HasHandle(x)' /\ Starting!HasLock(x)'
    BY <1>2 DEF Starting!RunsWithAll, Starting!HasHandle, Starting!HasLock
  <2>2. \A x \in Starting!Services : s2'[x] = "freed" => x = "memo"
    BY DEF Starting!RunsWithAll
  <2>3. QED BY <2>1, <2>2 DEF Starting!RunsWithAll
<1>5. Starting!HearsWhenJoined'
  <2>1. \A x \in Starting!Services : s4[x] = "joined" => s4'[x] = "joined"
    BY <1>1
  <2>2. "ota" \in Starting!Services /\ Starting!Listeners \subseteq Starting!Services
    BY StartNames DEF Starting!Listeners, Starting!Order
  <2>3. QED BY <2>1, <2>2 DEF Starting!HearsWhenJoined
<1>6. Starting!AsksWhenStarted'
  <2>1. Starting!Order[3] = "asr"
    BY DEF Starting!Order
  <2>2. Starting!Behind(3) => 3 < i
    BY StartAt
  <2>3. 3 < i => Starting!Behind(3)'
    <3>1. CASE s1' = <<"loop">>
      BY <3>1 DEF Starting!Behind, Starting!At
    <3>2. CASE s1' # <<"loop">> /\ 3 < i
      <4>1. PICK m \in 1 .. 8, n \in 1 .. 3 : s1' = <<m, n>> /\ m >= i
        BY <3>2, StartNext
      <4>2. m \in 4 .. 8
        BY <3>2, <4>1
      <4>3. QED BY <4>1, <4>2, StartNames DEF Starting!Behind, Starting!At
    <3>3. QED BY <3>1, <3>2
  <2>4. s8 # "checked"
    BY StartPlace DEF Starting!AsksWhenStarted
  <2>5. 3 < i => s4'["asr"] = s4["asr"]
    BY <2>1, StartNames
  <2>6. QED BY <2>2, <2>3, <2>4, <2>5 DEF Starting!AsksWhenStarted
<1>7. QED BY <1>3, <1>4, <1>5, <1>6

\* The handle comes first, or the service is passed over.
LEMMA StartHandle ==
  ASSUME Starting!StartInv, NEW s \in Starting!Services, Starting!NewHandle(s) PROVE Starting!StartInv'
<1> USE DEF Starting!StartInv
<1>1. PICK i \in 1 .. 8 : s1 = <<i, 1>> /\ s = Starting!Order[i]
  <2>1. Starting!Creates(s, Starting!Stages[1])
    BY DEF Starting!NewHandle, Starting!Stages
  <2>2. QED BY <2>1, StartCreates
<1>2. UNCHANGED <<s3, s4, s5, s6, s7, s8>>
  BY DEF Starting!NewHandle
<1>3. Starting!Comes(i) /\ ~Starting!Behind(i)
  BY <1>1, StartAt
<1>4. s2[s] = "none" /\ s3[s] = "none" /\ s4[s] = "none"
  BY <1>1, <1>3, StartNames DEF Starting!CreatedInOrder, Starting!CreatedSoFar
<1>5. CASE /\ Starting!Works /\ s1' = Starting!NextStage
           /\ s2' = IF s \in Starting!WithHandle \cup {"bus"} THEN [s2 EXCEPT ![s] = "live"] ELSE s2
  <2>1. s1' = <<i, 2>> /\ s9' = s9
    BY <1>1, <1>5, StartNext DEF Starting!Works
  <2>2. Starting!HasHandle(s)' /\ s2'[s] \in {"none", "live"}
    BY <1>4, <1>5 DEF Starting!HasHandle, Starting!StartTypeOK
  <2>3. Starting!CreatedSoFar(i)'
    <3>1. ~Starting!Comes(i)' /\ ~Starting!Behind(i)' /\ ~Starting!At(i, 3)'
      BY <2>1, StartGoesTo
    <3>2. QED BY <1>1, <1>2, <1>4, <2>2, <3>1 DEF Starting!CreatedSoFar
  <2>4. Starting!StartTypeOK'
    BY <1>2, <1>5, <2>1, StartNames DEF Starting!StartTypeOK
  <2>5. \A x \in Starting!Services : x # s => s2'[x] = s2[x]
    BY <1>5 DEF Starting!StartTypeOK
  <2>6. QED BY <1>1, <1>2, <1>4, <1>5, <2>1, <2>2, <2>3, <2>4, <2>5, StartMainStep
<1>6. CASE Starting!Fails(s) /\ s1' = Starting!NextService /\ s2' = s2
  <2>1. s9' = Append(s9, s)
    BY <1>6 DEF Starting!Fails
  <2>2. ~Starting!Unhurt(s)' /\ s9' \in Seq(Starting!Services)
    BY <2>1, StartHurts
  <2>3. Starting!CreatedSoFar(i)'
    <3>1. ~Starting!Comes(i)' /\ ~Starting!At(i, 2)' /\ ~Starting!At(i, 3)'
      <4>1. s1' = <<"loop">> \/ (i < 8 /\ s1' = <<i + 1, 1>>)
        BY <1>1, <1>6, StartNext
      <4>2. CASE s1' = <<"loop">>
        BY <4>2, StartNames DEF Starting!Comes, Starting!At
      <4>3. CASE i < 8 /\ s1' = <<i + 1, 1>>
        <5>1. i + 1 \in 1 .. 8 /\ 1 \in 1 .. 3
          BY <4>3
        <5>2. QED BY <4>3, <5>1, StartGoesTo
      <4>4. QED BY <4>1, <4>2, <4>3
    <3>2. QED BY <1>1, <1>2, <1>4, <2>2, <3>1 DEF Starting!CreatedSoFar
  <2>4. Starting!StartTypeOK'
    <3>1. s1' = <<"loop">> \/ s1' \in (1 .. 8) \X (1 .. 3)
      BY <1>1, <1>6, StartNext
    <3>2. QED BY <1>2, <1>6, <2>2, <3>1, StartNames DEF Starting!StartTypeOK
  <2>5. QED BY <1>1, <1>2, <1>4, <1>6, <2>1, <2>3, <2>4, StartMainStep
<1>7. QED BY <1>5, <1>6 DEF Starting!NewHandle, Starting!AfterFailure

\* What main leaves behind when a service failed: the next one comes.
LEMMA StartAfterFailure ==
  ASSUME NEW i \in 1 .. 8, NEW j \in 1 .. 3, s1 = <<i, j>>, s1' = Starting!NextService
  PROVE  /\ ~Starting!Comes(i)' /\ ~Starting!At(i, 2)' /\ ~Starting!At(i, 3)' /\ Starting!Behind(i)'
         /\ s1' = <<"loop">> \/ s1' \in (1 .. 8) \X (1 .. 3)
<1>1. s1' = <<"loop">> \/ (i < 8 /\ s1' = <<i + 1, 1>>)
  BY StartNext
<1>2. CASE s1' = <<"loop">>
  BY <1>2 DEF Starting!Comes, Starting!At, Starting!Behind
<1>3. CASE i < 8 /\ s1' = <<i + 1, 1>>
  <2>1. i + 1 \in 1 .. 8 /\ 1 \in 1 .. 3
    BY <1>3
  <2>2. QED BY <1>3, <2>1, StartGoesTo
<1>4. QED BY <1>1, <1>2, <1>3

\* The lock comes next; who looks at it gives the handle back without it.
LEMMA StartLock ==
  ASSUME Starting!StartInv, NEW s \in Starting!Services, Starting!NewLock(s) PROVE Starting!StartInv'
<1> USE DEF Starting!StartInv
<1>1. PICK i \in 1 .. 8 : s1 = <<i, 2>> /\ s = Starting!Order[i]
  <2>1. Starting!Creates(s, Starting!Stages[2])
    BY DEF Starting!NewLock, Starting!Stages
  <2>2. QED BY <2>1, StartCreates
<1>2. UNCHANGED <<s4, s5, s6, s7, s8>>
  BY DEF Starting!NewLock
<1>3. Starting!At(i, 2) /\ ~Starting!Behind(i)
  BY <1>1, StartAt
<1>4. Starting!HasHandle(s) /\ s3[s] = "none" /\ s4[s] = "none"
  BY <1>1, <1>3, StartNames DEF Starting!CreatedInOrder, Starting!CreatedSoFar
<1>5. CASE /\ s1' = Starting!NextStage /\ s2' = s2
           /\ \/ s9' = s9 /\ s3' = IF s \in Starting!WithLock THEN [s3 EXCEPT ![s] = "made"] ELSE s3
              \/ s9' = Append(s9, s) /\ s3' = [s3 EXCEPT ![s] = "missing"]
  <2>1. s1' = <<i, 3>>
    BY <1>1, <1>5, StartNext
  <2>2. s9' \in Seq(Starting!Services) /\ (s9' = Append(s9, s) => ~Starting!Unhurt(s)')
    BY <1>5, StartHurts
  <2>3. Starting!HasHandle(s)' /\ Starting!HasLock(s)'
    BY <1>4, <1>5, <2>2 DEF Starting!HasHandle, Starting!HasLock, Starting!StartTypeOK
  <2>4. Starting!CreatedSoFar(i)'
    <3>1. ~Starting!Comes(i)' /\ ~Starting!Behind(i)' /\ ~Starting!At(i, 2)'
      <4>1. ~Starting!Comes(i)'
        BY <2>1, StartGoesTo
      <4>2. ~Starting!Behind(i)'
        BY <2>1, StartGoesTo
      <4>3. ~Starting!At(i, 2)'
        BY <2>1, StartGoesTo
      <4>4. QED BY <4>1, <4>2, <4>3
    <3>2. QED BY <1>1, <1>2, <1>4, <2>3, <3>1 DEF Starting!CreatedSoFar
  <2>5. Starting!StartTypeOK'
    <3>1. s1' \in (1 .. Len(Starting!Order)) \X (1 .. Len(Starting!Stages))
      BY <2>1, StartNames
    <3>2. s2' \in [Starting!Services -> {"none", "live", "freed"}]
          /\ s3' \in [Starting!Services -> {"none", "made", "missing"}]
      BY <1>2, <1>5 DEF Starting!StartTypeOK
    <3>3. QED BY <1>2, <2>2, <3>1, <3>2 DEF Starting!StartTypeOK
  <2>6. \A x \in Starting!Services : x # s => s3'[x] = s3[x]
    BY <1>5 DEF Starting!StartTypeOK
  <2>7. s2'[s] = "freed" => s = "memo"
    BY <1>5 DEF Starting!RunsWithAll
  <2>8. QED BY <1>1, <1>2, <1>4, <1>5, <2>1, <2>3, <2>4, <2>5, <2>6, <2>7, StartMainStep
<1>6. CASE /\ s9' = Append(s9, s) /\ s1' = Starting!NextService
           /\ s2' = [s2 EXCEPT ![s] = "none"] /\ s3' = s3
  <2>1. ~Starting!Unhurt(s)' /\ s9' \in Seq(Starting!Services)
    BY <1>6, StartHurts
  <2>2. s1' = <<"loop">> \/ s1' \in (1 .. 8) \X (1 .. 3)
    BY <1>1, <1>6, StartAfterFailure
  <2>3. Starting!CreatedSoFar(i)'
    BY <1>1, <1>2, <1>4, <1>6, <2>1, StartAfterFailure DEF Starting!CreatedSoFar
  <2>4. Starting!StartTypeOK'
    BY <1>2, <1>6, <2>1, <2>2, StartNames DEF Starting!StartTypeOK
  <2>5. s2'[s] = "none" /\ \A x \in Starting!Services : x # s => s2'[x] = s2[x]
    BY <1>6 DEF Starting!StartTypeOK
  <2>6. QED BY <1>1, <1>2, <1>4, <1>6, <2>3, <2>4, <2>5, StartMainStep
<1>7. QED BY <1>5, <1>6 DEF Starting!NewLock, Starting!AfterFailure, Starting!Works, Starting!Fails

\* The thread comes last.
LEMMA StartThread ==
  ASSUME Starting!StartInv, NEW s \in Starting!Services, Starting!StartTask(s) PROVE Starting!StartInv'
<1> USE DEF Starting!StartInv
<1>1. PICK i \in 1 .. 8 : s1 = <<i, 3>> /\ s = Starting!Order[i]
  <2>1. Starting!Creates(s, Starting!Stages[3])
    BY DEF Starting!StartTask, Starting!Stages
  <2>2. QED BY <2>1, StartCreates
<1>2. UNCHANGED <<s5, s6, s7, s8>>
  BY DEF Starting!StartTask
<1>3. Starting!At(i, 3) /\ ~Starting!Behind(i)
  BY <1>1, StartAt
<1>4. Starting!HasHandle(s) /\ Starting!HasLock(s) /\ s4[s] = "none"
  BY <1>1, <1>3, StartNames DEF Starting!CreatedInOrder, Starting!CreatedSoFar
<1>5. s1' = Starting!NextService
  BY <1>1, StartNext DEF Starting!StartTask, Starting!AfterFailure
<1>6. s1' = <<"loop">> \/ s1' \in (1 .. 8) \X (1 .. 3)
  BY <1>1, <1>5, StartAfterFailure
<1>7. CASE s9' = s9 /\ s4' = [s4 EXCEPT ![s] = "created"] /\ UNCHANGED <<s2, s3>>
  <2>1. Starting!HasHandle(s)' /\ Starting!HasLock(s)' /\ s4'[s] = "created"
    BY <1>4, <1>7 DEF Starting!HasHandle, Starting!HasLock, Starting!Unhurt, Starting!StartTypeOK
  <2>2. Starting!CreatedSoFar(i)'
    BY <1>1, <1>5, <2>1, StartAfterFailure DEF Starting!CreatedSoFar
  <2>3. Starting!StartTypeOK'
    BY <1>2, <1>6, <1>7, StartNames DEF Starting!StartTypeOK
  <2>4. \A x \in Starting!Services : x # s => s4'[x] = s4[x]
    BY <1>7 DEF Starting!StartTypeOK
  <2>5. s2'[s] = "freed" => s = "memo"
    BY <1>7 DEF Starting!RunsWithAll
  <2>6. QED BY <1>1, <1>2, <1>5, <1>7, <2>1, <2>2, <2>3, <2>4, <2>5, StartMainStep
<1>8. CASE /\ s9' = Append(s9, s) /\ s4' = s4
           /\ s2' = [s2 EXCEPT ![s] = Starting!Undone(s)] /\ s3' = [s3 EXCEPT ![s] = "none"]
  <2>1. ~Starting!Unhurt(s)' /\ s9' \in Seq(Starting!Services)
    BY <1>8, StartHurts
  <2>2. Starting!Undone(s) \in {"none", "live", "freed"} /\ (Starting!Undone(s) = "freed" => s = "memo")
    BY DEF Starting!Undone, Starting!StartTypeOK, Starting!RunsWithAll
  <2>3. /\ s2'[s] = "freed" => s = "memo"
        /\ \A x \in Starting!Services : x # s => s2'[x] = s2[x] /\ s3'[x] = s3[x]
    BY <1>8, <2>2 DEF Starting!StartTypeOK
  <2>4. Starting!CreatedSoFar(i)'
    BY <1>1, <1>4, <1>5, <1>8, <2>1, StartAfterFailure DEF Starting!CreatedSoFar
  <2>5. Starting!StartTypeOK'
    BY <1>2, <1>6, <1>8, <2>1, <2>2, StartNames DEF Starting!StartTypeOK
  <2>6. QED BY <1>1, <1>2, <1>4, <1>5, <1>8, <2>3, <2>4, <2>5, StartMainStep
<1>9. CASE s9' = Append(s9, s) /\ s4' = [s4 EXCEPT ![s] = "dead"] /\ UNCHANGED <<s2, s3>>
  <2>1. ~Starting!Unhurt(s)' /\ s9' \in Seq(Starting!Services)
    BY <1>9, StartHurts
  <2>2. Starting!CreatedSoFar(i)'
    BY <1>1, <1>5, <2>1, StartAfterFailure DEF Starting!CreatedSoFar
  <2>3. Starting!StartTypeOK'
    BY <1>2, <1>6, <1>9, <2>1, StartNames DEF Starting!StartTypeOK
  <2>4. s4'[s] = "dead" /\ \A x \in Starting!Services : x # s => s4'[x] = s4[x]
    BY <1>9 DEF Starting!StartTypeOK
  <2>5. s2'[s] = "freed" => s = "memo"
    BY <1>9 DEF Starting!RunsWithAll
  <2>6. QED BY <1>1, <1>2, <1>5, <1>9, <2>2, <2>3, <2>4, <2>5, StartMainStep
<1>10. QED BY <1>7, <1>8, <1>9 DEF Starting!StartTask, Starting!Works, Starting!Fails

\* A thread joins the bus, or undoes what its service has.
LEMMA StartJoins ==
  ASSUME Starting!StartInv, NEW s \in Starting!Services, Starting!JoinBus(s) \/ Starting!Misses(s)
  PROVE  Starting!StartInv'
<1> USE DEF Starting!StartInv
<1>1. UNCHANGED <<s1, s5, s6, s7, s8>> /\ s4[s] = "created"
  BY DEF Starting!JoinBus, Starting!Misses
<1>2. /\ \A x \in Starting!Services : x # s => s2'[x] = s2[x] /\ s3'[x] = s3[x] /\ s4'[x] = s4[x]
      /\ \/ s2' = s2 /\ s3' = s3 /\ s9' = s9 /\ s4'[s] = "joined"
         \/ s9' = Append(s9, s) /\ s4'[s] = "ended" /\ (s2'[s] = "freed" => s = "memo")
      /\ Starting!StartTypeOK'
  <2>1. CASE Starting!JoinBus(s)
    BY <2>1 DEF Starting!JoinBus, Starting!Works, Starting!StartTypeOK
  <2>2. CASE Starting!Misses(s)
    <3>1. s9' = Append(s9, s) /\ s9' \in Seq(Starting!Services)
      BY <2>2, StartHurts DEF Starting!Misses, Starting!Fails
    <3>2. s2' \in {s2, [s2 EXCEPT ![s] = "freed"], [s2 EXCEPT ![s] = "none"]} /\ (s # "memo" => s2' # [s2 EXCEPT ![s] = "freed"] \/ s2[s] = "freed")
      BY <2>2 DEF Starting!Misses, Starting!StartTypeOK
    <3>3. s3' \in {s3, [s3 EXCEPT ![s] = "none"]} /\ s4' = [s4 EXCEPT ![s] = "ended"]
      BY <2>2 DEF Starting!Misses
    <3>4. s2'[s] = "freed" => s = "memo"
      BY <3>2 DEF Starting!RunsWithAll, Starting!StartTypeOK
    <3>5. QED BY <1>1, <3>1, <3>2, <3>3, <3>4 DEF Starting!StartTypeOK
  <2>3. QED BY <2>1, <2>2
<1>3. \A x \in Starting!Services : Starting!Unhurt(x)' => Starting!Unhurt(x)
  BY <1>2, StartHurts
<1>4. PICK i \in 1 .. 8 : s = Starting!Order[i]
  BY StartNames
<1>5. Starting!Behind(i) /\ ~Starting!Comes(i) /\ ~Starting!At(i, 2) /\ ~Starting!At(i, 3)
  <2>1. Starting!Behind(i)
    BY <1>1, <1>4, StartNames DEF Starting!CreatedInOrder, Starting!CreatedSoFar
  <2>2. CASE s1 = <<"loop">>
    <3>1. \A m, n : s1 # <<m, n>>
      <4>1. \A m, n : Len(<<m, n>>) = 2
        OBVIOUS
      <4>2. QED BY <2>2, <4>1
    <3>2. s1 # <<"play">> /\ s1 # <<"test">>
      BY <2>2
    <3>3. ~Starting!Comes(i) /\ ~Starting!At(i, 2) /\ ~Starting!At(i, 3)
      BY <3>1, <3>2 DEF Starting!Comes, Starting!At
    <3>4. QED BY <2>1, <3>3
  <2>3. CASE s1 # <<"loop">>
    <3>1. PICK m \in i + 1 .. 8, n \in 1 .. 3 : s1 = <<m, n>>
      BY <2>1, <2>3, StartNames DEF Starting!Behind, Starting!At
    <3>2. QED BY <2>1, <3>1, StartAt
  <2>4. QED BY <2>1, <2>2, <2>3
<1>6. \A k \in 1 .. 8 : /\ Starting!Comes(k)' <=> Starting!Comes(k)
                        /\ Starting!Behind(k)' <=> Starting!Behind(k)
                        /\ Starting!At(k, 2)' <=> Starting!At(k, 2)
                        /\ Starting!At(k, 3)' <=> Starting!At(k, 3)
  BY <1>1 DEF Starting!Comes, Starting!Behind, Starting!At
<1>7. Starting!CreatedInOrder'
  <2>1. ASSUME NEW k \in 1 .. 8 PROVE Starting!CreatedSoFar(k)'
    <3>1. CASE k = i
      <4>1. s9' = Append(s9, s) => ~Starting!Unhurt(s)'
        BY StartHurts
      <4>2. QED BY <1>2, <1>4, <1>5, <1>6, <3>1, <4>1 DEF Starting!CreatedSoFar
    <3>2. CASE k # i
      <4>1. Starting!Order[k] # s /\ Starting!Order[k] \in Starting!Services /\ Starting!CreatedSoFar(k)
        BY <1>4, <3>2, StartNames DEF Starting!CreatedInOrder
      <4>2. QED BY <1>2, <1>3, <1>6, <4>1 DEF Starting!CreatedSoFar, Starting!HasHandle, Starting!HasLock
    <3>3. QED BY <3>1, <3>2
  <2>2. QED BY <2>1, StartNames DEF Starting!CreatedInOrder
<1>8. Starting!RunsWithAll'
  <2>1. ASSUME NEW x \in Starting!Services, s4'[x] \in {"created", "joined"}
        PROVE  Starting!HasHandle(x)' /\ Starting!HasLock(x)'
    <3>1. Starting!HasHandle(x) /\ Starting!HasLock(x) /\ s2'[x] = s2[x] /\ s3'[x] = s3[x]
      BY <1>1, <1>2, <2>1 DEF Starting!RunsWithAll
    <3>2. QED BY <1>2, <1>3, <3>1 DEF Starting!HasHandle, Starting!HasLock, Starting!Unhurt
  <2>2. \A x \in Starting!Services : s2'[x] = "freed" => x = "memo"
    BY <1>2 DEF Starting!RunsWithAll
  <2>3. QED BY <2>1, <2>2 DEF Starting!RunsWithAll
<1>9. Starting!HearsWhenJoined' /\ Starting!AsksWhenStarted'
  <2>1. {"ota", "asr"} \subseteq Starting!Services /\ Starting!Listeners \subseteq Starting!Services
    BY StartNames DEF Starting!Listeners, Starting!Order
  <2>2. \A x \in Starting!Services : s4[x] = "joined" => s4'[x] = "joined"
    BY <1>1, <1>2
  <2>3. s4["asr"] # "created" => s4'["asr"] # "created" /\ s2'["asr"] = s2["asr"]
    BY <1>1, <1>2, <2>1
  <2>4. Starting!Behind(3)' <=> Starting!Behind(3)
    BY <1>6
  <2>5. Starting!HearsWhenJoined'
    BY <1>1, <2>1, <2>2 DEF Starting!HearsWhenJoined
  <2>6. QED BY <1>1, <2>3, <2>4, <2>5 DEF Starting!AsksWhenStarted
<1>10. QED BY <1>2, <1>7, <1>8, <1>9

\* What is told on the bus is heard by those that joined it.
LEMMA StartHears ==
  ASSUME Starting!StartInv,
         \/ Starting!GreetingEnds \/ Starting!Ask \/ Starting!Queue \/ Starting!UpdateStarts \/ Starting!UpdateFails
         \/ \E what \in {"connected", "gone"} :
              Starting!Tell(what) \/ Starting!SpeechHears(what) \/ Starting!NoUpdate(what)
  PROVE  Starting!StartInv'
<1> USE DEF Starting!StartInv
<1>1. UNCHANGED <<s2, s3, s4, s9>>
  BY DEF Starting!GreetingEnds, Starting!Ask, Starting!Queue, Starting!UpdateStarts, Starting!UpdateFails,
         Starting!Tell, Starting!SpeechHears, Starting!NoUpdate
<1>2. (s1 = <<"play">> /\ s1' = <<1, 1>> /\ UNCHANGED <<s5, s6, s7, s8>>) \/ s1' = s1
  BY DEF Starting!GreetingEnds, Starting!Ask, Starting!Queue, Starting!UpdateStarts, Starting!UpdateFails,
         Starting!Tell, Starting!SpeechHears, Starting!NoUpdate
<1>3. \A k \in 1 .. 8 : /\ Starting!Comes(k)' => Starting!Comes(k)
                        /\ Starting!Behind(k)' <=> Starting!Behind(k)
                        /\ Starting!At(k, 2)' => Starting!At(k, 2)
                        /\ Starting!At(k, 3)' => Starting!At(k, 3)
  <2>1. CASE s1' = s1
    BY <2>1 DEF Starting!Comes, Starting!Behind, Starting!At
  <2>2. CASE s1 = <<"play">> /\ s1' = <<1, 1>>
    <3>1. \A k \in 1 .. 8 : Starting!Comes(k) /\ ~Starting!Behind(k)
      <4>1. \A m, n : s1 # <<m, n>>
        <5>1. \A m, n : Len(<<m, n>>) = 2
          OBVIOUS
        <5>2. QED BY <2>2, <5>1
      <4>2. s1 # <<"loop">>
        BY <2>2
      <4>3. QED BY <2>2, <4>1, <4>2 DEF Starting!Comes, Starting!Behind, Starting!At
    <3>2. \A k \in 1 .. 8 : ~Starting!Behind(k)' /\ ~Starting!At(k, 2)' /\ ~Starting!At(k, 3)'
      BY <2>2, StartGoesTo
    <3>3. QED BY <3>1, <3>2
  <2>3. QED BY <1>2, <2>1, <2>2
<1>4. Starting!CreatedInOrder' /\ Starting!RunsWithAll'
  <2>1. \A x : (Starting!Unhurt(x)' <=> Starting!Unhurt(x)) /\ (Starting!HasHandle(x)' <=> Starting!HasHandle(x))
               /\ (Starting!HasLock(x)' <=> Starting!HasLock(x))
    BY <1>1 DEF Starting!Unhurt, Starting!HasHandle, Starting!HasLock
  <2>2. QED BY <1>1, <1>3, <2>1, StartNames DEF Starting!CreatedInOrder, Starting!CreatedSoFar, Starting!RunsWithAll
<1>5. {"ota", "asr"} \subseteq Starting!Services /\ Starting!Listeners = {"ota", "asr"}
  BY StartNames DEF Starting!Listeners, Starting!Order
<1>6. \A x \in Starting!Services : s4[x] = "joined" => \E i \in 1 .. 8 : x = Starting!Order[i] /\ Starting!Behind(i)
  BY StartNames DEF Starting!CreatedInOrder, Starting!CreatedSoFar
<1>7. s4["asr"] = "joined" \/ s4["ota"] = "joined" => Starting!Behind(3)
  <2>1. Starting!Order[3] = "asr" /\ Starting!Order[6] = "ota"
    BY DEF Starting!Order
  <2>2. Starting!Behind(6) => Starting!Behind(3)
    BY StartNames DEF Starting!Behind
  <2>3. QED BY <1>5, <1>6, <2>1, <2>2, StartNames
<1>8. CASE Starting!GreetingEnds
  <2>1. UNCHANGED <<s5, s6, s7, s8>> /\ s1' \in (1 .. 8) \X (1 .. 3)
    BY <1>8 DEF Starting!GreetingEnds
  <2>2. Starting!StartTypeOK'
    BY <1>1, <2>1, StartNames DEF Starting!StartTypeOK
  <2>3. s8 # "checked"
    BY <1>8, StartNames DEF Starting!AsksWhenStarted, Starting!GreetingEnds
  <2>4. Starting!HearsWhenJoined'
    BY <1>1, <2>1 DEF Starting!HearsWhenJoined
  <2>5. QED BY <1>1, <1>3, <1>4, <2>1, <2>2, <2>3, <2>4 DEF Starting!AsksWhenStarted
<1>9. CASE Starting!Ask \/ Starting!Queue
  <2>1. UNCHANGED <<s1, s5, s6, s7>> /\ s8' \in {"none", "checked"}
        /\ (s8' = "checked" => s1 = <<"loop">> /\ s6 /\ s2["asr"] # "none")
    BY <1>9 DEF Starting!Ask, Starting!Queue
  <2>2. s2["asr"] \in {"none", "live"}
    BY <1>5 DEF Starting!StartTypeOK, Starting!RunsWithAll
  <2>3. Starting!StartTypeOK'
    BY <1>1, <2>1 DEF Starting!StartTypeOK
  <2>4. Starting!HearsWhenJoined'
    BY <1>1, <2>1 DEF Starting!HearsWhenJoined
  <2>5. Starting!AsksWhenStarted'
    BY <1>1, <1>3, <2>1, <2>2 DEF Starting!AsksWhenStarted
  <2>6. QED BY <1>4, <2>3, <2>4, <2>5
<1>10. CASE \E what \in {"connected", "gone"} : Starting!Tell(what)
  <2>1. PICK what \in {"connected", "gone"} : Starting!Tell(what)
    BY <1>10
  <2>2. UNCHANGED <<s1, s6, s7, s8>>
        /\ s5' = [x \in Starting!Listeners |-> IF s4[x] = "joined" THEN <<what>> ELSE <<>>]
    BY <2>1 DEF Starting!Tell
  <2>3. Starting!StartTypeOK'
    BY <1>1, <2>2 DEF Starting!StartTypeOK
  <2>4. Starting!HearsWhenJoined'
    BY <1>1, <2>2 DEF Starting!HearsWhenJoined
  <2>5. QED BY <1>1, <1>3, <1>4, <2>2, <2>3, <2>4 DEF Starting!AsksWhenStarted
<1>11. CASE \E what \in {"connected", "gone"} : Starting!SpeechHears(what)
  <2>1. PICK what \in {"connected", "gone"} : Starting!SpeechHears(what)
    BY <1>11
  <2>2. UNCHANGED <<s1, s7, s8>> /\ s6' \in BOOLEAN /\ s5["asr"] = <<what>> /\ s5' = [s5 EXCEPT !["asr"] = <<>>]
    BY <2>1 DEF Starting!SpeechHears, Starting!Takes
  <2>3. s4["asr"] = "joined"
    BY <1>5, <2>2 DEF Starting!HearsWhenJoined
  <2>4. Starting!StartTypeOK'
    BY <1>1, <1>5, <2>2 DEF Starting!StartTypeOK
  <2>5. Starting!HearsWhenJoined'
    BY <1>1, <1>5, <2>2 DEF Starting!HearsWhenJoined, Starting!StartTypeOK
  <2>6. Starting!AsksWhenStarted'
    BY <1>1, <1>3, <1>7, <2>2, <2>3 DEF Starting!AsksWhenStarted
  <2>7. QED BY <1>4, <2>4, <2>5, <2>6
<1>12. CASE Starting!UpdateStarts \/ \E what \in {"connected", "gone"} : Starting!NoUpdate(what)
  <2>1. /\ UNCHANGED <<s1, s8>> /\ s6' \in BOOLEAN /\ (s6' => s6) /\ s7' \in BOOLEAN /\ s5["ota"] # <<>>
        /\ s5' = [s5 EXCEPT !["ota"] = <<>>]
    <3>1. CASE Starting!UpdateStarts
      <4>1. UNCHANGED <<s1, s8>> /\ s5["ota"] # <<>> /\ s5' = [s5 EXCEPT !["ota"] = <<>>]
        BY <3>1 DEF Starting!UpdateStarts, Starting!Takes
      <4>2. s6' \in BOOLEAN /\ ~s6' /\ s7' \in BOOLEAN
        BY <3>1 DEF Starting!UpdateStarts
      <4>3. QED BY <4>1, <4>2
    <3>2. CASE \E what \in {"connected", "gone"} : Starting!NoUpdate(what)
      <4>1. UNCHANGED <<s1, s6, s7, s8>> /\ s5["ota"] # <<>> /\ s5' = [s5 EXCEPT !["ota"] = <<>>]
        BY <3>2 DEF Starting!NoUpdate, Starting!Takes
      <4>2. s6 \in BOOLEAN /\ s7 \in BOOLEAN
        BY DEF Starting!StartTypeOK
      <4>3. QED BY <4>1, <4>2
    <3>3. QED BY <1>12, <3>1, <3>2
  <2>2. s4["ota"] = "joined"
    BY <1>5, <2>1 DEF Starting!HearsWhenJoined
  <2>3. Starting!StartTypeOK'
    BY <1>1, <1>5, <2>1 DEF Starting!StartTypeOK
  <2>4. Starting!HearsWhenJoined'
    BY <1>1, <1>5, <2>1, <2>2 DEF Starting!HearsWhenJoined, Starting!StartTypeOK
  <2>5. Starting!AsksWhenStarted'
    BY <1>1, <1>3, <2>1 DEF Starting!AsksWhenStarted
  <2>6. QED BY <1>4, <2>3, <2>4, <2>5
<1>13. CASE Starting!UpdateFails
  <2>1. UNCHANGED <<s1, s5, s8>> /\ s6' \in BOOLEAN /\ s7' \in BOOLEAN /\ ~s7' /\ s7
        /\ s4["asr"] # "created"
    BY <1>5, <1>13 DEF Starting!UpdateFails
  <2>2. s4["ota"] = "joined"
    BY <2>1 DEF Starting!HearsWhenJoined
  <2>3. Starting!StartTypeOK'
    BY <1>1, <2>1 DEF Starting!StartTypeOK
  <2>4. Starting!HearsWhenJoined'
    BY <1>1, <2>1 DEF Starting!HearsWhenJoined
  <2>5. Starting!AsksWhenStarted'
    BY <1>1, <1>3, <1>7, <2>1, <2>2 DEF Starting!AsksWhenStarted
  <2>6. QED BY <1>4, <2>3, <2>4, <2>5
<1>14. QED BY <1>8, <1>9, <1>10, <1>11, <1>12, <1>13

\* Every step of the start keeps the order of what is created.
LEMMA StartStep ==
  ASSUME Starting!StartInv, Starting!StartNext PROVE Starting!StartInv'
BY StartHandle, StartLock, StartThread, StartJoins, StartHears DEF Starting!StartNext

\* What StartIsOrderly says of the start follows from the order.
LEMMA StartKeepsPromise ==
  ASSUME Starting!StartInv PROVE Starting!StartIsOrderly /\ Starting!StartTypeOK
<1>1. Starting!WithHandle \subseteq Starting!Services /\ "asr" \in Starting!Services
  BY StartNames DEF Starting!WithHandle, Starting!Order
<1>2. \A s \in Starting!WithHandle : s4[s] = "joined" =>
         /\ s2[s] = "live"
         /\ s \in Starting!WithLock /\ Starting!Unhurt(s) => s3[s] = "made"
  BY <1>1 DEF Starting!StartInv, Starting!RunsWithAll, Starting!HasHandle, Starting!HasLock
<1>3. s1 = <<"loop">> => \A s \in Starting!Services : Starting!Unhurt(s) => s4[s] \in {"created", "joined"}
  BY StartNames DEF Starting!StartInv, Starting!CreatedInOrder, Starting!CreatedSoFar, Starting!Behind
<1>4. QED BY <1>2, <1>3 DEF Starting!StartIsOrderly, Starting!StartInv, Starting!AsksWhenStarted

\* Nothing changes when nothing happens.
LEMMA StartStays ==
  ASSUME Starting!StartInv, UNCHANGED <<s1, s2, s3, s4, s5, s6, s7, s8, s9>> PROVE Starting!StartInv'
<1> USE DEF Starting!At, Starting!Comes, Starting!Behind, Starting!Unhurt, Starting!HasHandle, Starting!HasLock
<1>1. Starting!StartTypeOK'
  BY DEF Starting!StartInv, Starting!StartTypeOK
<1>2. Starting!CreatedInOrder'
  BY DEF Starting!StartInv, Starting!CreatedInOrder, Starting!CreatedSoFar
<1>3. Starting!RunsWithAll' /\ Starting!HearsWhenJoined' /\ Starting!AsksWhenStarted'
  BY DEF Starting!StartInv, Starting!RunsWithAll, Starting!HearsWhenJoined, Starting!AsksWhenStarted
<1>4. QED BY <1>1, <1>2, <1>3 DEF Starting!StartInv
-----------------------------------------------------------------------------
(* The discovery in the local network.                                    *)

USE SocketAssumption DEF Lan!LanInv, Lan!LanHasOneSocket, Lan!socketVars, Lan!pieces, Lan!others

\* Before the connection there is no socket.
LEMMA LanBegins ==
  ASSUME Lan!Init PROVE Lan!LanInv
BY DEF Lan!Init

\* A socket is made when there is none and closed by the handle it is known by.
LEMMA LanStep ==
  ASSUME Lan!LanInv, Lan!Next PROVE Lan!LanInv'
<1>1. CASE Lan!WifiConnected \/ Lan!WifiDisconnected
  BY <1>1 DEF Lan!WifiConnected, Lan!WifiDisconnected
<1>2. CASE Lan!CreateUdpSocket
  BY <1>2 DEF Lan!CreateUdpSocket, Lan!Fresh
<1>3. CASE Lan!CreateFails \/ Lan!SendUdpPacket
  BY <1>3 DEF Lan!CreateFails, Lan!SendUdpPacket, Lan!lanVars
<1>4. CASE Lan!BroadcastFails
  <2>1. s1' = {} /\ ~s3'
    BY <1>4 DEF Lan!BroadcastFails, Lan!Close
  <2>2. QED BY <1>4, <2>1 DEF Lan!BroadcastFails
<1>5. QED BY <1>1, <1>2, <1>3, <1>4 DEF Lan!Next

\* Nothing changes when nothing happens.
LEMMA LanStays ==
  ASSUME Lan!LanInv, UNCHANGED <<s1, s2, s3, s4, s5, s6, s7, s8, s9, s10>> PROVE Lan!LanInv'
OBVIOUS

HIDE SocketAssumption
HIDE DEF Lan!LanInv, Lan!LanHasOneSocket, Lan!socketVars, Lan!pieces, Lan!others
-----------------------------------------------------------------------------
(* The authorization by the maker.                                        *)

USE SocketAssumption, AuthorizeAssumption
    DEF Auth!socketVars, Auth!ends, Auth!pieces, Auth!request, Auth!SockKeeps, Auth!Idle, Auth!StartsRequest,
        Auth!AuthInv, Auth!AuthTypeOK, Auth!SocketTypeOK, Auth!OneSocket, Auth!RequestFitsState

\* The toy starts without a connection and without a license.
LEMMA AuthBegins ==
  ASSUME Auth!Init PROVE Auth!AuthInv
<1>1. s3 \in BOOLEAN /\ s9 \in BOOLEAN /\ s14 \in BOOLEAN /\ s15 \in BOOLEAN
  BY DEF Auth!Init, Auth!SocketInit
<1>2. QED BY <1>1 DEF Auth!Init, Auth!SocketInit

\* Closing the connection, if there is one, leaves none.
LEMMA AuthCloses ==
  ASSUME Auth!OneSocket, s3 \in BOOLEAN, Auth!CloseServerSock
  PROVE  s1' = {} /\ s2' = INVALID_SOCK /\ s3' \in BOOLEAN /\ ~s3'
<1>1. CASE s2 = INVALID_SOCK
  BY <1>1 DEF Auth!CloseServerSock
<1>2. CASE s2 # INVALID_SOCK
  BY <1>2 DEF Auth!CloseServerSock, Auth!Close
<1>3. QED BY <1>1, <1>2

\* A request closes the connection of the one before it and knows how often it
\* was tried.
LEMMA AuthRequestStep ==
  ASSUME Auth!AuthInv, Auth!RequestCloses \/ Auth!RequestConnects \/ Auth!RequestDone \/ Auth!RequestFails
  PROVE  Auth!AuthInv'
<1>1. CASE Auth!RequestCloses
  <2>1. s1' = {} /\ s2' = INVALID_SOCK /\ s3' \in BOOLEAN /\ ~s3'
    BY <1>1, AuthCloses DEF Auth!RequestCloses
  <2>2. QED BY <1>1, <2>1 DEF Auth!RequestCloses
<1>2. CASE Auth!RequestConnects
  BY <1>2 DEF Auth!RequestConnects, Auth!Fresh
<1>3. CASE Auth!RequestDone
  <2>1. CASE s12 = 2
    <3>1. s1' = {} /\ s2' = INVALID_SOCK /\ s3' \in BOOLEAN /\ ~s3'
      BY <1>3, <2>1, AuthCloses DEF Auth!RequestDone
    <3>2. s9' \in BOOLEAN /\ s9' /\ s15'
      BY <1>3, <2>1 DEF Auth!RequestDone
    <3>3. QED BY <1>3, <2>1, <3>1, <3>2 DEF Auth!RequestDone
  <2>2. CASE s12 # 2
    BY <1>3, <2>2 DEF Auth!RequestDone
  <2>3. QED BY <2>1, <2>2
<1>4. CASE Auth!RequestFails
  <2>1. CASE s11' < MAX_RETRY_SEND_TIMES
    BY <1>4, <2>1 DEF Auth!RequestFails
  <2>2. CASE ~(s11' < MAX_RETRY_SEND_TIMES) /\ s12 = 2
    <3>1. s1' = {} /\ s2' = INVALID_SOCK /\ s3' \in BOOLEAN /\ ~s3'
      BY <1>4, <2>2, AuthCloses DEF Auth!RequestFails, Auth!Success
    <3>2. s9' \in BOOLEAN /\ s9' /\ s15'
      BY <1>4, <2>2 DEF Auth!RequestFails, Auth!Success
    <3>3. QED BY <1>4, <2>2, <3>1, <3>2 DEF Auth!RequestFails, Auth!Success
  <2>3. CASE ~(s11' < MAX_RETRY_SEND_TIMES) /\ s12 # 2
    <3>1. s1' = {} /\ s2' = INVALID_SOCK /\ s3' \in BOOLEAN /\ ~s3'
      BY <1>4, <2>3, AuthCloses DEF Auth!RequestFails, Auth!GiveUpInit
    <3>2. s9' \in BOOLEAN
      BY <1>4, <2>3 DEF Auth!RequestFails, Auth!GiveUpInit
    <3>3. QED BY <1>4, <2>3, <3>1, <3>2 DEF Auth!RequestFails, Auth!GiveUpInit
  <2>4. QED BY <2>1, <2>2, <2>3
<1>5. QED BY <1>1, <1>2, <1>3, <1>4

\* Every step of the authorization keeps its socket, its state and its license
\* together.
LEMMA AuthStep ==
  ASSUME Auth!AuthInv, Auth!Next PROVE Auth!AuthInv'
<1>1. CASE Auth!AuthorizeStart
  BY <1>1 DEF Auth!AuthorizeStart
<1>2. CASE Auth!AuthorizeRecv
  <2>1. s15' \in BOOLEAN /\ s15' /\ s14' \in BOOLEAN
    BY <1>2 DEF Auth!AuthorizeRecv
  <2>2. QED BY <1>2, <2>1 DEF Auth!AuthorizeRecv
<1>3. CASE Auth!AuthorizeRecvFails
  <2>1. s1' = {} /\ s2' = INVALID_SOCK /\ s3' \in BOOLEAN /\ ~s3'
    BY <1>3, AuthCloses DEF Auth!AuthorizeRecvFails
  <2>2. s9' \in BOOLEAN /\ s15' \in BOOLEAN
    BY <1>3 DEF Auth!AuthorizeRecvFails
  <2>3. QED BY <1>3, <2>1, <2>2 DEF Auth!AuthorizeRecvFails
<1>4. CASE Auth!WifiConnected
  BY <1>4 DEF Auth!WifiConnected
<1>5. QED BY <1>1, <1>2, <1>3, <1>4, AuthRequestStep DEF Auth!Next, Auth!Process

\* What AuthorizationIsOrderly says of the authorization is a part of its
\* invariant.
LEMMA AuthKeepsPromise ==
  ASSUME Auth!AuthInv PROVE Auth!AuthorizationIsOrderly /\ Auth!AuthTypeOK
BY DEF Auth!AuthorizationIsOrderly

\* Nothing changes when nothing happens.
LEMMA AuthStays ==
  ASSUME Auth!AuthInv, UNCHANGED <<s1, s2, s3, s4, s5, s6, s7, s8, s9, s10, s11, s12, s13, s14, s15>>
  PROVE  Auth!AuthInv'
OBVIOUS

HIDE AuthorizeAssumption
HIDE SocketAssumption
HIDE DEF Auth!socketVars, Auth!ends, Auth!pieces, Auth!request, Auth!SockKeeps, Auth!Idle,
    Auth!StartsRequest, Auth!AuthInv, Auth!AuthTypeOK, Auth!SocketTypeOK, Auth!OneSocket,
    Auth!RequestFitsState
-----------------------------------------------------------------------------
(* The requests to the cloud.                                             *)

USE SocketAssumption DEF Cloud!socketVars, Cloud!ends, Cloud!pieces, Cloud!session, Cloud!result,
   Cloud!CloudInv, Cloud!CloudTypeOK, Cloud!SocketTypeOK, Cloud!HoldsWhatItTook, Cloud!NothingIsHeld, Cloud!NoneIsConnected,
   Cloud!OneIsConnected, Cloud!KnowsWhatItRead, Cloud!CodeTellsTheTruth, Cloud!TellsTheTruth

\* Before the first request nothing is held.
LEMMA CloudBegins ==
  ASSUME Cloud!Init PROVE Cloud!CloudInv
<1>1. Cloud!CloudTypeOK
  <2>1. s3 \in BOOLEAN /\ s10 \in BOOLEAN /\ s13 \in BOOLEAN /\ s14 \in BOOLEAN /\ s16 \in BOOLEAN
    BY DEF Cloud!Init, Cloud!SocketInit
  <2>2. QED BY <2>1 DEF Cloud!Init, Cloud!SocketInit
<1>2. Cloud!HoldsWhatItTook
  BY DEF Cloud!Init, Cloud!SocketInit
<1>3. Cloud!KnowsWhatItRead /\ Cloud!CodeTellsTheTruth
  BY DEF Cloud!Init, Cloud!SocketInit
<1>4. QED BY <1>1, <1>2, <1>3

\* A call takes nothing before it made its session.
LEMMA CloudCalled ==
  ASSUME NEW k, NEW w \in BOOLEAN, Cloud!CloudInv, Cloud!Called(k, w) PROVE Cloud!CloudInv'
BY DEF Cloud!Called

\* Nor does a call that looks at its text first.
LEMMA CloudCalledWithText ==
  ASSUME NEW k, k # "license", NEW empty \in BOOLEAN, Cloud!CloudInv, Cloud!CalledWithText(k, empty)
  PROVE  Cloud!CloudInv'
BY CloudCalled DEF Cloud!CalledWithText

\* The session, the memory of its packet and the list of the addresses are taken
\* one after the other.
LEMMA CloudSessionBegins ==
  ASSUME NEW k, NEW p \in BOOLEAN, Cloud!CloudInv, Cloud!SessionBegins(k, p) PROVE Cloud!CloudInv'
BY DEF Cloud!SessionBegins, Cloud!Fails, Cloud!ServerInfo, Cloud!Url, Cloud!FindAddresses

\* One address after the other is tried, with one socket.
LEMMA CloudConnects ==
  ASSUME Cloud!CloudInv, Cloud!NextAddress \/ Cloud!Connected \/ Cloud!NotConnected PROVE Cloud!CloudInv'
<1>1. CASE Cloud!NextAddress
  BY <1>1 DEF Cloud!NextAddress, Cloud!AddressFails
<1>2. CASE Cloud!Connected
  BY <1>2 DEF Cloud!Connected, Cloud!AddressAnswers, Cloud!Fresh
<1>3. CASE Cloud!NotConnected
  BY <1>3 DEF Cloud!NotConnected, Cloud!Fails, Cloud!NoAddressLeft
<1>4. QED BY <1>1, <1>2, <1>3

\* The packet is made in the memory of the session.
LEMMA CloudMakes ==
  ASSUME NEW k, Cloud!CloudInv, Cloud!Makes(k) PROVE Cloud!CloudInv'
BY DEF Cloud!Makes, Cloud!Moves

\* What is sent and read leaves what is held alone.
LEMMA CloudMoves ==
  ASSUME Cloud!CloudInv, Cloud!MovesOn \/ Cloud!Written \/ Cloud!Read PROVE Cloud!CloudInv'
<1>1. CASE Cloud!MovesOn
  BY <1>1 DEF Cloud!MovesOn, Cloud!APiece
<1>2. CASE Cloud!Written
  <2>1. CASE s6 > 0
    BY <1>2, <2>1 DEF Cloud!Written, Cloud!Fails
  <2>2. CASE ~(s6 > 0)
    BY <1>2, <2>2 DEF Cloud!Written, Cloud!Moves
  <2>3. QED BY <2>1, <2>2
<1>3. CASE Cloud!Read
  BY <1>3 DEF Cloud!Read, Cloud!Fails
<1>4. QED BY <1>1, <1>2, <1>3

\* The end of the session gives everything back.
LEMMA CloudSessionEnds ==
  ASSUME NEW k, Cloud!CloudInv, Cloud!SessionEnds(k) PROVE Cloud!CloudInv'
<1>1. CASE ~s10
  BY <1>1 DEF Cloud!SessionEnds
<1>2. CASE s10 /\ s2 = INVALID_SOCK
  <2>1. s10' \in BOOLEAN /\ s13' \in BOOLEAN /\ ~s10'
    BY <1>2 DEF Cloud!SessionEnds
  <2>2. QED BY <1>2, <2>1 DEF Cloud!SessionEnds
<1>3. CASE s10 /\ s2 # INVALID_SOCK
  <2>1. s10' \in BOOLEAN /\ s13' \in BOOLEAN /\ ~s10'
    BY <1>3 DEF Cloud!SessionEnds
  <2>2. s1' = {} /\ s3' \in BOOLEAN /\ ~s3'
    BY <1>3 DEF Cloud!SessionEnds, Cloud!Close
  <2>3. QED BY <1>3, <2>1, <2>2 DEF Cloud!SessionEnds
<1>4. QED BY <1>1, <1>2, <1>3

\* What an answer with these good fields copies to the caller, and what the
\* caller may conclude from it.
Copied(fields, outputs, good) == {fields[i] : i \in Cloud!Passed(fields, good)} \cap outputs
\* What the caller may conclude from its code about the fields it has.
CopiesRightly(k, w, fields, outputs) ==
  \A good : IF Cloud!Passed(fields, good) = 1 .. Len(fields)
              THEN /\ k \in {"push", "device_info"} \/ Copied(fields, outputs, good) # {}
                   /\ k = "license" /\ w => Copied(fields, outputs, good) = Cloud!LicenseParts
              ELSE /\ k # "license" => Copied(fields, outputs, good) = {}
                   /\ ~(Cloud!LicenseParts \subseteq Copied(fields, outputs, good))

\* The code an answer leads to is true of the fields that were copied.
LEMMA CloudDecodes ==
  ASSUME NEW k, NEW fields, NEW outputs, CopiesRightly(k, s16, fields, outputs),
         Cloud!CloudInv, Cloud!Decodes(k, fields, outputs) PROVE Cloud!CloudInv'
<1>1. PICK status \in {200, 206, 404}, tree \in BOOLEAN, good \in SUBSET {fields[i] : i \in 1 .. Len(fields)} :
          /\ s15' = [status |-> status, tree |-> tree, good |-> good]
          /\ IF Cloud!HttpErrorCode(status) # 200
               THEN s17' = "NETWORK_POOR" /\ UNCHANGED <<s12, s18>>
             ELSE IF Cloud!HttpBody = "NULL"
               THEN UNCHANGED <<s17, s12, s18>>
             ELSE IF Cloud!HttpBody = "cut" \/ ~tree
               THEN s17' = "NETWORK_POOR" /\ UNCHANGED <<s12, s18>>
             ELSE s12' = s12 + 1 /\ Cloud!DecodeChecks(fields, outputs, good)
  BY DEF Cloud!Decodes
<1>2. s8 = "decode" /\ s8' = "end" /\ s9 = k
      /\ UNCHANGED <<s1, s2, s3, s4, s5, s6, s7, s9, s10, s11, s13, s14, s16>>
  BY DEF Cloud!Decodes
<1>3. s7 \in {1, 2, 3} /\ s14 /\ s17 = "OK" /\ s18 = {}
  BY <1>2
<1>4. CASE Cloud!HttpErrorCode(status) # 200
  BY <1>1, <1>2, <1>3, <1>4 DEF Cloud!LicenseParts
<1>5. CASE Cloud!HttpErrorCode(status) = 200 /\ Cloud!HttpBody = "NULL"
  <2>1. s7 = 1 /\ status = 200
    BY <1>3, <1>5 DEF Cloud!HttpErrorCode, Cloud!HttpBody
  <2>2. QED BY <1>1, <1>2, <1>3, <1>5, <2>1 DEF Cloud!LicenseParts
<1>6. CASE Cloud!HttpErrorCode(status) = 200 /\ Cloud!HttpBody # "NULL" /\ (Cloud!HttpBody = "cut" \/ ~tree)
  BY <1>1, <1>2, <1>3, <1>6 DEF Cloud!LicenseParts
<1>7. CASE Cloud!HttpErrorCode(status) = 200 /\ Cloud!HttpBody # "NULL" /\ ~(Cloud!HttpBody = "cut" \/ ~tree)
  <2>1. s7 = 3 /\ status = 200 /\ tree
    BY <1>3, <1>7 DEF Cloud!HttpErrorCode, Cloud!HttpBody
  <2>2. s12' = s12 + 1 /\ Cloud!DecodeChecks(fields, outputs, good)
    BY <1>1, <1>7
  <2>3. /\ s18' = Copied(fields, outputs, good)
        /\ s17' = IF Cloud!Passed(fields, good) = 1 .. Len(fields) THEN "OK" ELSE "SERVER_ERROR"
    BY <2>2 DEF Cloud!DecodeChecks, Copied
  <2>4. s15'.status = 200 /\ s15'.tree /\ s15'.good = good
    BY <1>1, <2>1
  <2>5. s12' = 1 /\ Cloud!HoldsWhatItTook'
    BY <1>2, <2>2
  <2>6. Cloud!TellsTheTruth'
    <3>1. s18' \subseteq good
      BY <2>3 DEF Copied, Cloud!Passed
    <3>2. CASE Cloud!Passed(fields, good) = 1 .. Len(fields)
      <4>1. s17' = "OK" /\ (k \in {"push", "device_info"} \/ s18' # {})
            /\ (k = "license" /\ s16 => s18' = Cloud!LicenseParts)
        BY <2>3, <3>2 DEF CopiesRightly
      <4>2. QED BY <1>2, <1>3, <2>1, <2>4, <3>1, <4>1
    <3>3. CASE Cloud!Passed(fields, good) # 1 .. Len(fields)
      <4>1. s17' = "SERVER_ERROR" /\ (k # "license" => s18' = {}) /\ ~(Cloud!LicenseParts \subseteq s18')
        BY <2>3, <3>3 DEF CopiesRightly
      <4>2. QED BY <1>2, <1>3, <2>1, <4>1
    <3>4. QED BY <3>2, <3>3
  <2>7. Cloud!CloudTypeOK'
    BY <1>2, <2>3, <2>5
  <2>8. QED BY <1>2, <2>5, <2>6, <2>7
<1>8. QED BY <1>1, <1>4, <1>5, <1>6, <1>7

\* The requests without an output have nothing to copy.
LEMMA CopiesNothing ==
  ASSUME NEW k \in {"push", "device_info"}, NEW w
  PROVE  CopiesRightly(k, w, <<"statusCode">>, {})
BY DEF CopiesRightly, Copied, Cloud!LicenseParts

\* A request with one output has it when the fields before it were good.
LEMMA CopiesTheLast ==
  ASSUME NEW w
  PROVE  /\ CopiesRightly("nlp", w, <<"responseHead", "statusCode", "body">>, {"body"})
         /\ CopiesRightly("tts", w, <<"statusCode", "content", "ttsLink">>, {"ttsLink"})
         /\ CopiesRightly("time", w, <<"statusCode", "content", "currentTimeMillis">>, {"currentTimeMillis"})
         /\ CopiesRightly("translate", w, <<"statusCode", "content", "translateText">>, {"translateText"})
         /\ CopiesRightly("servers", w, <<"statusCode", "content", "data", "items">>, {"items"})
         /\ CopiesRightly("offline", w, <<"statusCode", "body">>, {"body"})
<1>1. CopiesRightly("nlp", w, <<"responseHead", "statusCode", "body">>, {"body"})
  BY DEF CopiesRightly, Copied, Cloud!Passed, Cloud!LicenseParts
<1>2. CopiesRightly("tts", w, <<"statusCode", "content", "ttsLink">>, {"ttsLink"})
  BY DEF CopiesRightly, Copied, Cloud!Passed, Cloud!LicenseParts
<1>3. CopiesRightly("time", w, <<"statusCode", "content", "currentTimeMillis">>, {"currentTimeMillis"})
  BY DEF CopiesRightly, Copied, Cloud!Passed, Cloud!LicenseParts
<1>4. CopiesRightly("translate", w, <<"statusCode", "content", "translateText">>, {"translateText"})
  BY DEF CopiesRightly, Copied, Cloud!Passed, Cloud!LicenseParts
<1>5. CopiesRightly("servers", w, <<"statusCode", "content", "data", "items">>, {"items"})
  BY DEF CopiesRightly, Copied, Cloud!Passed, Cloud!LicenseParts
<1>6. CopiesRightly("offline", w, <<"statusCode", "body">>, {"body"})
  BY DEF CopiesRightly, Copied, Cloud!Passed, Cloud!LicenseParts
<1>7. QED BY <1>1, <1>2, <1>3, <1>4, <1>5, <1>6

\* The license has four parts when it is a new one, and only then.
LEMMA CopiesTheLicense ==
  /\ CopiesRightly("license", FALSE, <<"statusCode", "content", "sn">>, Cloud!LicenseParts)
  /\ CopiesRightly("license", TRUE,
        <<"statusCode", "content", "sn", "deviceType", "deviceId", "deviceLicense">>, Cloud!LicenseParts)
<1>1. ASSUME NEW good
      PROVE  LET f == <<"statusCode", "content", "sn">>
                 out == Copied(f, Cloud!LicenseParts, good)
             IN /\ Cloud!Passed(f, good) = 1 .. 3 => out # {}
                /\ ~(Cloud!LicenseParts \subseteq out)
  BY DEF Copied, Cloud!Passed, Cloud!LicenseParts
<1>2. ASSUME NEW good
      PROVE  LET f == <<"statusCode", "content", "sn", "deviceType", "deviceId", "deviceLicense">>
                 out == Copied(f, Cloud!LicenseParts, good)
             IN IF Cloud!Passed(f, good) = 1 .. 6
                  THEN out = Cloud!LicenseParts ELSE ~(Cloud!LicenseParts \subseteq out)
  BY DEF Copied, Cloud!Passed, Cloud!LicenseParts
<1>3. QED BY <1>1, <1>2 DEF CopiesRightly, Cloud!LicenseParts

\* The fields of a license are those of an answer and those of a license.
LEMMA JoinedTriples ==
  ASSUME NEW a, NEW b, NEW c, NEW d, NEW e, NEW f
  PROVE  <<a, b, c>> \o <<d, e, f>> = <<a, b, c, d, e, f>>
<1>0. PICK S : a \in S /\ b \in S /\ c \in S /\ d \in S /\ e \in S /\ f \in S
  <2> WITNESS {a, b, c, d, e, f}
  <2> QED OBVIOUS
<1> DEFINE j == <<a, b, c>> \o <<d, e, f>>
<1>1. <<a, b, c>> \in Seq(S) /\ <<d, e, f>> \in Seq(S) /\ <<a, b, c, d, e, f>> \in Seq(S)
  BY <1>0
<1>2. j \in Seq(S) /\ Len(j) = 6
  BY <1>1
<1>3. \A i \in 1 .. 3 : j[i] = <<a, b, c>>[i]
  BY <1>1
<1>4. \A i \in 4 .. 6 : j[i] = <<d, e, f>>[i - 3]
  BY <1>1
<1>5. \A i \in 1 .. 6 : j[i] = <<a, b, c, d, e, f>>[i]
  BY <1>3, <1>4
<1>6. QED BY <1>1, <1>2, <1>5, SeqEqual

\* Every step of a request holds what it took.
LEMMA CloudStep ==
  ASSUME Cloud!CloudInv, Cloud!Next PROVE Cloud!CloudInv'
<1>1. CASE Cloud!Call
  BY <1>1, CloudCalled, CloudCalledWithText DEF Cloud!Call, Cloud!DclGetNlpResult, Cloud!DclGetTtsUrl,
     Cloud!DclGetDeviceLicense, Cloud!DclUpdateTime, Cloud!DclUpdateDeviceInfo, Cloud!DclGetTranslateText,
     Cloud!DclMpushPushMsg, Cloud!DclMpushGetServerList, Cloud!DclMpushGetOfflineMsg
<1>2. CASE Cloud!Begin
  BY <1>2, CloudSessionBegins DEF Cloud!Begin, Cloud!NlpSessionBegin, Cloud!TtsSessionBegin,
     Cloud!LicenseSessionBegin, Cloud!TimeSessionBegin, Cloud!DevInfoSessionBegin, Cloud!TranslateSessionBegin,
     Cloud!PushMsgSessionBegin, Cloud!ServerListSessionBegin, Cloud!OfflineMsgSessionBegin
<1>3. CASE Cloud!NextAddress \/ Cloud!Connected \/ Cloud!NotConnected
  BY <1>3, CloudConnects
<1>4. CASE Cloud!MakePacket
  BY <1>4, CloudMakes DEF Cloud!MakePacket, Cloud!NlpMakePacket, Cloud!TtsMakePacket,
     Cloud!LicenseMakePacket, Cloud!TimeMakePacket, Cloud!DevInfoMakePacket, Cloud!TranslateMakePacket,
     Cloud!PushMsgMakePacket, Cloud!ServerListMakePacket, Cloud!OfflineMsgMakePacket
<1>5. CASE Cloud!MovesOn \/ Cloud!Written \/ Cloud!Read
  BY <1>5, CloudMoves
<1>6. CASE Cloud!Decode
  <2>1. CASE Cloud!NlpDecodePacket
    <3>1. CopiesRightly("nlp", s16, <<"responseHead", "statusCode", "body">>, {"body"})
      BY CopiesTheLast
    <3>2. QED BY <2>1, <3>1, CloudDecodes DEF Cloud!NlpDecodePacket
  <2>2. CASE Cloud!TtsDecodePacket
    <3>1. CopiesRightly("tts", s16, <<"statusCode", "content", "ttsLink">>, {"ttsLink"})
      BY CopiesTheLast
    <3>2. QED BY <2>2, <3>1, CloudDecodes DEF Cloud!TtsDecodePacket
  <2>3. CASE Cloud!LicenseDecodePacket
    <3> DEFINE f == <<"statusCode", "content", "sn">>
                      \o (IF s16 THEN <<"deviceType", "deviceId", "deviceLicense">> ELSE <<>>)
    <3>1. CopiesRightly("license", s16, f, Cloud!LicenseParts)
      <4>1. CASE s16 = TRUE
        <5>1. <<"statusCode", "content", "sn">> \o <<"deviceType", "deviceId", "deviceLicense">>
                = <<"statusCode", "content", "sn", "deviceType", "deviceId", "deviceLicense">>
          <6> HIDE DEF f
          <6>1. QED BY JoinedTriples
        <5>2. f = <<"statusCode", "content", "sn", "deviceType", "deviceId", "deviceLicense">>
          BY <4>1, <5>1
        <5>3. QED BY <4>1, <5>2, CopiesTheLicense
      <4>2. CASE s16 = FALSE
        <5>1. f = <<"statusCode", "content", "sn">>
          BY <4>2
        <5>2. QED BY <4>2, <5>1, CopiesTheLicense
      <4>3. QED BY <4>1, <4>2
    <3>2. QED BY <2>3, <3>1, CloudDecodes DEF Cloud!LicenseDecodePacket
  <2>4. CASE Cloud!TimeDecodePacket
    <3>1. CopiesRightly("time", s16, <<"statusCode", "content", "currentTimeMillis">>, {"currentTimeMillis"})
      BY CopiesTheLast
    <3>2. QED BY <2>4, <3>1, CloudDecodes DEF Cloud!TimeDecodePacket
  <2>5. CASE Cloud!DevInfoDecodePacket \/ Cloud!PushMsgDecodePacket
    BY <2>5, CloudDecodes, CopiesNothing DEF Cloud!DevInfoDecodePacket, Cloud!PushMsgDecodePacket
  <2>6. CASE Cloud!TranslateDecodePacket
    <3>1. CopiesRightly("translate", s16, <<"statusCode", "content", "translateText">>, {"translateText"})
      BY CopiesTheLast
    <3>2. QED BY <2>6, <3>1, CloudDecodes DEF Cloud!TranslateDecodePacket
  <2>7. CASE Cloud!ServerListDecodePacket
    <3>1. CopiesRightly("servers", s16, <<"statusCode", "content", "data", "items">>, {"items"})
      BY CopiesTheLast
    <3>2. QED BY <2>7, <3>1, CloudDecodes DEF Cloud!ServerListDecodePacket
  <2>8. CASE Cloud!OfflineMsgDecodePacket
    <3>1. CopiesRightly("offline", s16, <<"statusCode", "body">>, {"body"})
      BY CopiesTheLast
    <3>2. QED BY <2>8, <3>1, CloudDecodes DEF Cloud!OfflineMsgDecodePacket
  <2>9. QED BY <1>6, <2>1, <2>2, <2>3, <2>4, <2>5, <2>6, <2>7, <2>8 DEF Cloud!Decode
<1>7. CASE Cloud!End
  BY <1>7, CloudSessionEnds DEF Cloud!End, Cloud!NlpSessionEnd, Cloud!TtsSessionEnd,
     Cloud!LicenseSessionEnd, Cloud!TimeSessionEnd, Cloud!DevInfoSessionEnd, Cloud!TranslateSessionEnd,
     Cloud!PushMsgSessionEnd, Cloud!ServerListSessionEnd, Cloud!OfflineMsgSessionEnd
<1>8. QED BY <1>1, <1>2, <1>3, <1>4, <1>5, <1>6, <1>7 DEF Cloud!Next, Cloud!Progress

\* Whoever holds what it took, and ended, holds nothing.
LEMMA CloudKeepsPromise ==
  ASSUME Cloud!CloudInv
  PROVE  Cloud!SessionIsReleased /\ Cloud!CodeTellsTheTruth /\ Cloud!CloudTypeOK
BY DEF Cloud!SessionIsReleased

\* Nothing changes when nothing happens.
LEMMA CloudStays ==
  ASSUME Cloud!CloudInv, UNCHANGED <<s1, s2, s3, s4, s5, s6, s7, s8, s9>>,
         UNCHANGED <<s10, s11, s12, s13, s14, s15, s16, s17, s18>>
  PROVE  Cloud!CloudInv'
OBVIOUS

HIDE SocketAssumption
HIDE DEF Cloud!socketVars, Cloud!ends, Cloud!pieces, Cloud!session, Cloud!result, Cloud!CloudInv,
    Cloud!CloudTypeOK, Cloud!SocketTypeOK, Cloud!HoldsWhatItTook, Cloud!NothingIsHeld,
    Cloud!NoneIsConnected, Cloud!OneIsConnected, Cloud!KnowsWhatItRead, Cloud!CodeTellsTheTruth,
    Cloud!TellsTheTruth
-----------------------------------------------------------------------------
(* The spoken question.                                                   *)

USE SocketAssumption, SpeechAssumption
    DEF Speech!socketVars, Speech!ends, Speech!pieces, Speech!sending, Speech!receiving,
        Speech!AsrInv, Speech!AsrTypeOK, Speech!SocketTypeOK, Speech!OneConnection, Speech!TextHasItsTree,
        Speech!CountsPackets, Speech!InFlight, Speech!HeardBefore, Speech!SpeechIsHeardInOrder, Speech!Abs

\* Before the first question nothing is open.
LEMMA SpeechBegins ==
  ASSUME Speech!Init PROVE Speech!AsrInv
<1>1. s3 \in BOOLEAN /\ s10 \in BOOLEAN /\ s11 \in BOOLEAN /\ s15 \in BOOLEAN /\ s19 \in BOOLEAN
  BY DEF Speech!Init, Speech!SocketInit
<1>2. QED BY <1>1 DEF Speech!Init, Speech!SocketInit

\* The session opens one connection and closes the one it has.
LEMMA SpeechSessionStep ==
  ASSUME Speech!AsrInv,
         Speech!SessionBegin \/ Speech!NextAddress \/ Speech!BeginConnected
           \/ Speech!BeginFails \/ Speech!SetParam \/ Speech!SessionEnd
  PROVE  Speech!AsrInv'
<1>1. CASE Speech!SessionBegin
  <2>1. s11' \in BOOLEAN /\ ~s11' /\ s15' \in BOOLEAN /\ s19' \in BOOLEAN /\ ~s19'
    BY <1>1 DEF Speech!SessionBegin
  <2>2. QED BY <1>1, <2>1 DEF Speech!SessionBegin, Speech!FindAddresses
<1>2. CASE Speech!NextAddress
  BY <1>2 DEF Speech!NextAddress, Speech!AddressFails
<1>3. CASE Speech!BeginConnected
  BY <1>3 DEF Speech!BeginConnected, Speech!AddressAnswers, Speech!Fresh
<1>4. CASE Speech!BeginFails
  BY <1>4 DEF Speech!BeginFails
<1>5. CASE Speech!SetParam
  BY <1>5 DEF Speech!SetParam
<1>6. CASE Speech!SessionEnd
  <2>1. s10' \in BOOLEAN /\ ~s10'
    BY <1>6 DEF Speech!SessionEnd
  <2>2. s1' = {} /\ s2' = INVALID_SOCK /\ s3' \in BOOLEAN /\ ~s3'
    BY <1>6 DEF Speech!SessionEnd, Speech!Close
  <2>3. QED BY <1>6, <2>1, <2>2 DEF Speech!SessionEnd
<1>7. QED BY <1>1, <1>2, <1>3, <1>4, <1>5, <1>6

\* A packet is made in the memory of the session.
LEMMA SpeechWriteStep ==
  ASSUME Speech!AsrInv, Speech!AudioWrite \/ Speech!GetResult PROVE Speech!AsrInv'
<1>1. CASE Speech!AudioWrite
  <2>1. s11' \in BOOLEAN /\ s11' /\ s15' \in BOOLEAN
    BY <1>1 DEF Speech!AudioWrite, Speech!WritePacket
  <2>2. s12' \in 1 .. MaxPackets /\ (s11 => s12' = s12 + 1)
    BY <1>1 DEF Speech!AudioWrite, Speech!WritePacket, Speech!Numbered
  <2>3. \A i \in 1 .. Len(s20) : Speech!Abs(s20[i]) < Speech!Abs(s12')
    BY <1>1, <2>2 DEF Speech!AudioWrite
  <2>4. QED BY <1>1, <2>1, <2>2, <2>3 DEF Speech!AudioWrite, Speech!WritePacket, Speech!Moves
<1>2. CASE Speech!GetResult
  <2>1. s11' \in BOOLEAN /\ s11' /\ s15' \in BOOLEAN
    BY <1>2 DEF Speech!GetResult, Speech!WritePacket
  <2>2. s12' \in -(MaxPackets + 1) .. 1 /\ (s11 /\ s12 > 0 => s12' = -s12 - 1) /\ (s12 = 0 => s12' = 1)
        /\ (~s11 => s12' = 1)
    BY <1>2 DEF Speech!GetResult, Speech!WritePacket, Speech!Numbered
  <2>3. \A i \in 1 .. Len(s20) : Speech!Abs(s20[i]) < Speech!Abs(s12')
    BY <1>2, <2>2 DEF Speech!GetResult
  <2>4. QED BY <1>2, <2>1, <2>2, <2>3 DEF Speech!GetResult, Speech!WritePacket, Speech!Moves
<1>3. QED BY <1>1, <1>2

\* Packets are sent in the order of their numbers, also when they are sent
\* again.
LEMMA SpeechSendStep ==
  ASSUME Speech!AsrInv, Speech!SendsPiece \/ Speech!SendEnds \/ Speech!Reconnect
           \/ Speech!Reconnected \/ Speech!NotReconnected \/ Speech!ConnectionEnds
  PROVE  Speech!AsrInv'
<1>1. CASE Speech!SendsPiece
  BY <1>1 DEF Speech!SendsPiece, Speech!APiece
<1>2. CASE Speech!SendEnds
  <2>1. CASE s6 = 0
    <3>0. s12 \in Int /\ s20 \in Seq(Int)
      OBVIOUS
    <3>a. s20' = Append(s20, s12)
      BY <1>2, <2>1 DEF Speech!SendEnds
    <3>1. Len(s20') = Len(s20) + 1 /\ s20' \in Seq(Int)
      BY <3>0, <3>a
    <3>2. /\ \A i \in 1 .. Len(s20) : s20'[i] = s20[i]
          /\ s20'[Len(s20) + 1] = s12
      BY <3>0, <3>a
    <3>3. \A i \in 1 .. Len(s20) : Speech!Abs(s20[i]) < Speech!Abs(s12) /\ s20[i] > 0
      BY <1>2 DEF Speech!SendEnds
    <3>4. s13 # "result" => s12 > 0
      BY <1>2 DEF Speech!SendEnds
    <3>5. \A i, j \in 1 .. Len(s20') : i < j => Speech!Abs(s20'[i]) < Speech!Abs(s20'[j]) /\ s20'[i] > 0
      <4> SUFFICES ASSUME NEW i \in 1 .. Len(s20'), NEW j \in 1 .. Len(s20'), i < j
                   PROVE  Speech!Abs(s20'[i]) < Speech!Abs(s20'[j]) /\ s20'[i] > 0
        OBVIOUS
      <4>1. i \in 1 .. Len(s20) /\ s20'[i] = s20[i]
        BY <3>0, <3>1, <3>2, SMTT(30)
      <4>2. CASE j = Len(s20) + 1
        BY <3>2, <3>3, <4>1, <4>2
      <4>3. CASE j \in 1 .. Len(s20)
        BY <3>2, <3>3, <4>1, <4>3
      <4>4. QED BY <3>0, <3>1, <4>2, <4>3
    <3>6. \A i \in 1 .. Len(s20') : /\ Speech!Abs(s20'[i]) <= Speech!Abs(s12)
                                  /\ s13 # "result" => s20'[i] > 0
      <4> SUFFICES ASSUME NEW i \in 1 .. Len(s20')
                   PROVE  Speech!Abs(s20'[i]) <= Speech!Abs(s12) /\ (s13 # "result" => s20'[i] > 0)
        OBVIOUS
      <4>1. CASE i = Len(s20) + 1
        BY <3>0, <3>2, <3>4, <4>1
      <4>2. CASE i \in 1 .. Len(s20)
        <5>1. s20[i] \in Int
          BY <3>0, <4>2
        <5>2. QED BY <3>0, <3>2, <3>3, <4>2, <5>1
      <4>3. QED BY <3>0, <3>1, <4>1, <4>2
    <3>7. QED BY <1>2, <2>1, <3>1, <3>5, <3>6 DEF Speech!SendEnds, Speech!Afterwards
  <2>2. CASE s6 # 0
    BY <1>2, <2>2 DEF Speech!SendEnds, Speech!Afterwards
  <2>3. QED BY <2>1, <2>2
<1>3. CASE Speech!Reconnect
  <2>1. s1' = {} /\ s3' \in BOOLEAN /\ ~s3'
    BY <1>3 DEF Speech!Reconnect, Speech!Close
  <2>2. QED BY <1>3, <2>1 DEF Speech!Reconnect
<1>4. CASE Speech!Reconnected
  <2>1. s15' \in BOOLEAN
    BY <1>4 DEF Speech!Reconnected
  <2>2. QED BY <1>4, <2>1 DEF Speech!Reconnected, Speech!Fresh, Speech!Moves
<1>5. CASE Speech!NotReconnected
  BY <1>5 DEF Speech!NotReconnected, Speech!Afterwards
<1>6. CASE Speech!ConnectionEnds
  BY <1>6 DEF Speech!ConnectionEnds, Speech!PeerEnds
<1>7. QED BY <1>1, <1>2, <1>3, <1>4, <1>5, <1>6

\* What is received changes nothing of what was sent.
LEMMA SpeechReceiveStep ==
  ASSUME Speech!AsrInv, Speech!ReceiveRead \/ Speech!ReceiveGivesUp \/ Speech!DecodePacket
  PROVE  Speech!AsrInv'
<1>1. CASE Speech!ReceiveRead
  <2>1. s10' \in BOOLEAN
    BY <1>1 DEF Speech!ReceiveRead
  <2>2. QED BY <1>1, <2>1 DEF Speech!ReceiveRead
<1>2. CASE Speech!ReceiveGivesUp
  BY <1>2 DEF Speech!ReceiveGivesUp
<1>3. CASE Speech!DecodePacket
  <2>1. s19' \in BOOLEAN /\ (s19' => s19 \/ s10)
    BY <1>3 DEF Speech!DecodePacket
  <2>2. QED BY <1>3, <2>1 DEF Speech!DecodePacket
<1>4. QED BY <1>1, <1>2, <1>3

\* Every step of a question keeps one connection and the order of its packets.
LEMMA SpeechStep ==
  ASSUME Speech!AsrInv, Speech!Next PROVE Speech!AsrInv'
BY SpeechSessionStep, SpeechWriteStep, SpeechSendStep, SpeechReceiveStep DEF Speech!Next, Speech!Progress

\* What SessionHasOneConnection says of a question is a part of its invariant.
LEMMA SpeechKeepsPromise ==
  ASSUME Speech!AsrInv
  PROVE  Speech!SessionHasOneConnection /\ Speech!SpeechIsHeardInOrder /\ Speech!AsrTypeOK
BY DEF Speech!SessionHasOneConnection

\* Nothing changes when nothing happens.
LEMMA SpeechStays ==
  ASSUME Speech!AsrInv, UNCHANGED <<s1, s2, s3, s4, s5, s6, s7, s8, s9, s10>>,
         UNCHANGED <<s11, s12, s13, s14, s15, s16, s17, s18, s19, s20>>
  PROVE  Speech!AsrInv'
OBVIOUS

HIDE SpeechAssumption
HIDE SocketAssumption
HIDE DEF Speech!socketVars, Speech!ends, Speech!pieces, Speech!sending, Speech!receiving,
    Speech!AsrInv, Speech!AsrTypeOK, Speech!SocketTypeOK, Speech!OneConnection,
    Speech!TextHasItsTree, Speech!CountsPackets, Speech!InFlight, Speech!HeardBefore,
    Speech!SpeechIsHeardInOrder, Speech!Abs
-----------------------------------------------------------------------------
(* The firmware update.                                                   *)

\* The descriptors are counted the same way in OtaUpdate.
LEMMA OtaCounts ==
  ASSUME NEW S
  PROVE  Ota!Cardinality(S) = Cardinality(S) /\ (Ota!IsFiniteSet(S) <=> IsFiniteSet(S))
<1>1. Ota!Cardinality(S) = Cardinality(S)
  BY DEF Ota!Cardinality, Cardinality
<1>2. Ota!IsFiniteSet(S) <=> IsFiniteSet(S)
  BY DEF Ota!IsFiniteSet, IsFiniteSet
<1>3. QED BY <1>1, <1>2

\* One more descriptor is open.
LEMMA OtaOpens ==
  ASSUME NEW S, Ota!IsFiniteSet(S), NEW d, d \notin S
  PROVE  Ota!IsFiniteSet(S \cup {d}) /\ Ota!Cardinality(S \cup {d}) = Ota!Cardinality(S) + 1
         /\ Ota!Cardinality(S) \in Nat
<1>1. IsFiniteSet(S) /\ IsFiniteSet(S \cup {d}) /\ Cardinality(S \cup {d}) = Cardinality(S) + 1
  BY OtaCounts, FS_AddElement
<1>2. Cardinality(S) \in Nat
  BY <1>1, FS_CardinalityType
<1>3. QED BY <1>1, <1>2, OtaCounts

\* One less is open, or as many when it was not one of them.
LEMMA OtaCloses ==
  ASSUME NEW S, Ota!IsFiniteSet(S), NEW d
  PROVE  /\ Ota!IsFiniteSet(S \ {d}) /\ Ota!Cardinality(S) \in Nat
         /\ d \in S => Ota!Cardinality(S \ {d}) = Ota!Cardinality(S) - 1
         /\ d \notin S => S \ {d} = S
<1>1. IsFiniteSet(S) /\ IsFiniteSet(S \ {d})
      /\ Cardinality(S \ {d}) = IF d \in S THEN Cardinality(S) - 1 ELSE Cardinality(S)
  BY OtaCounts, FS_RemoveElement
<1>2. Cardinality(S) \in Nat
  BY <1>1, FS_CardinalityType
<1>3. QED BY <1>1, <1>2, OtaCounts

\* No descriptor is none.
LEMMA OtaNothingOpen == Ota!IsFiniteSet({}) /\ Ota!Cardinality({}) = 0
BY OtaCounts, FS_EmptySet

\* A page has bytes.
LEMMA OtaPageSize == PAGE_SIZE \in Nat /\ PAGE_SIZE > 0 /\ OTA_UPGRADE_AREA_SIZE \in Nat
BY OtaAssumption

\* The numbers of bytes that follow one another follow one another.
LEMMA OtaJoins ==
  ASSUME NEW a \in Nat, NEW m \in Nat, NEW n \in Nat
  PROVE  Ota!Bytes(a + 1, m) \o Ota!Bytes(a + m + 1, n) = Ota!Bytes(a + 1, m + n)
<1> DEFINE s == Ota!Bytes(a + 1, m)
           t == Ota!Bytes(a + m + 1, n)
           u == Ota!Bytes(a + 1, m + n)
<1>1. /\ s \in Seq(Nat) /\ t \in Seq(Nat) /\ u \in Seq(Nat)
      /\ Len(s) = m /\ Len(t) = n /\ Len(u) = m + n
      /\ \A i \in 1 .. m : s[i] = a + i
      /\ \A i \in 1 .. n : t[i] = a + m + i
      /\ \A i \in 1 .. m + n : u[i] = a + i
  BY DEF Ota!Bytes
<1> HIDE DEF s, t, u
<1>2. /\ s \o t \in Seq(Nat) /\ Len(s \o t) = m + n
      /\ \A i \in 1 .. m + n : (s \o t)[i] = IF i <= m THEN s[i] ELSE t[i - m]
  BY <1>1, ConcatProperties, ZenonT(30)
<1>3. ASSUME NEW i \in 1 .. m + n PROVE (s \o t)[i] = u[i]
  <2>1. CASE i <= m
    BY <1>1, <1>2, <2>1
  <2>2. CASE ~(i <= m)
    <3>1. i - m \in 1 .. n /\ u[i] = a + i /\ a + m + (i - m) = a + i
      BY <1>1, <2>2
    <3>2. t[i - m] = a + i
      BY <1>1, <3>1
    <3>3. (s \o t)[i] = t[i - m]
      BY <1>2, <2>2
    <3> QED BY <3>1, <3>2, <3>3
  <2> QED BY <2>1, <2>2
<1>4. s \o t = u
  BY <1>1, <1>2, <1>3, SeqEqual
<1> QED BY <1>4 DEF s, t, u

\* A piece of them is the numbers of its places.
LEMMA OtaCuts ==
  ASSUME NEW a \in Nat, NEW n \in Nat, NEW from \in 1 .. n + 1, NEW to \in 0 .. n, from <= to + 1
  PROVE  SubSeq(Ota!Bytes(a + 1, n), from, to) = Ota!Bytes(a + from, to - from + 1)
<1> DEFINE s == Ota!Bytes(a + 1, n)
           t == SubSeq(s, from, to)
           u == Ota!Bytes(a + from, to - from + 1)
<1>1. /\ s \in Seq(Nat) /\ Len(s) = n /\ \A i \in 1 .. n : s[i] = a + i
      /\ u \in Seq(Nat) /\ Len(u) = to - from + 1 /\ \A i \in 1 .. to - from + 1 : u[i] = a + from + i - 1
  BY DEF Ota!Bytes
<1> HIDE DEF s, u
<1>2. /\ t \in Seq(Nat) /\ Len(t) = to - from + 1
      /\ \A i \in 1 .. to - from + 1 : t[i] = s[from + i - 1]
  <2>1. \A i \in from .. to : s[i] \in Nat
    BY <1>1
  <2> QED BY <1>1, <2>1, SubSeqProperties
<1> HIDE DEF t
<1>3. \A i \in 1 .. to - from + 1 : t[i] = u[i]
  BY <1>1, <1>2
<1>4. t = u
  BY <1>1, <1>2, <1>3, SeqEqual
<1> QED BY <1>4 DEF s, t, u

\* What is left behind the first p of them.
LEMMA OtaRest ==
  ASSUME NEW a \in Nat, NEW n \in Nat, NEW p \in Nat, p <= n
  PROVE  SubSeq(Ota!Bytes(a + 1, n), p + 1, n) = Ota!Bytes(a + p + 1, n - p)
<1>1. p + 1 \in 1 .. n + 1 /\ n \in 0 .. n /\ p + 1 <= n + 1
  OBVIOUS
<1>2. SubSeq(Ota!Bytes(a + 1, n), p + 1, n) = Ota!Bytes(a + (p + 1), n - (p + 1) + 1)
  BY ONLY <1>1, OtaCuts, a \in Nat, n \in Nat
<1>3. a + (p + 1) = a + p + 1 /\ n - (p + 1) + 1 = n - p
  OBVIOUS
<1> QED BY <1>2, <1>3

\* Fewer pages have fewer bytes.
LEMMA OtaPages ==
  ASSUME NEW m \in Nat, NEW n \in Nat, m <= n
  PROVE  m * PAGE_SIZE <= n * PAGE_SIZE /\ n * PAGE_SIZE \in Nat /\ (m + 1) * PAGE_SIZE = m * PAGE_SIZE + PAGE_SIZE
<1> USE OtaPageSize
<1> DEFINE d == n - m
<1>1. d \in Nat /\ n = m + d
  OBVIOUS
<1> HIDE DEF d
<1>2. d * PAGE_SIZE \in Nat /\ m * PAGE_SIZE \in Nat /\ n * PAGE_SIZE = m * PAGE_SIZE + d * PAGE_SIZE
  BY <1>1
<1>3. (m + 1) * PAGE_SIZE = m * PAGE_SIZE + PAGE_SIZE
  OBVIOUS
<1> QED BY <1>2, <1>3

\* The bytes that come next go where they belong: into the cache, and when a
\* page is full, to the flash.
LEMMA OtaFills ==
  ASSUME Ota!Filled, s14 \in Nat, NEW n \in Nat, n < PAGE_SIZE, s10 \in Seq(Nat), Len(s10) < PAGE_SIZE,
         Ota!UpdateData(Ota!Bytes(s14 + 1, n)), s14' = s14 + n
  PROVE  Ota!Filled'
<1> USE OtaPageSize
<1> DEFINE k == Len(s12)
           c == Len(s10)
           data == Ota!Bytes(s14 + 1, n)
           all == s10 \o data
<1>0. k \in Nat /\ c \in Nat /\ s11 = k * PAGE_SIZE /\ (k + 1) * PAGE_SIZE = s11 + PAGE_SIZE /\ s11 \in Nat
  BY OtaPages DEF Ota!Filled
<1>1. k \in Nat /\ c \in Nat /\ s11 \in Nat
  BY <1>0
<1>2. s10 = Ota!Bytes(s11 + 1, c) /\ s11 + c <= s14 /\ (Ota!Area(s11) => s14 = s11 + c)
  BY DEF Ota!Filled
<1>3. s12 \in Seq(Seq(Nat)) /\ \A i \in 1 .. k : Ota!InPlace(s12[i], i) /\ Len(s12[i]) = PAGE_SIZE
  BY DEF Ota!Filled
<1>4. data \in Seq(Nat) /\ Len(data) = n
  BY DEF Ota!Bytes
<1>5. Ota!Area(s11) => all = Ota!Bytes(s11 + 1, c + n) /\ Len(all) = c + n /\ all \in Seq(Nat)
  BY <1>1, <1>2, <1>4, OtaJoins DEF Ota!Bytes
<1>6. CASE ~Ota!Area(s11)
  BY <1>0, <1>1, <1>2, <1>6 DEF Ota!UpdateData, Ota!Filled, Ota!InPlace, Ota!Area
<1>7. CASE Ota!Area(s11) /\ c + n < PAGE_SIZE
  <2>1. s10' = all /\ UNCHANGED <<s11, s12>>
    BY <1>4, <1>7 DEF Ota!UpdateData
  <2> HIDE DEF data, all
  <2>2. Len(s10') = c + n
    BY <1>5, <1>7, <2>1
  <2>3. s10' = Ota!Bytes(s11' + 1, Len(s10')) /\ s11' + Len(s10') = s14'
    BY <1>1, <1>2, <1>5, <1>7, <2>1, <2>2
  <2> QED BY <1>0, <1>1, <1>3, <2>1, <2>3 DEF Ota!Filled, Ota!InPlace, Ota!Area
<1>8. CASE Ota!Area(s11) /\ ~(c + n < PAGE_SIZE)
  <2>1. /\ s12' = Append(s12, SubSeq(all, 1, PAGE_SIZE))
        /\ s10' = SubSeq(all, PAGE_SIZE + 1, Len(all)) /\ s11' = s11 + PAGE_SIZE
    BY <1>4, <1>8 DEF Ota!UpdateData
  <2> HIDE DEF data, all
  <2>2. SubSeq(all, 1, PAGE_SIZE) = Ota!Bytes(s11 + 1, PAGE_SIZE)
    <3> DEFINE m == c + n
    <3>1. m \in Nat /\ PAGE_SIZE <= m /\ PAGE_SIZE \in Nat /\ s11 \in Nat
      BY <1>1, <1>8
    <3> HIDE DEF m
    <3>2. PAGE_SIZE \in 0 .. m /\ 1 \in 1 .. m + 1 /\ 1 <= PAGE_SIZE + 1 /\ PAGE_SIZE - 1 + 1 = PAGE_SIZE
      BY <3>1
    <3>3. SubSeq(Ota!Bytes(s11 + 1, m), 1, PAGE_SIZE) = Ota!Bytes(s11 + 1, PAGE_SIZE - 1 + 1)
      BY ONLY <3>1, <3>2, OtaCuts
    <3> QED BY <1>5, <1>8, <3>2, <3>3 DEF m
  <2>3. s10' = Ota!Bytes(s11 + PAGE_SIZE + 1, c + n - PAGE_SIZE)
    <3> DEFINE m == c + n
    <3>1. PAGE_SIZE <= m /\ m \in Nat /\ PAGE_SIZE \in Nat /\ s11 \in Nat
      BY <1>1, <1>8
    <3>2. s10' = SubSeq(Ota!Bytes(s11 + 1, m), PAGE_SIZE + 1, m)
      BY <1>5, <1>8, <2>1
    <3> HIDE DEF m
    <3>3. SubSeq(Ota!Bytes(s11 + 1, m), PAGE_SIZE + 1, m) = Ota!Bytes(s11 + PAGE_SIZE + 1, m - PAGE_SIZE)
      BY ONLY <3>1, OtaRest
    <3> QED BY <3>2, <3>3 DEF m
  <2>4. Ota!Bytes(s11 + 1, PAGE_SIZE) \in Seq(Nat) /\ Len(Ota!Bytes(s11 + 1, PAGE_SIZE)) = PAGE_SIZE
    BY <1>1 DEF Ota!Bytes
  <2>5. Len(s10') = c + n - PAGE_SIZE
    BY <1>1, <1>8, <2>3 DEF Ota!Bytes
  <2>6. s12' \in Seq(Seq(Nat)) /\ Len(s12') = k + 1 /\ s12'[k + 1] = Ota!Bytes(s11 + 1, PAGE_SIZE)
        /\ \A i \in 1 .. k : s12'[i] = s12[i]
    <3> DEFINE page == Ota!Bytes(s11 + 1, PAGE_SIZE)
    <3>1. s12' = Append(s12, page) /\ page \in Seq(Nat) /\ s12 \in Seq(Seq(Nat)) /\ k = Len(s12)
      BY <1>3, <2>1, <2>2, <2>4
    <3> HIDE DEF page, k
    <3>2. s12' \in Seq(Seq(Nat)) /\ Len(s12') = k + 1 /\ s12'[k + 1] = page
          /\ \A i \in 1 .. k : s12'[i] = s12[i]
      BY <1>1, <3>1, AppendProperties
    <3> QED BY <3>2 DEF page
  <2>7. \A i \in 1 .. k + 1 : Ota!InPlace(s12'[i], i) /\ Len(s12'[i]) = PAGE_SIZE
    <3>1. Ota!InPlace(s12'[k + 1], k + 1) /\ Len(s12'[k + 1]) = PAGE_SIZE
      BY <1>0, <2>4, <2>6 DEF Ota!InPlace
    <3>2. \A i \in 1 .. k : Ota!InPlace(s12'[i], i) /\ Len(s12'[i]) = PAGE_SIZE
      BY <1>3, <2>6
    <3> QED BY <1>1, <3>1, <3>2
  <2>8. s11' + Len(s10') = s14' /\ s11' + Len(s10') <= s14'
    <3>1. s14 = s11 + c /\ s11' = s11 + PAGE_SIZE
      BY <1>2, <1>8, <2>1
    <3> QED BY <1>1, <2>5, <3>1
  <2>9. s11' = Len(s12') * PAGE_SIZE /\ s10' = Ota!Bytes(s11' + 1, Len(s10'))
    BY <1>0, <2>1, <2>3, <2>5, <2>6
  <2>10. \A i \in 1 .. Len(s12') : s12'[i] = Ota!Bytes((i - 1) * PAGE_SIZE + 1, Len(s12'[i])) /\ Len(s12'[i]) = PAGE_SIZE
    BY <2>6, <2>7 DEF Ota!InPlace
  <2> QED BY <1>1, <2>1, <2>5, <2>6, <2>8, <2>9, <2>10 DEF Ota!Filled, Ota!InPlace
<1> QED BY <1>6, <1>7, <1>8

\* Nothing is on the pages and in the cache before the first bytes come.
LEMMA OtaFillsNothing ==
  <<>> \in Seq(Seq(Nat)) /\ Len(<<>>) = 0 /\ 0 * PAGE_SIZE = 0 /\ <<>> = Ota!Bytes(0 + 1, 0)
<1>1. Ota!Bytes(0 + 1, 0) \in Seq(Nat) /\ Len(Ota!Bytes(0 + 1, 0)) = 0
  BY DEF Ota!Bytes
<1> QED BY <1>1, EmptySeq, OtaPageSize

\* The pages of a partition that has no place for another one hold as many
\* bytes as the partition.
LEMMA OtaIsFull ==
  ASSUME NEW k \in Nat, ~Ota!Area(k * PAGE_SIZE)
  PROVE  OTA_UPGRADE_AREA_SIZE <= k * PAGE_SIZE
<1> USE OtaPageSize
<1>1. PICK pages \in Nat : OTA_UPGRADE_AREA_SIZE = pages * PAGE_SIZE
  BY OtaAssumption
<1>2. CASE pages <= k
  BY <1>1, <1>2, OtaPages
<1>3. CASE ~(pages <= k)
  <2>1. k + 1 \in Nat /\ k + 1 <= pages
    BY <1>3
  <2>2. (k + 1) * PAGE_SIZE <= pages * PAGE_SIZE /\ (k + 1) * PAGE_SIZE = k * PAGE_SIZE + PAGE_SIZE
    BY <2>1, OtaPages
  <2> QED BY <1>1, <2>2 DEF Ota!Area
<1> QED BY <1>2, <1>3

\* With the last page the image is whole.
LEMMA OtaEndsWhole ==
  ASSUME Ota!Filled, s10 \in Seq(Nat), Len(s10) < PAGE_SIZE, s13 = s14, s13 \in 1 .. OTA_UPGRADE_AREA_SIZE,
         s12' = (IF s10 # <<>> /\ Ota!Area(s11) THEN Append(s12, s10) ELSE s12), s13' = s13
  PROVE  Ota!PagesHold(s13)'
<1> USE OtaPageSize
<1> DEFINE k == Len(s12)
           c == Len(s10)
<1>1. k \in Nat /\ c \in Nat /\ s11 \in Nat /\ s12 \in Seq(Seq(Nat)) /\ s11 + c <= s13
      /\ (Ota!Area(s11) => s13 = s11 + c)
  <2>1. k \in Nat /\ s11 = k * PAGE_SIZE
    BY DEF Ota!Filled
  <2>2. s11 \in Nat
    BY <2>1, OtaPages
  <2> QED BY <2>1, <2>2 DEF Ota!Filled
<1>2. \A i \in 1 .. k : Ota!InPlace(s12[i], i) /\ Len(s12[i]) = PAGE_SIZE
  BY DEF Ota!Filled
<1>3. s11 = k * PAGE_SIZE /\ s10 = Ota!Bytes(s11 + 1, c)
  BY DEF Ota!Filled
<1>4. CASE s10 # <<>> /\ Ota!Area(s11)
  <2>1. s12' = Append(s12, s10) /\ s13 = s11 + c
    BY <1>1, <1>4
  <2> HIDE DEF k, c
  <2>2. Len(s12') = k + 1 /\ s12'[k + 1] = s10 /\ \A i \in 1 .. k : s12'[i] = s12[i]
    BY <1>1, <2>1, AppendProperties DEF k
  <2>3. Ota!InPlace(s12'[k + 1], k + 1) /\ Len(s12'[k + 1]) = c /\ s12' # <<>>
    <3>1. ((k + 1) - 1) * PAGE_SIZE = k * PAGE_SIZE
      BY <1>1
    <3>2. s10 = Ota!Bytes(((k + 1) - 1) * PAGE_SIZE + 1, Len(s10))
      BY <1>3, <3>1 DEF c
    <3>3. s12' # <<>>
      <4>1. Len(s12') # 0
        BY <1>1, <2>2
      <4> QED BY <4>1
    <3>4. Ota!InPlace(s10, k + 1)
      BY <3>2 DEF Ota!InPlace
    <3> QED BY <2>2, <3>3, <3>4 DEF c
  <2>4. s13 = (Len(s12') - 1) * PAGE_SIZE + Len(s12'[Len(s12')])
    <3>1. Len(s12') - 1 = k
      BY <1>1, <2>2
    <3> QED BY <1>3, <2>1, <2>2, <2>3, <3>1
  <2>5. \A i \in 1 .. k + 1 : Ota!InPlace(s12'[i], i) /\ (i # k + 1 => Len(s12'[i]) = PAGE_SIZE)
    <3>1. \A i \in 1 .. k : Ota!InPlace(s12'[i], i) /\ Len(s12'[i]) = PAGE_SIZE
      BY <1>2, <2>2
    <3>2. \A i \in 1 .. k + 1 : i \in 1 .. k \/ i = k + 1
      BY <1>1
    <3> QED BY <2>3, <3>1, <3>2
  <2>6. /\ \A i \in 1 .. Len(s12') : Ota!InPlace(s12'[i], i)
        /\ \A i \in 1 .. Len(s12') - 1 : Len(s12'[i]) = PAGE_SIZE
    <3>1. \A i \in 1 .. Len(s12') - 1 : i \in 1 .. k + 1 /\ i # k + 1
      BY <1>1, <2>2
    <3>2. \A i \in 1 .. Len(s12') : i \in 1 .. k + 1
      BY <2>2
    <3> QED BY <2>5, <3>1, <3>2
  <2> QED BY <2>3, <2>4, <2>6 DEF Ota!PagesHold, Ota!InPlace
<1>5. CASE ~(s10 # <<>> /\ Ota!Area(s11))
  <2>1. s12' = s12
    BY <1>5
  <2>2. s13 = s11
    <3>1. CASE Ota!Area(s11)
      BY <1>1, <1>5, <3>1
    <3>2. CASE ~Ota!Area(s11)
      <4>1. OTA_UPGRADE_AREA_SIZE <= s11
        BY <1>1, <1>3, <3>2, OtaIsFull
      <4> QED BY <1>1, <4>1
    <3> QED BY <3>1, <3>2
  <2>3. k # 0
    <3> SUFFICES ASSUME k = 0 PROVE FALSE
      OBVIOUS
    <3>1. s11 = 0
      BY <1>3
    <3> QED BY <2>2, <3>1
  <2> HIDE DEF c
  <2>4. s12 # <<>> /\ Len(s12[k]) = PAGE_SIZE
    BY <1>1, <1>2, <2>3
  <2>5. s13 = (k - 1) * PAGE_SIZE + PAGE_SIZE
    <3>1. k - 1 \in Nat /\ (k - 1) + 1 = k
      BY <1>1, <2>3
    <3>2. ((k - 1) + 1) * PAGE_SIZE = (k - 1) * PAGE_SIZE + PAGE_SIZE
      BY <3>1, OtaPages
    <3> QED BY <1>3, <2>2, <3>1, <3>2
  <2>6. \A i \in 1 .. k - 1 : Len(s12[i]) = PAGE_SIZE
    BY <1>1, <1>2
  <2>7. Ota!PagesHold(s13)
    BY <1>2, <2>4, <2>5, <2>6 DEF Ota!PagesHold
  <2> QED BY <2>1, <2>7 DEF Ota!PagesHold, Ota!InPlace
<1> QED BY <1>4, <1>5

USE SocketAssumption, OtaAssumption
    DEF Ota!socketVars, Ota!ends, Ota!pieces, Ota!image, Ota!OtaIsOrderly, Ota!OtaTypeOK, Ota!SocketTypeOK,
        Ota!HandleIsOpen, Ota!OnlyLostAreOpen, Ota!OtaSteps, Ota!ImageFits

\* Before the first update nothing is open and nothing is written.
LEMMA OtaBeginsOrderly ==
  ASSUME Ota!Init PROVE Ota!OtaIsOrderly
<1>1. s3 \in BOOLEAN /\ s9 \in BOOLEAN /\ s9
  BY DEF Ota!Init, Ota!SocketInit
<1>2. s10 \in Seq(Nat) /\ Len(s10) = 0
  BY DEF Ota!Init
<1>3. QED BY <1>1, <1>2, OtaNothingOpen DEF Ota!Init, Ota!SocketInit

\* The question for a new image opens a handle and gives it back.
LEMMA OtaCheckStep ==
  ASSUME Ota!OtaIsOrderly, Ota!WifiConnected \/ Ota!Connects \/ Ota!CheckFails \/ Ota!CheckNotWritten
           \/ Ota!CheckAnswers \/ Ota!CheckEnds
  PROVE  Ota!OtaIsOrderly'
<1>1. CASE Ota!WifiConnected
  <2>1. s3' \in BOOLEAN
    BY <1>1 DEF Ota!WifiConnected
  <2>2. QED BY <1>1, <2>1 DEF Ota!WifiConnected
<1>2. CASE Ota!Connects
  <2>1. s1' \subseteq Descriptors /\ s2' \in s1' /\ s2' \in Descriptors
        /\ Ota!IsFiniteSet(s1') /\ Ota!Cardinality(s1') = Ota!Cardinality(s1) + 1
    BY <1>2, OtaOpens DEF Ota!Connects, Ota!Fresh
  <2>2. /\ s10' \in Seq(Nat) /\ Len(s10') < PAGE_SIZE
        /\ s11' \in 0 .. OTA_UPGRADE_AREA_SIZE
    <3>1. <<>> \in Seq(Nat) /\ Len(<<>>) = 0
      OBVIOUS
    <3>2. s10' \in {s10, <<>>} /\ s11' \in {s11, 0}
      BY <1>2 DEF Ota!Connects
    <3>3. CASE s10' = s10
      BY <3>2, <3>3
    <3>4. CASE s10' = <<>>
      BY <3>1, <3>2, <3>4
    <3>5. QED BY <3>2, <3>3, <3>4
  <2>3. QED BY <1>2, <2>1, <2>2 DEF Ota!Connects
<1>3. CASE Ota!CheckFails
  BY <1>3 DEF Ota!CheckFails
<1>4. CASE Ota!CheckNotWritten \/ Ota!CheckAnswers
  <2>1. s1' = s1 \ {s2} /\ s3' \in BOOLEAN
    BY <1>4 DEF Ota!CheckNotWritten, Ota!CheckAnswers, Ota!Close
  <2>2. s8 = "asked" /\ s8' \in {"idle", "same", "newer"}
        /\ UNCHANGED <<s2, s4, s5, s6, s7, s9, s10, s11, s12, s13, s14, s15>>
    BY <1>4 DEF Ota!CheckNotWritten, Ota!CheckAnswers
  <2>3. Ota!IsFiniteSet(s1') /\ Ota!Cardinality(s1') = s15
    <3>1. s2 \in s1 /\ Ota!Cardinality(s1) = s15 + 1 /\ Ota!IsFiniteSet(s1)
      BY <2>2
    <3>2. Ota!IsFiniteSet(s1 \ {s2}) /\ Ota!Cardinality(s1 \ {s2}) = Ota!Cardinality(s1) - 1
      BY <3>1, OtaCloses
    <3>3. QED BY <2>1, <3>1, <3>2
  <2>4. QED BY <2>1, <2>2, <2>3
<1>5. CASE Ota!CheckEnds
  <2>1. s3' \in BOOLEAN
    BY <1>5 DEF Ota!CheckEnds
  <2>2. QED BY <1>5, <2>1 DEF Ota!CheckEnds
<1>6. QED BY <1>1, <1>2, <1>3, <1>4, <1>5

\* What closes the handle and what becomes of the open descriptors.
LEMMA OtaGone ==
  ASSUME Ota!OtaIsOrderly, NEW how \in {"failed", "success"}, Ota!Gone(how), UNCHANGED s15
  PROVE  /\ s8' = how /\ UNCHANGED <<s2, s4, s5, s6, s7>>
         /\ s1' \subseteq Descriptors /\ s3' \in BOOLEAN
         /\ s8 = "fetches" \/ Ota!HandleIsOpen => Ota!OnlyLostAreOpen'
<1>1. s1' = s1 \ {s2} /\ s3' \in BOOLEAN
  BY DEF Ota!Gone, Ota!Close
<1>2. Ota!IsFiniteSet(s1') /\ (s8 = "fetches" \/ Ota!HandleIsOpen => Ota!Cardinality(s1') = s15)
  <2>1. Ota!IsFiniteSet(s1)
    OBVIOUS
  <2>2. Ota!IsFiniteSet(s1 \ {s2})
    BY <2>1, OtaCloses
  <2>3. CASE s8 = "fetches"
    <3>1. s2 \notin s1 /\ Ota!Cardinality(s1) = s15
      BY <2>3
    <3>2. QED BY <1>1, <2>2, <2>3, <3>1
  <2>4. CASE Ota!HandleIsOpen
    <3>1. s2 \in s1 /\ Ota!Cardinality(s1) = s15 + 1
      BY <2>4
    <3>2. Ota!Cardinality(s1 \ {s2}) = Ota!Cardinality(s1) - 1
      BY <2>1, <3>1, OtaCloses
    <3>3. QED BY <1>1, <2>2, <3>1, <3>2
  <2>5. QED BY <1>1, <2>2, <2>3, <2>4
<1>3. QED BY <1>1, <1>2 DEF Ota!Gone

\* A page is written when it is full; what is left is less than a page.
LEMMA OtaUpdateData ==
  ASSUME Ota!OtaIsOrderly, NEW data \in Seq(Nat), Len(data) < PAGE_SIZE, Ota!UpdateData(data)
  PROVE  Ota!ImageFits'
<1>1. CASE ~Ota!Area(s11) \/ Len(s10) + Len(data) < PAGE_SIZE
  <2>1. (s10 \o data) \in Seq(Nat) /\ Len(s10 \o data) = Len(s10) + Len(data)
    OBVIOUS
  <2>2. s11' = s11 /\ (s10' = s10 \/ (s10' = s10 \o data /\ Len(s10) + Len(data) < PAGE_SIZE))
    BY <1>1 DEF Ota!UpdateData
  <2>3. QED BY <2>1, <2>2
<1>2. CASE Ota!Area(s11) /\ ~(Len(s10) + Len(data) < PAGE_SIZE)
  <2> DEFINE all == s10 \o data
  <2>1. all \in Seq(Nat) /\ Len(all) = Len(s10) + Len(data)
    OBVIOUS
  <2>2. s10' = SubSeq(all, PAGE_SIZE + 1, Len(all)) /\ s11' = s11 + PAGE_SIZE
    BY <1>2 DEF Ota!UpdateData
  <2> HIDE DEF all
  <2>3. s10' \in Seq(Nat) /\ Len(s10') < PAGE_SIZE
    <3>1. PAGE_SIZE + 1 \in 1 .. Len(all) + 1 /\ Len(all) \in Nat /\ Len(all) < 2 * PAGE_SIZE
      BY <1>2, <2>1, SMTT(30)
    <3>2. SubSeq(all, PAGE_SIZE + 1, Len(all)) \in Seq(Nat)
          /\ Len(SubSeq(all, PAGE_SIZE + 1, Len(all))) = Len(all) - PAGE_SIZE
      <4>1. \A i \in PAGE_SIZE + 1 .. Len(all) : all[i] \in Nat
        <5>1. \A i \in 1 .. Len(all) : all[i] \in Nat
          BY ONLY <2>1
        <5>2. PAGE_SIZE \in Nat /\ Len(all) \in Nat
          BY <3>1
        <5>3. QED BY ONLY <5>1, <5>2
      <4>2. PAGE_SIZE + 1 \in Int /\ Len(all) \in Int
        BY <3>1
      <4>3. QED BY ONLY OtaAssumption, <3>1, <4>1, <4>2, SubSeqProperties, SMTT(30)
    <3>3. QED BY <2>2, <3>1, <3>2
  <2>4. s11' \in 0 .. OTA_UPGRADE_AREA_SIZE
    BY <1>2, <2>2 DEF Ota!Area
  <2>5. QED BY <2>3, <2>4
<1>3. QED BY <1>1, <1>2

\* As many bytes as were asked for.
LEMMA OtaBytes ==
  ASSUME NEW first \in Nat, NEW n \in Nat
  PROVE  Ota!Bytes(first + 1, n) \in Seq(Nat) /\ Len(Ota!Bytes(first + 1, n)) = n
BY DEF Ota!Bytes

\* The image is asked for with a handle that was closed before it is opened
\* again.
LEMMA OtaFetchStep ==
  ASSUME Ota!OtaIsOrderly, Ota!Silences \/ Ota!UpdateFailed \/ Ota!Reset \/ Ota!FetchFails \/ Ota!HeaderRefused
           \/ Ota!PartitionRefused
  PROVE  Ota!OtaIsOrderly'
<1>1. CASE Ota!Silences
  <2>1. s3' \in BOOLEAN /\ s9' \in BOOLEAN
    BY <1>1 DEF Ota!Silences
  <2>2. QED BY <1>1, <2>1 DEF Ota!Silences
<1>2. CASE Ota!UpdateFailed
  <2>1. s9' \in BOOLEAN /\ s9'
    BY <1>2 DEF Ota!UpdateFailed
  <2>2. QED BY <1>2, <2>1 DEF Ota!UpdateFailed
<1>3. CASE Ota!Reset
  <2>1. s9' \in BOOLEAN /\ s9' /\ s3' \in BOOLEAN
    BY <1>3 DEF Ota!Reset
  <2>2. QED BY <1>3, <2>1, OtaNothingOpen DEF Ota!Reset
<1>4. CASE Ota!FetchFails
  BY <1>4, OtaGone DEF Ota!FetchFails
<1>5. CASE Ota!HeaderRefused
  <2>1. s13' \in -1 .. MaxImage
    BY <1>5 DEF Ota!HeaderRefused, Ota!Lengths
  <2>2. QED BY <1>5, <2>1, OtaGone DEF Ota!HeaderRefused
<1>6. CASE Ota!PartitionRefused
  <2>1. s13' \in -1 .. MaxImage
    BY <1>6 DEF Ota!PartitionRefused, Ota!Lengths
  <2>2. QED BY <1>6, <2>1 DEF Ota!PartitionRefused
<1>7. QED BY <1>1, <1>2, <1>3, <1>4, <1>5, <1>6

\* The image comes in parts that fit behind what is left of the last page.
LEMMA OtaBodyStep ==
  ASSUME Ota!OtaIsOrderly, Ota!Header \/ Ota!Body \/ Ota!WriteFails \/ Ota!NothingComes \/ Ota!DataEnd \/ Ota!DataEndFails
  PROVE  Ota!OtaIsOrderly'
<1>1. CASE Ota!Header
  <2>1. PICK n \in 2 .. Ota!BufferSize : Ota!UpdateData(Ota!Bytes(1, n)) /\ s14' = n
    BY <1>1 DEF Ota!Header
  <2>2. n \in Nat /\ n < PAGE_SIZE
    BY DEF Ota!BufferSize
  <2>3. Ota!ImageFits'
    <3>1. Ota!Bytes(1, n) \in Seq(Nat) /\ Len(Ota!Bytes(1, n)) = n
      BY <2>2 DEF Ota!Bytes
    <3>2. QED BY <2>1, <2>2, <3>1, OtaUpdateData
  <2>4. s13' \in -1 .. MaxImage
    BY <1>1 DEF Ota!Header, Ota!Lengths
  <2>5. QED BY <1>1, <2>1, <2>2, <2>3, <2>4 DEF Ota!Header
<1>2. CASE Ota!Body
  <2>1. PICK n \in 1 .. Ota!BufferSize :
           /\ s14 + n <= MaxImage
           /\ Ota!UpdateData(Ota!Bytes(s14 + 1, n)) /\ s14' = s14 + n
    BY <1>2 DEF Ota!Body
  <2>2. n \in Nat /\ n < PAGE_SIZE
    BY DEF Ota!BufferSize
  <2>3. Ota!ImageFits'
    <3>1. Ota!Bytes(s14 + 1, n) \in Seq(Nat) /\ Len(Ota!Bytes(s14 + 1, n)) = n
      BY <2>2, OtaBytes
    <3>2. QED BY <2>1, <2>2, <3>1, OtaUpdateData
  <2>4. QED BY <1>2, <2>1, <2>2, <2>3 DEF Ota!Body
<1>3. CASE Ota!WriteFails
  BY <1>3, OtaGone DEF Ota!WriteFails
<1>4. CASE Ota!NothingComes
  <2>1. CASE s13 = s14
    BY <1>4, <2>1 DEF Ota!NothingComes
  <2>2. CASE s13 # s14
    BY <1>4, <2>2, OtaGone DEF Ota!NothingComes
  <2>3. QED BY <2>1, <2>2
<1>5. CASE Ota!DataEnd
  BY <1>5, OtaGone DEF Ota!DataEnd
<1>6. CASE Ota!DataEndFails
  BY <1>6, OtaGone DEF Ota!DataEndFails
<1>7. QED BY <1>1, <1>2, <1>3, <1>4, <1>5, <1>6

\* The orderly part of the invariant is kept while another part runs.
LEMMA OtaStaysOrderly ==
  ASSUME Ota!OtaIsOrderly, Ota!Next PROVE Ota!OtaIsOrderly'
BY OtaCheckStep, OtaFetchStep, OtaBodyStep DEF Ota!Next

HIDE DEF Ota!OtaIsOrderly, Ota!OtaTypeOK, Ota!HandleIsOpen, Ota!OnlyLostAreOpen, Ota!OtaSteps, Ota!ImageFits

USE DEF Ota!UpdateIsWhole, Ota!ImageIsOnItsWay

\* No update runs, and nothing is open.
LEMMA OtaBegins ==
  ASSUME Ota!Init PROVE Ota!OtaInv
<1>1. Ota!ImageIsOnItsWay
  BY DEF Ota!Init
<1> QED BY <1>1, OtaBeginsOrderly DEF Ota!OtaInv

\* A step of an orderly update keeps the image on its way to the pages.
LEMMA OtaImageStep ==
  ASSUME Ota!OtaInv, Ota!Next PROVE Ota!ImageIsOnItsWay'
<1>1. /\ s14 \in Nat /\ s10 \in Seq(Nat) /\ Len(s10) < PAGE_SIZE
      /\ Ota!ImageIsOnItsWay
  BY DEF Ota!OtaInv, Ota!OtaIsOrderly, Ota!OtaTypeOK, Ota!ImageFits
<1>2. CASE Ota!WifiConnected \/ Ota!CheckFails \/ Ota!CheckNotWritten \/ Ota!CheckAnswers \/ Ota!CheckEnds
           \/ Ota!UpdateFailed \/ Ota!Reset \/ Ota!FetchFails \/ Ota!HeaderRefused
           \/ Ota!PartitionRefused \/ Ota!WriteFails \/ Ota!DataEndFails
  <2>1. s8' \in {"asks", "idle", "same", "newer", "silences", "failed"}
    BY <1>2 DEF Ota!WifiConnected, Ota!CheckFails, Ota!CheckNotWritten, Ota!CheckAnswers, Ota!CheckEnds,
       Ota!UpdateFailed, Ota!Reset, Ota!FetchFails, Ota!HeaderRefused, Ota!PartitionRefused, Ota!WriteFails,
       Ota!DataEndFails, Ota!Gone
  <2> QED BY <2>1
<1>3. CASE Ota!Silences
  BY <1>3 DEF Ota!Silences
<1>4. CASE Ota!Connects
  <2>1. CASE s8 = "asks"
    <3>1. s8' = "asked"
      BY <1>4, <2>1 DEF Ota!Connects
    <3> QED BY <3>1
  <2>2. CASE s8 = "fetches"
    <3>1. s8' = "header" /\ s10' = <<>> /\ s11' = 0 /\ s12' = <<>> /\ s14' = 0
      BY <1>1, <1>4, <2>2 DEF Ota!Connects, Ota!Erased
    <3>2. Ota!Filled'
      BY <3>1, OtaFillsNothing DEF Ota!Filled
    <3> QED BY <3>1, <3>2
  <2> QED BY <1>4, <2>1, <2>2 DEF Ota!Connects
<1>5. CASE Ota!Header
  <2>1. PICK n \in 2 .. Ota!BufferSize : Ota!UpdateData(Ota!Bytes(1, n)) /\ s14' = n
    BY <1>5 DEF Ota!Header
  <2>2. n \in Nat /\ n < PAGE_SIZE
    BY DEF Ota!BufferSize
  <2>3. Ota!Filled /\ s14 = 0 /\ s8' = "body"
    BY <1>1, <1>5 DEF Ota!Header
  <2>4. Ota!UpdateData(Ota!Bytes(s14 + 1, n)) /\ s14' = s14 + n
    BY <2>1, <2>3
  <2>5. Ota!Filled'
    BY <1>1, <2>2, <2>3, <2>4, OtaFills
  <2> QED BY <2>3, <2>5
<1>6. CASE Ota!Body
  <2>1. PICK n \in 1 .. Ota!BufferSize : Ota!UpdateData(Ota!Bytes(s14 + 1, n)) /\ s14' = s14 + n
    BY <1>6 DEF Ota!Body
  <2>2. n \in Nat /\ n < PAGE_SIZE
    BY DEF Ota!BufferSize
  <2>3. Ota!Filled /\ s8' = "body"
    BY <1>1, <1>6 DEF Ota!Body
  <2>4. Ota!Filled'
    BY <1>1, <2>1, <2>2, <2>3, OtaFills
  <2> QED BY <2>3, <2>4
<1>7. CASE Ota!NothingComes
  <2>1. UNCHANGED <<s10, s11, s12, s13, s14>> /\ s8 \in {"header", "body"}
        /\ (s8' = "failed" \/ (s8' = "written" /\ s13 = s14))
    BY <1>7 DEF Ota!NothingComes, Ota!Gone
  <2>2. Ota!Filled'
    <3>1. Ota!Filled
      BY <1>1, <2>1
    <3> QED BY <2>1, <3>1 DEF Ota!Filled, Ota!InPlace, Ota!Area
  <2> QED BY <2>1, <2>2
<1>8. CASE Ota!DataEnd
  <2>1. s8 = "written" /\ s8' = "success" /\ s13' = s13
        /\ s12' = IF s10 # <<>> /\ Ota!Area(s11) THEN Append(s12, s10) ELSE s12
    BY <1>8 DEF Ota!DataEnd, Ota!Gone
  <2>2. Ota!Filled /\ s13 = s14
    BY <1>1, <2>1
  <2>3. s13 \in 1 .. OTA_UPGRADE_AREA_SIZE => Ota!PagesHold(s13)'
    BY <1>1, <2>1, <2>2, OtaEndsWhole
  <2> QED BY <2>1, <2>3
<1> QED BY <1>2, <1>3, <1>4, <1>5, <1>6, <1>7, <1>8 DEF Ota!OtaInv, Ota!Next

\* Every step of an update counts the descriptors it loses.
LEMMA OtaStep ==
  ASSUME Ota!OtaInv, Ota!Next PROVE Ota!OtaInv'
BY OtaStaysOrderly, OtaImageStep DEF Ota!OtaInv

\* An update that ended has left nothing open but what a refusal loses.
LEMMA OtaKeepsPromise ==
  ASSUME Ota!OtaInv PROVE Ota!UpdateIsUndone /\ Ota!UpdateIsWhole /\ Ota!OtaTypeOK
<1>1. Ota!UpdateIsUndone
  BY DEF Ota!OtaInv, Ota!OtaIsOrderly, Ota!OtaTypeOK, Ota!OnlyLostAreOpen, Ota!HandleIsOpen, Ota!UpdateIsUndone
<1> QED BY <1>1 DEF Ota!OtaInv, Ota!OtaIsOrderly

\* Nothing changes when nothing happens.
LEMMA OtaStays ==
  ASSUME Ota!OtaInv, UNCHANGED <<s1, s2, s3, s4, s5, s6, s7, s8, s9, s10, s11, s12, s13, s14, s15>>
  PROVE  Ota!OtaInv'
<1>1. Ota!OtaIsOrderly'
  BY DEF Ota!OtaInv, Ota!OtaIsOrderly, Ota!OtaTypeOK, Ota!SocketTypeOK, Ota!OnlyLostAreOpen, Ota!HandleIsOpen,
     Ota!ImageFits
<1>2. Ota!ImageIsOnItsWay'
  BY DEF Ota!OtaInv, Ota!Filled, Ota!PagesHold, Ota!InPlace, Ota!Area
<1> QED BY <1>1, <1>2 DEF Ota!OtaInv

HIDE DEF Ota!UpdateIsWhole, Ota!ImageIsOnItsWay

HIDE OtaAssumption
HIDE SocketAssumption
HIDE DEF Ota!socketVars, Ota!ends, Ota!pieces, Ota!image, Ota!SocketTypeOK
-----------------------------------------------------------------------------
(* The pushed messages.                                                   *)

\* A byte: the message it is of, and its place there.
PushBytes == [m : Nat, k : Nat]

\* What is behind the first e elements of a sequence.
LEMMA PushBehind ==
  ASSUME NEW S, NEW s \in Seq(S), NEW e \in Nat, e <= Len(s)
  PROVE  /\ SubSeq(s, e + 1, Len(s)) \in Seq(S)
         /\ Len(SubSeq(s, e + 1, Len(s))) = Len(s) - e
         /\ \A i \in 1 .. Len(s) - e : SubSeq(s, e + 1, Len(s))[i] = s[i + e]
<1>1. Len(s) \in Nat /\ \A i \in e + 1 .. Len(s) : s[i] \in S
  BY ElementOfSeq, LenProperties
<1>2. e + 1 \in Int /\ Len(s) \in Int
  BY <1>1
<1> DEFINE l == Len(s)  b == e + 1
<1> HIDE DEF l, b
<1>3. /\ SubSeq(s, b, l) \in Seq(S)
      /\ Len(SubSeq(s, b, l)) = IF b <= l THEN l - b + 1 ELSE 0
      /\ \A i \in 1 .. l - b + 1 : SubSeq(s, b, l)[i] = s[b + i - 1]
  BY <1>1, <1>2, SubSeqProperties DEF l, b
<1>4. l \in Nat /\ e <= l /\ b = e + 1
  BY <1>1 DEF l, b
<1>5. (IF b <= l THEN l - b + 1 ELSE 0) = l - e /\ l - b + 1 = l - e
  BY ONLY <1>4, e \in Nat
<1>6. \A i \in 1 .. l - e : b + i - 1 = i + e
  BY ONLY <1>4, e \in Nat
<1> QED BY <1>3, <1>5, <1>6 DEF l, b

\* The first n elements of a sequence.
LEMMA PushFront ==
  ASSUME NEW S, NEW s \in Seq(S), NEW n \in Nat, n <= Len(s)
  PROVE  /\ SubSeq(s, 1, n) \in Seq(S) /\ Len(SubSeq(s, 1, n)) = n
         /\ \A i \in 1 .. n : SubSeq(s, 1, n)[i] = s[i]
<1>1. \A i \in 1 .. n : s[i] \in S
  BY ElementOfSeq, LenProperties
<1>2. /\ SubSeq(s, 1, n) \in Seq(S)
      /\ Len(SubSeq(s, 1, n)) = IF 1 <= n THEN n - 1 + 1 ELSE 0
      /\ \A i \in 1 .. n - 1 + 1 : SubSeq(s, 1, n)[i] = s[1 + i - 1]
  BY <1>1, SubSeqProperties
<1>3. (IF 1 <= n THEN n - 1 + 1 ELSE 0) = n /\ n - 1 + 1 = n /\ \A i \in 1 .. n : 1 + i - 1 = i
  OBVIOUS
<1> QED BY <1>2, <1>3

\* The length of a message.
LEMMA PushLong ==
  ASSUME NEW kind
  PROVE  /\ PushHeader \in Nat /\ PushHeader >= 1 /\ PushBody \in Nat /\ PushBody >= 1
         /\ Push!Len2(kind) \in Nat /\ Push!Long(kind) \in Nat /\ Push!Long(kind) >= 1
         /\ Push!Long(kind) = PushHeader + Push!Len2(kind)
         /\ Push!Len2(kind) = 0 => ~Push!IsPush(kind) /\ kind # "bad"
         /\ Push!Len2(kind) \in 1 .. PushBody => Push!Len2(kind) = PushBody
<1>1. PushHeader \in Nat /\ PushHeader >= 1 /\ PushBody \in Nat /\ PushBody >= 1
  BY PushAssumption
<1>2. Push!Len2(kind) = (IF kind = "empty" THEN 0 ELSE IF kind = "long" THEN PushBody + 1 ELSE PushBody)
  BY DEF Push!Len2
<1>3. Push!Long(kind) = PushHeader + Push!Len2(kind)
  BY DEF Push!Long
<1>4. kind = "empty" => ~Push!IsPush(kind) /\ kind # "bad"
  BY DEF Push!IsPush
<1>5. Push!Len2(kind) \in Nat /\ (Push!Len2(kind) = 0 => kind = "empty")
      /\ (Push!Len2(kind) \in 1 .. PushBody => Push!Len2(kind) = PushBody)
  BY <1>1, <1>2
<1>6. Push!Long(kind) \in Nat /\ Push!Long(kind) >= 1
  BY <1>1, <1>3, <1>5
<1> QED BY <1>1, <1>3, <1>4, <1>5, <1>6

\* A byte is its message and its place.
LEMMA PushByte ==
  ASSUME NEW m \in Nat, NEW k \in Nat
  PROVE  /\ Push!Byte(m, k) \in PushBytes
         /\ Push!Byte(m, k).m = m /\ Push!Byte(m, k).k = k
         /\ m # 0 => Push!Byte(m, k) # Push!Heartbeat
         /\ Push!Heartbeat \in PushBytes
         /\ Push!IsZero(Push!Byte(m, k)) <=> m # 0 /\ k <= 2
         /\ ~Push!IsZero(Push!Heartbeat)
<1>1. Push!Byte(m, k) = [m |-> m, k |-> k] /\ Push!Heartbeat = [m |-> 0, k |-> 1]
  BY DEF Push!Byte, Push!Heartbeat
<1>2. Push!Byte(m, k) \in PushBytes /\ Push!Heartbeat \in PushBytes
  BY <1>1 DEF PushBytes
<1>3. Push!Byte(m, k).m = m /\ Push!Byte(m, k).k = k /\ Push!Heartbeat.m = 0
  BY <1>1
<1>4. m # 0 => Push!Byte(m, k) # Push!Heartbeat
  BY <1>3
<1>5. Push!IsZero(Push!Byte(m, k)) <=> m # 0 /\ k <= 2
  BY <1>3 DEF Push!IsZero
<1>6. ~Push!IsZero(Push!Heartbeat)
  BY <1>3 DEF Push!IsZero
<1> QED BY <1>2, <1>3, <1>4, <1>5, <1>6

\* A message is the sequence of its bytes.
LEMMA PushMessage ==
  ASSUME NEW m \in Nat, NEW kind
  PROVE  /\ Push!Message(m, kind) \in Seq(PushBytes)
         /\ Len(Push!Message(m, kind)) = Push!Long(kind)
         /\ \A k \in 1 .. Push!Long(kind) : Push!Message(m, kind)[k] = Push!Byte(m, k)
<1> DEFINE t == Push!Long(kind)  a == Push!Message(m, kind)
<1>1. t \in Nat /\ a = [k \in 1 .. t |-> Push!Byte(m, k)]
  BY PushLong DEF Push!Message, Push!Long
<1> HIDE DEF t, a
<1>2. \A k \in 1 .. t : k \in Nat
  BY <1>1
<1>3. \A k \in 1 .. t : Push!Byte(m, k) \in PushBytes
  BY <1>2, PushByte
<1>4. a \in Seq(PushBytes) /\ Len(a) = t /\ \A k \in 1 .. t : a[k] = Push!Byte(m, k)
  BY <1>1, <1>3
<1> QED BY <1>4 DEF t, a

\* What "aligned" says of a byte: it is one of a message that is still to come.
LEMMA PushIn ==
  ASSUME NEW w, NEW from, NEW ks, NEW c, Push!Aligned(w, from, ks, c),
         NEW i \in from + 1 .. Len(w), w[i] # Push!Heartbeat
  PROVE  w[i].m \in c + 1 .. Len(ks) /\ w[i].k \in 1 .. Push!Long(ks[w[i].m])
BY DEF Push!Aligned

\* Every byte of a message of its own is there.
LEMMA PushThere ==
  ASSUME NEW w, NEW from, NEW ks, NEW c, Push!Aligned(w, from, ks, c),
         NEW m \in c + 1 .. Len(ks), NEW k \in 1 .. Push!Long(ks[m])
  PROVE  \E i \in from + 1 .. Len(w) : w[i] = Push!Byte(m, k)
BY DEF Push!Aligned

\* Of two messages' bytes the earlier message's come first.
LEMMA PushOrder ==
  ASSUME NEW w, NEW from, NEW ks, NEW c, Push!Aligned(w, from, ks, c),
         NEW i \in from + 1 .. Len(w), NEW j \in from + 1 .. Len(w),
         i < j, w[i] # Push!Heartbeat, w[j] # Push!Heartbeat
  PROVE  w[i].m < w[j].m \/ (w[i].m = w[j].m /\ j - i = w[j].k - w[i].k)
BY DEF Push!Aligned

\* The bytes in front of what is aligned may be taken away.
LEMMA PushShift ==
  ASSUME NEW w \in Seq(PushBytes), NEW ks, NEW c \in Nat, NEW from \in Nat, NEW e \in Nat,
         e <= from, from <= Len(w), Push!Aligned(w, from, ks, c)
  PROVE  Push!Aligned(SubSeq(w, e + 1, Len(w)), from - e, ks, c)
<1> DEFINE v == SubSeq(w, e + 1, Len(w))  l == Len(w)
<1>1. l \in Nat /\ from <= l
  BY LenProperties
<1>2. Len(v) = l - e /\ \A i \in 1 .. l - e : v[i] = w[i + e]
  BY <1>1, PushBehind
<1> HIDE DEF v
<1>3. ASSUME NEW i \in (from - e) + 1 .. Len(v)
      PROVE  i + e \in from + 1 .. Len(w) /\ v[i] = w[i + e]
  <2>1. i \in 1 .. l - e /\ i + e \in from + 1 .. l
    BY <1>1, <1>2
  <2> QED BY <1>2, <2>1
<1>4. ASSUME NEW i \in (from - e) + 1 .. Len(v), v[i] # Push!Heartbeat
      PROVE  v[i].m \in c + 1 .. Len(ks) /\ v[i].k \in 1 .. Push!Long(ks[v[i].m])
  <2>1. i + e \in from + 1 .. Len(w) /\ v[i] = w[i + e]
    BY <1>3
  <2>2. w[i + e] # Push!Heartbeat
    BY <1>4, <2>1
  <2>3. w[i + e].m \in c + 1 .. Len(ks) /\ w[i + e].k \in 1 .. Push!Long(ks[w[i + e].m])
    BY <2>1, <2>2, PushIn
  <2> QED BY <2>1, <2>3
<1>5. ASSUME NEW m \in c + 1 .. Len(ks), NEW k \in 1 .. Push!Long(ks[m])
      PROVE  \E i \in (from - e) + 1 .. Len(v) : v[i] = Push!Byte(m, k)
  <2>1. PICK i \in from + 1 .. Len(w) : w[i] = Push!Byte(m, k)
    BY PushThere
  <2>2. i - e \in (from - e) + 1 .. Len(v) /\ (i - e) + e = i
    BY <1>1, <1>2
  <2>3. v[i - e] = w[i]
    BY <1>3, <2>2
  <2> QED BY <2>1, <2>2, <2>3
<1>6. ASSUME NEW i \in (from - e) + 1 .. Len(v), NEW j \in (from - e) + 1 .. Len(v),
             i < j, v[i] # Push!Heartbeat, v[j] # Push!Heartbeat
      PROVE  v[i].m < v[j].m \/ (v[i].m = v[j].m /\ j - i = v[j].k - v[i].k)
  <2>1. i + e \in from + 1 .. Len(w) /\ v[i] = w[i + e] /\ j + e \in from + 1 .. Len(w) /\ v[j] = w[j + e]
    BY <1>3
  <2>2. i \in Int /\ j \in Int
    BY <1>1, <1>2
  <2>3. i + e < j + e /\ (j + e) - (i + e) = j - i
    BY ONLY <2>2, i < j, e \in Nat
  <2>4. w[i + e].m < w[j + e].m \/ (w[i + e].m = w[j + e].m /\ (j + e) - (i + e) = w[j + e].k - w[i + e].k)
    BY <1>6, <2>1, <2>3, PushOrder
  <2> QED BY <2>1, <2>3, <2>4
<1>7. Push!Aligned(v, from - e, ks, c)
  BY <1>4, <1>5, <1>6 DEF Push!Aligned
<1> QED BY <1>7 DEF v

\* The byte that begins a message begins the next one, which is all there.
LEMMA PushNext ==
  ASSUME NEW w \in Seq(PushBytes), NEW ks, Len(ks) \in Nat, NEW c \in Nat,
         Push!Aligned(w, 0, ks, c), Len(w) >= 1, Push!IsZero(w[1])
  PROVE  /\ c + 1 \in 1 .. Len(ks) /\ Push!Long(ks[c + 1]) <= Len(w)
         /\ \A k \in 1 .. Push!Long(ks[c + 1]) : w[k] = Push!Byte(c + 1, k)
         /\ Push!Aligned(w, Push!Long(ks[c + 1]), ks, c + 1)
<1> DEFINE n == c + 1  t == Push!Long(ks[n])  l == Len(w)
<1>1. l \in Nat /\ l >= 1 /\ n \in Nat /\ n # 0 /\ t \in Nat /\ t >= 1 /\ Len(ks) \in Nat
  BY LenProperties, PushLong
<1>2. \A i \in 1 .. l : w[i] \in PushBytes /\ w[i].m \in Nat /\ w[i].k \in Nat
  <2>1. ASSUME NEW i \in 1 .. l PROVE w[i] \in PushBytes
    BY ElementOfSeq
  <2>2. \A b \in PushBytes : b.m \in Nat /\ b.k \in Nat
    BY DEF PushBytes
  <2> QED BY <2>1, <2>2
<1>3. 1 \in 0 + 1 .. l /\ \A i \in 1 .. l : i \in 0 + 1 .. l
  BY <1>1
<1> HIDE DEF l, t
<1>4. w[1] # Push!Heartbeat
  BY PushByte
<1>5. w[1].m \in n .. Len(ks) /\ w[1].k \in 1 .. Push!Long(ks[w[1].m])
  BY <1>3, <1>4, PushIn DEF l
<1>6. n \in n .. Len(ks) /\ n \in 1 .. Len(ks)
  BY ONLY <1>1, <1>5
<1>7. ASSUME NEW k \in 1 .. t
      PROVE  \E i \in 1 .. l : w[i] = Push!Byte(n, k) /\ w[i].m = n /\ w[i].k = k /\ w[i] # Push!Heartbeat
  <2>1. PICK i \in 0 + 1 .. l : w[i] = Push!Byte(n, k)
    BY <1>6, PushThere DEF l, t
  <2>2. i \in 1 .. l /\ k \in Nat
    BY <1>1
  <2>3. n \in Nat
    BY <1>1
  <2>4. Push!Byte(n, k).m = n /\ Push!Byte(n, k).k = k /\ Push!Byte(n, k) # Push!Heartbeat
    BY <2>2, <2>3, PushByte
  <2> QED BY <2>1, <2>2, <2>4
<1>8. w[1] = Push!Byte(n, 1) /\ w[1].m = n /\ w[1].k = 1
  <2>1. PICK j \in 1 .. l : w[j] = Push!Byte(n, 1) /\ w[j].m = n /\ w[j].k = 1 /\ w[j] # Push!Heartbeat
    BY <1>1, <1>7
  <2>2. CASE j > 1
    <3>1. w[1].m < n \/ (w[1].m = n /\ j - 1 = 1 - w[1].k)
      BY <1>3, <1>4, <2>1, <2>2, PushOrder DEF l
    <3>2. w[1].m \in Nat /\ w[1].m >= n /\ w[1].k \in Nat /\ w[1].k >= 1 /\ j \in Nat
      <4>1. 1 \in 1 .. l
        BY <1>1
      <4>2. w[1].m \in Nat /\ w[1].k \in Nat
        BY <1>2, <4>1
      <4>3. Push!Long(ks[w[1].m]) \in Nat
        BY PushLong
      <4> QED BY ONLY <1>1, <1>5, <4>2, <4>3, j \in 1 .. l
    <3> QED BY ONLY <3>1, <3>2, <2>2, <1>1
  <2>3. CASE j = 1
    BY <2>1, <2>3
  <2> QED BY ONLY <2>2, <2>3, <1>1, j \in 1 .. l
<1>9. ASSUME NEW k \in 1 .. t PROVE k \in 1 .. l /\ w[k] = Push!Byte(n, k)
  <2>1. PICK j \in 1 .. l : w[j] = Push!Byte(n, k) /\ w[j].m = n /\ w[j].k = k /\ w[j] # Push!Heartbeat
    BY <1>7
  <2>2. CASE j > 1
    <3>1. w[1].m < w[j].m \/ (w[1].m = w[j].m /\ j - 1 = w[j].k - w[1].k)
      BY <1>3, <1>4, <2>1, <2>2, PushOrder DEF l
    <3>2. j = k
      BY ONLY <3>1, <2>1, <1>8, <1>1, j \in 1 .. l, k \in 1 .. t
    <3> QED BY <3>2, <2>1
  <2>3. CASE j = 1
    <3>1. k = 1
      BY <2>1, <2>3, <1>8
    <3> QED BY <2>1, <2>3, <3>1
  <2> QED BY ONLY <2>2, <2>3, <1>1, j \in 1 .. l
<1>10. t <= l
  <2>1. t \in 1 .. t
    BY <1>1
  <2>2. t \in 1 .. l
    BY <1>9, <2>1
  <2> QED BY <1>1, <2>2
<1>11. \A i \in t + 1 .. l : i \in 1 .. l /\ i \in 0 + 1 .. l /\ 1 < i /\ i > t
  BY ONLY <1>1
<1>12. ASSUME NEW i \in t + 1 .. l, w[i] # Push!Heartbeat
       PROVE  w[i].m \in n + 1 .. Len(ks) /\ w[i].k \in 1 .. Push!Long(ks[w[i].m])
  <2>1. w[i].m \in n .. Len(ks) /\ w[i].k \in 1 .. Push!Long(ks[w[i].m])
    BY <1>11, <1>12, PushIn DEF l
  <2>2. n < w[i].m \/ (n = w[i].m /\ i - 1 = w[i].k - 1)
    BY <1>3, <1>4, <1>8, <1>11, <1>12, PushOrder DEF l
  <2>3. w[i].m # n
    <3>1. SUFFICES ASSUME w[i].m = n PROVE FALSE
      OBVIOUS
    <3>2. w[i].k \in 1 .. t
      BY <2>1, <3>1 DEF t
    <3> QED BY ONLY <2>2, <3>1, <3>2, <1>1, i \in t + 1 .. l
  <2>4. w[i].m \in n + 1 .. Len(ks)
    BY ONLY <2>1, <2>3, <1>1
  <2> QED BY <2>1, <2>4
<1>13. ASSUME NEW m \in n + 1 .. Len(ks), NEW k \in 1 .. Push!Long(ks[m])
       PROVE  \E i \in t + 1 .. l : w[i] = Push!Byte(m, k)
  <2>1. m \in n .. Len(ks) /\ m \in Nat /\ m # n
    BY ONLY <1>1, m \in n + 1 .. Len(ks)
  <2>2. k \in Nat
    BY PushLong
  <2>3. PICK i \in 0 + 1 .. l : w[i] = Push!Byte(m, k)
    BY <2>1, PushThere DEF l
  <2>4. w[i].m = m
    BY <2>1, <2>2, <2>3, PushByte
  <2>5. i \notin 1 .. t
    <3>1. ASSUME i \in 1 .. t PROVE FALSE
      <4>1. w[i] = Push!Byte(n, i) /\ i \in Nat
        BY <3>1, <1>9, <1>1
      <4>2. w[i].m = n
        BY <4>1, <1>1, PushByte
      <4> QED BY <4>2, <2>1, <2>4
    <3> QED BY <3>1
  <2>6. i \in t + 1 .. l
    BY ONLY <2>5, i \in 0 + 1 .. l, <1>1
  <2> QED BY <2>3, <2>6
<1>14. ASSUME NEW i \in t + 1 .. l, NEW j \in t + 1 .. l, i < j, w[i] # Push!Heartbeat, w[j] # Push!Heartbeat
       PROVE  w[i].m < w[j].m \/ (w[i].m = w[j].m /\ j - i = w[j].k - w[i].k)
  BY <1>11, <1>14, PushOrder DEF l
<1>15. Push!Aligned(w, t, ks, n)
  BY <1>12, <1>13, <1>14 DEF Push!Aligned, l
<1> QED BY <1>6, <1>9, <1>10, <1>15 DEF l, t

\* Any other byte there is a heartbeat, behind which it goes on.
LEMMA PushBeat ==
  ASSUME NEW w \in Seq(PushBytes), NEW ks, Len(ks) \in Nat, NEW c \in Nat,
         Push!Aligned(w, 0, ks, c), Len(w) >= 1, ~Push!IsZero(w[1])
  PROVE  Push!Aligned(w, 1, ks, c)
<1> DEFINE n == c + 1  l == Len(w)
<1>1. l \in Nat /\ l >= 1 /\ n \in Nat /\ n # 0 /\ Len(ks) \in Nat
  BY LenProperties
<1>2. 1 \in 0 + 1 .. l /\ (\A i \in 1 .. l : i \in 0 + 1 .. l)
      /\ \A i \in 1 + 1 .. l : i \in 0 + 1 .. l /\ i \in 1 .. l
  BY <1>1
<1> HIDE DEF l
<1>3. w[1] = Push!Heartbeat
  <2>1. SUFFICES ASSUME w[1] # Push!Heartbeat PROVE FALSE
    OBVIOUS
  <2>2. w[1].m \in n .. Len(ks) /\ w[1].k \in 1 .. Push!Long(ks[w[1].m]) /\ w[1] \in PushBytes
    BY <1>1, <1>2, <2>1, PushIn, ElementOfSeq DEF l
  <2>3. w[1].m \in Nat /\ w[1].k \in Nat /\ w[1].k >= 1 /\ w[1].m >= n /\ n \in n .. Len(ks)
    <3>1. Push!Long(ks[w[1].m]) \in Nat
      BY PushLong
    <3> QED BY ONLY <1>1, <2>2, <3>1
  <2>4. 1 \in 1 .. Push!Long(ks[n])
    BY PushLong
  <2>5. PICK j \in 0 + 1 .. l : w[j] = Push!Byte(n, 1)
    BY <2>3, <2>4, PushThere DEF l
  <2>6. w[j] # Push!Heartbeat /\ w[j].m = n /\ w[j].k = 1 /\ Push!IsZero(w[j])
    BY <1>1, <2>5, PushByte
  <2>7. CASE j = 1
    BY <2>6, <2>7
  <2>8. CASE j > 1
    <3>1. w[1].m < n \/ (w[1].m = n /\ j - 1 = 1 - w[1].k)
      BY <1>2, <2>1, <2>6, <2>8, PushOrder DEF l
    <3> QED BY ONLY <3>1, <2>3, <2>8, <1>1, j \in 0 + 1 .. l
  <2> QED BY ONLY <2>7, <2>8, <1>1, j \in 0 + 1 .. l
<1>4. ASSUME NEW i \in 1 + 1 .. l, w[i] # Push!Heartbeat
      PROVE  w[i].m \in c + 1 .. Len(ks) /\ w[i].k \in 1 .. Push!Long(ks[w[i].m])
  BY <1>2, <1>4, PushIn DEF l
<1>5. ASSUME NEW m \in c + 1 .. Len(ks), NEW k \in 1 .. Push!Long(ks[m])
      PROVE  \E i \in 1 + 1 .. l : w[i] = Push!Byte(m, k)
  <2>1. m \in Nat /\ m # 0 /\ k \in Nat
    BY <1>1, PushLong
  <2>2. PICK i \in 0 + 1 .. l : w[i] = Push!Byte(m, k)
    BY PushThere DEF l
  <2>3. i # 1
    BY <1>3, <2>1, <2>2, PushByte
  <2>4. i \in 1 + 1 .. l
    BY ONLY <2>3, i \in 0 + 1 .. l, <1>1
  <2> QED BY <2>2, <2>4
<1>6. ASSUME NEW i \in 1 + 1 .. l, NEW j \in 1 + 1 .. l, i < j, w[i] # Push!Heartbeat, w[j] # Push!Heartbeat
      PROVE  w[i].m < w[j].m \/ (w[i].m = w[j].m /\ j - i = w[j].k - w[i].k)
  BY <1>2, <1>6, PushOrder DEF l
<1> QED BY <1>4, <1>5, <1>6 DEF Push!Aligned, l

\* A server that sends adds a message at the end.
LEMMA PushGrows ==
  ASSUME NEW w \in Seq(PushBytes), NEW ks \in Seq(Push!Kinds), NEW kind \in Push!Kinds,
         NEW c \in Nat, c <= Len(ks), NEW from \in Nat, from <= Len(w), Push!Aligned(w, from, ks, c)
  PROVE  Push!Aligned(w \o Push!Message(Len(ks) + 1, kind), from, Append(ks, kind), c)
<1> DEFINE n == Len(ks) + 1  a == Push!Message(n, kind)  v == w \o a  l == Len(w)
           t == Push!Long(kind)  hs == Append(ks, kind)
<1>1. /\ l \in Nat /\ from <= l /\ n \in Nat /\ n # 0 /\ t \in Nat /\ t >= 1 /\ c + 1 <= n
      /\ Len(ks) \in Nat /\ n = Len(ks) + 1
  BY LenProperties, PushLong
<1>2. a \in Seq(PushBytes) /\ Len(a) = t /\ \A k \in 1 .. t : a[k] = Push!Byte(n, k)
  BY <1>1, PushMessage
<1>3. Len(hs) = n /\ hs[n] = kind /\ \A m \in 1 .. Len(ks) : hs[m] = ks[m]
  <2> HIDE DEF hs
  <2> QED BY DEF hs
<1> HIDE DEF a, t, n
<1>4. Len(v) = l + t /\ \A i \in 1 .. l + t : v[i] = IF i <= l THEN w[i] ELSE a[i - l]
  BY <1>2, ConcatProperties
<1> HIDE DEF v, l, hs
<1>5. ASSUME NEW i \in from + 1 .. l + t, i <= l
      PROVE  i \in from + 1 .. l /\ v[i] = w[i]
  <2>1. i \in from + 1 .. l /\ i \in 1 .. l + t
    BY <1>1, <1>5
  <2> QED BY <1>4, <1>5, <2>1
<1>6. ASSUME NEW i \in from + 1 .. l + t, ~(i <= l)
      PROVE  /\ i - l \in 1 .. t /\ v[i] = Push!Byte(n, i - l)
             /\ v[i].m = n /\ v[i].k = i - l
  <2>1. i - l \in 1 .. t /\ i - l \in Nat /\ i \in 1 .. l + t
    BY <1>1, <1>6
  <2>2. v[i] = Push!Byte(n, i - l)
    BY <1>2, <1>4, <1>6, <2>1
  <2> QED BY <1>1, <2>1, <2>2, PushByte
<1>7. ASSUME NEW i \in from + 1 .. l + t, v[i] # Push!Heartbeat
      PROVE  v[i].m \in c + 1 .. n /\ v[i].k \in 1 .. Push!Long(hs[v[i].m])
  <2>1. CASE i <= l
    <3>1. i \in from + 1 .. l /\ v[i] = w[i]
      BY <1>5, <2>1
    <3>2. v[i].m \in c + 1 .. Len(ks) /\ v[i].k \in 1 .. Push!Long(ks[v[i].m])
      BY <1>7, <3>1, PushIn DEF l
    <3>3. v[i].m \in c + 1 .. n /\ v[i].m \in 1 .. Len(ks)
      BY ONLY <1>1, <3>2, c \in Nat
    <3> QED BY <1>3, <3>2, <3>3
  <2>2. CASE ~(i <= l)
    <3>1. i - l \in 1 .. t /\ v[i].m = n /\ v[i].k = i - l
      BY <1>6, <2>2
    <3>2. n \in c + 1 .. n
      BY ONLY <1>1, c \in Nat
    <3> QED BY <1>3, <3>1, <3>2 DEF t
  <2> QED BY <2>1, <2>2
<1>8. ASSUME NEW m \in c + 1 .. n, NEW k \in 1 .. Push!Long(hs[m])
      PROVE  \E i \in from + 1 .. l + t : v[i] = Push!Byte(m, k)
  <2>1. CASE m # n
    <3>1. m \in c + 1 .. Len(ks) /\ m \in 1 .. Len(ks)
      BY ONLY <1>1, <2>1, c \in Nat, m \in c + 1 .. n
    <3>2. k \in 1 .. Push!Long(ks[m])
      BY <1>3, <3>1
    <3>3. PICK i \in from + 1 .. l : w[i] = Push!Byte(m, k)
      BY <3>1, <3>2, PushThere DEF l
    <3>4. i \in from + 1 .. l + t /\ i <= l
      BY ONLY <1>1, i \in from + 1 .. l, from \in Nat
    <3> QED BY <1>5, <3>3, <3>4
  <2>2. CASE m = n
    <3>1. k \in 1 .. t
      BY <1>3, <2>2 DEF t
    <3>2. l + k \in from + 1 .. l + t /\ ~(l + k <= l) /\ (l + k) - l = k
      BY ONLY <1>1, <3>1, from \in Nat
    <3>3. v[l + k] = Push!Byte(n, (l + k) - l)
      BY <1>6, <3>2
    <3> QED BY <2>2, <3>2, <3>3
  <2> QED BY <2>1, <2>2
<1>9. ASSUME NEW i \in from + 1 .. l + t, NEW j \in from + 1 .. l + t, i < j,
             v[i] # Push!Heartbeat, v[j] # Push!Heartbeat
      PROVE  v[i].m < v[j].m \/ (v[i].m = v[j].m /\ j - i = v[j].k - v[i].k)
  <2>0. i \in Int /\ j \in Int
    BY ONLY <1>1, from \in Nat, i \in from + 1 .. l + t, j \in from + 1 .. l + t
  <2>1. CASE j <= l
    <3>1. i <= l
      BY ONLY <2>0, <2>1, <1>1, <1>9
    <3>2. i \in from + 1 .. l /\ v[i] = w[i] /\ j \in from + 1 .. l /\ v[j] = w[j]
      BY <1>5, <2>1, <3>1
    <3>3. w[i] # Push!Heartbeat /\ w[j] # Push!Heartbeat
      BY <1>9, <3>2
    <3>4. w[i].m < w[j].m \/ (w[i].m = w[j].m /\ j - i = w[j].k - w[i].k)
      BY <1>9, <3>2, <3>3, PushOrder DEF l
    <3> QED BY <3>2, <3>4
  <2>2. CASE i <= l /\ ~(j <= l)
    <3>1. v[j].m = n
      BY <1>6, <2>2
    <3>2. i \in from + 1 .. l /\ v[i] = w[i]
      BY <1>5, <2>2
    <3>3. v[i].m \in c + 1 .. Len(ks)
      BY <1>9, <3>2, PushIn DEF l
    <3> QED BY ONLY <1>1, <3>1, <3>3, c \in Nat
  <2>3. CASE ~(i <= l)
    <3>1. ~(j <= l)
      BY ONLY <2>0, <2>3, <1>1, <1>9
    <3>2. v[j].m = n /\ v[j].k = j - l /\ v[i].m = n /\ v[i].k = i - l
      BY <1>6, <2>3, <3>1
    <3> QED BY ONLY <1>1, <2>0, <3>2
  <2> QED BY <2>1, <2>2, <2>3
<1>10. Push!Aligned(v, from, hs, c)
  BY <1>3, <1>4, <1>7, <1>8, <1>9 DEF Push!Aligned
<1> QED BY <1>10 DEF v, hs, a, n

\* A server that replies to a heartbeat adds one byte.
LEMMA PushBeats ==
  ASSUME NEW w \in Seq(PushBytes), NEW ks, NEW c, NEW from \in Nat, from <= Len(w),
         Push!Aligned(w, from, ks, c)
  PROVE  Push!Aligned(Append(w, Push!Heartbeat), from, ks, c)
<1> DEFINE v == Append(w, Push!Heartbeat)  l == Len(w)
<1>1. l \in Nat /\ from <= l
  BY LenProperties
<1>2. Len(v) = l + 1 /\ v[l + 1] = Push!Heartbeat /\ \A i \in 1 .. l : v[i] = w[i]
  <2> HIDE DEF v
  <2> QED BY DEF v
<1> HIDE DEF v, l
<1>3. ASSUME NEW i \in from + 1 .. l + 1, v[i] # Push!Heartbeat
      PROVE  i \in from + 1 .. l /\ v[i] = w[i]
  <2>1. i # l + 1
    BY <1>2, <1>3
  <2>2. i \in from + 1 .. l /\ i \in 1 .. l
    BY ONLY <1>1, <2>1, from \in Nat, i \in from + 1 .. l + 1
  <2> QED BY <1>2, <2>2
<1>4. ASSUME NEW i \in from + 1 .. l PROVE i \in from + 1 .. l + 1 /\ v[i] = w[i]
  <2>1. i \in from + 1 .. l + 1 /\ i \in 1 .. l
    BY ONLY <1>1, from \in Nat, i \in from + 1 .. l
  <2> QED BY <1>2, <2>1
<1>5. ASSUME NEW i \in from + 1 .. l + 1, v[i] # Push!Heartbeat
      PROVE  v[i].m \in c + 1 .. Len(ks) /\ v[i].k \in 1 .. Push!Long(ks[v[i].m])
  <2>1. i \in from + 1 .. l /\ v[i] = w[i] /\ w[i] # Push!Heartbeat
    BY <1>3, <1>5
  <2>2. w[i].m \in c + 1 .. Len(ks) /\ w[i].k \in 1 .. Push!Long(ks[w[i].m])
    BY <2>1, PushIn DEF l
  <2> QED BY <2>1, <2>2
<1>6. ASSUME NEW m \in c + 1 .. Len(ks), NEW k \in 1 .. Push!Long(ks[m])
      PROVE  \E i \in from + 1 .. l + 1 : v[i] = Push!Byte(m, k)
  <2>1. PICK i \in from + 1 .. l : w[i] = Push!Byte(m, k)
    BY PushThere DEF l
  <2> QED BY <1>4, <2>1
<1>7. ASSUME NEW i \in from + 1 .. l + 1, NEW j \in from + 1 .. l + 1, i < j,
             v[i] # Push!Heartbeat, v[j] # Push!Heartbeat
      PROVE  v[i].m < v[j].m \/ (v[i].m = v[j].m /\ j - i = v[j].k - v[i].k)
  <2>1. /\ i \in from + 1 .. l /\ v[i] = w[i] /\ w[i] # Push!Heartbeat
        /\ j \in from + 1 .. l /\ v[j] = w[j] /\ w[j] # Push!Heartbeat
    BY <1>3, <1>7
  <2>2. w[i].m < w[j].m \/ (w[i].m = w[j].m /\ j - i = w[j].k - w[i].k)
    BY <1>7, <2>1, PushOrder DEF l
  <2> QED BY <2>1, <2>2
<1>8. Push!Aligned(v, from, ks, c)
  BY <1>2, <1>5, <1>6, <1>7 DEF Push!Aligned
<1> QED BY <1>8 DEF v

\* A message that is read stays so while others are sent.
LEMMA PushWaits ==
  ASSUME NEW taken, NEW w \in Seq(PushBytes), NEW ks \in Seq(Push!Kinds), NEW kind \in Push!Kinds,
         NEW m, NEW had \in Nat, Push!Begun(taken, w, ks, m, had), had <= Push!Long(ks[m])
  PROVE  /\ Push!Begun(taken, w \o Push!Message(Len(ks) + 1, kind), Append(ks, kind), m, had)
         /\ Push!Begun(taken, Append(w, Push!Heartbeat), ks, m, had)
<1> DEFINE t == Push!Long(ks[m])  hs == Append(ks, kind)
           v == w \o Push!Message(Len(ks) + 1, kind)  u == Append(w, Push!Heartbeat)
<1>1. /\ m \in 1 .. Len(ks) /\ Len(taken) = had /\ (\A k \in 1 .. had : taken[k] = Push!Byte(m, k))
      /\ t - had <= Len(w) /\ (\A k \in had + 1 .. t : w[k - had] = Push!Byte(m, k))
      /\ Push!Aligned(w, t - had, ks, m)
  BY DEF Push!Begun
<1>2. t \in Nat /\ Len(w) \in Nat /\ Len(ks) \in Nat /\ had <= t
  BY PushLong, LenProperties
<1>3. m \in Nat /\ m <= Len(ks) /\ t - had \in Nat /\ t - had <= Len(w) /\ m \in 1 .. Len(ks) + 1
  BY ONLY <1>1, <1>2, had \in Nat
<1>4. Len(hs) = Len(ks) + 1 /\ hs[m] = ks[m]
  <2> HIDE DEF hs
  <2> QED BY <1>1 DEF hs
<1> HIDE DEF t
<1>5. Push!Aligned(v, t - had, hs, m) /\ Push!Aligned(u, t - had, ks, m)
  BY <1>1, <1>3, PushGrows, PushBeats
<1>6. Len(v) \in Nat /\ Len(v) >= Len(w) /\ \A i \in 1 .. Len(w) : v[i] = w[i]
  <2> DEFINE a == Push!Message(Len(ks) + 1, kind)
  <2>1. a \in Seq(PushBytes) /\ Len(a) \in Nat
    BY <1>2, PushMessage, LenProperties
  <2> HIDE DEF a
  <2>2. /\ Len(w \o a) = Len(w) + Len(a)
        /\ \A i \in 1 .. Len(w) + Len(a) : (w \o a)[i] = IF i <= Len(w) THEN w[i] ELSE a[i - Len(w)]
    BY <2>1, ConcatProperties
  <2>3. \A i \in 1 .. Len(w) : i \in 1 .. Len(w) + Len(a) /\ i <= Len(w)
    BY ONLY <1>2, <2>1
  <2> QED BY <1>2, <2>1, <2>2, <2>3 DEF a
<1>7. Len(u) \in Nat /\ Len(u) >= Len(w) /\ \A i \in 1 .. Len(w) : u[i] = w[i]
  <2> HIDE DEF u
  <2> QED BY <1>2 DEF u
<1> HIDE DEF u, v, hs
<1>8. \A k \in had + 1 .. t : k - had \in 1 .. Len(w)
  BY ONLY <1>2, <1>3, had \in Nat
<1>9. t - had <= Len(v) /\ t - had <= Len(u)
  BY ONLY <1>2, <1>3, <1>6, <1>7, had \in Nat
<1>10. /\ \A k \in had + 1 .. t : v[k - had] = Push!Byte(m, k)
       /\ \A k \in had + 1 .. t : u[k - had] = Push!Byte(m, k)
  BY <1>1, <1>6, <1>7, <1>8
<1>11. Push!Begun(taken, v, hs, m, had)
  BY <1>1, <1>3, <1>4, <1>5, <1>9, <1>10 DEF Push!Begun, t
<1>12. Push!Begun(taken, u, ks, m, had)
  BY <1>1, <1>5, <1>9, <1>10 DEF Push!Begun, t
<1> QED BY <1>11, <1>12 DEF u, v, hs

\* The next n bytes of it are read.
LEMMA PushOn ==
  ASSUME NEW taken \in Seq(PushBytes), NEW w \in Seq(PushBytes), NEW ks, NEW m \in Nat,
         NEW had \in Nat, Push!Begun(taken, w, ks, m, had), NEW n \in Nat, had + n <= Push!Long(ks[m])
  PROVE  /\ n <= Len(w)
         /\ Push!Begun(taken \o SubSeq(w, 1, n), SubSeq(w, n + 1, Len(w)), ks, m, had + n)
<1> DEFINE t == Push!Long(ks[m])  a == SubSeq(w, 1, n)  v == SubSeq(w, n + 1, Len(w))  b == taken \o a
<1>1. /\ m \in 1 .. Len(ks) /\ Len(taken) = had /\ (\A k \in 1 .. had : taken[k] = Push!Byte(m, k))
      /\ t - had <= Len(w) /\ (\A k \in had + 1 .. t : w[k - had] = Push!Byte(m, k))
      /\ Push!Aligned(w, t - had, ks, m)
  BY DEF Push!Begun
<1>2. t \in Nat /\ Len(w) \in Nat /\ had + n <= t
  BY PushLong, LenProperties
<1>3. t - had \in Nat /\ n <= t - had /\ t - had <= Len(w) /\ n <= Len(w)
      /\ (t - had) - n = t - (had + n)
  BY ONLY <1>1, <1>2, had \in Nat, n \in Nat
<1> HIDE DEF t
<1>4. a \in Seq(PushBytes) /\ Len(a) = n /\ \A i \in 1 .. n : a[i] = w[i]
  BY <1>3, PushFront
<1>5. Len(v) = Len(w) - n /\ \A i \in 1 .. Len(w) - n : v[i] = w[i + n]
  BY <1>3, PushBehind
<1>6. Push!Aligned(v, t - (had + n), ks, m)
  BY <1>1, <1>3, PushShift
<1> HIDE DEF a
<1>7. Len(b) = had + n /\ \A i \in 1 .. had + n : b[i] = IF i <= had THEN taken[i] ELSE a[i - had]
  BY <1>1, <1>4, ConcatProperties
<1> HIDE DEF v, b
<1>8. ASSUME NEW k \in 1 .. had + n PROVE b[k] = Push!Byte(m, k)
  <2>1. CASE k <= had
    <3>1. k \in 1 .. had
      BY <2>1
    <3> QED BY <1>1, <1>7, <2>1, <3>1
  <2>2. CASE ~(k <= had)
    <3>1. k - had \in 1 .. n /\ k \in had + 1 .. t
      BY ONLY <1>2, <2>2, had \in Nat, n \in Nat, k \in 1 .. had + n
    <3>2. b[k] = a[k - had] /\ a[k - had] = w[k - had]
      BY <1>4, <1>7, <2>2, <3>1
    <3> QED BY <1>1, <3>1, <3>2
  <2> QED BY <2>1, <2>2
<1>9. ASSUME NEW k \in had + n + 1 .. t PROVE v[k - (had + n)] = Push!Byte(m, k)
  <2>1. k - (had + n) \in 1 .. Len(w) - n /\ k \in had + 1 .. t /\ (k - (had + n)) + n = k - had
    BY ONLY <1>2, <1>3, had \in Nat, n \in Nat, k \in had + n + 1 .. t
  <2>2. v[k - (had + n)] = w[k - had]
    BY <1>5, <2>1
  <2> QED BY <1>1, <2>1, <2>2
<1>10. t - (had + n) <= Len(v)
  BY ONLY <1>2, <1>3, <1>5, had \in Nat, n \in Nat
<1>11. Push!Begun(b, v, ks, m, had + n)
  BY <1>1, <1>6, <1>7, <1>8, <1>9, <1>10 DEF Push!Begun, t
<1> QED BY <1>3, <1>11 DEF b, v, a

\* The first bytes of a message.
PushStart(m, kind, had) == SubSeq(Push!Message(m, kind), 1, had)

\* What has been read is the beginning of the message.
LEMMA PushMade ==
  ASSUME NEW taken \in Seq(PushBytes), NEW w, NEW ks, NEW m \in Nat, NEW had \in Nat,
         Push!Begun(taken, w, ks, m, had), had <= Push!Long(ks[m])
  PROVE  taken = PushStart(m, ks[m], had)
<1> DEFINE t == Push!Long(ks[m])  a == Push!Message(m, ks[m])  b == SubSeq(a, 1, had)
<1>1. /\ Len(taken) = had /\ (\A k \in 1 .. had : taken[k] = Push!Byte(m, k))
      /\ Push!Aligned(w, t - had, ks, m) /\ t \in Nat /\ had <= t
  BY PushLong DEF Push!Begun
<1>2. a \in Seq(PushBytes) /\ Len(a) = t /\ \A k \in 1 .. t : a[k] = Push!Byte(m, k)
  BY PushMessage
<1>3. b \in Seq(PushBytes) /\ Len(b) = had /\ \A i \in 1 .. had : b[i] = a[i]
  <2> HIDE DEF t, a
  <2> QED BY <1>1, <1>2, PushFront
<1> HIDE DEF a, b, t
<1>4. \A k \in 1 .. had : k \in 1 .. t
  BY ONLY <1>1, had \in Nat
<1>5. \A k \in 1 .. had : taken[k] = b[k]
  BY <1>1, <1>2, <1>3, <1>4
<1>6. taken = b
  BY <1>1, <1>3, <1>5, SeqEqual
<1> QED BY <1>6 DEF a, b, t, PushStart

\* When all of the message has been read, the next one follows.
LEMMA PushReads ==
  ASSUME NEW taken \in Seq(PushBytes), NEW w, NEW ks, NEW m \in Nat,
         Push!Begun(taken, w, ks, m, Push!Long(ks[m]))
  PROVE  taken = Push!Message(m, ks[m]) /\ Push!Aligned(w, 0, ks, m)
<1> DEFINE t == Push!Long(ks[m])  a == Push!Message(m, ks[m])
<1>1. /\ Len(taken) = t /\ (\A k \in 1 .. t : taken[k] = Push!Byte(m, k))
      /\ Push!Aligned(w, t - t, ks, m) /\ t \in Nat
  BY PushLong DEF Push!Begun
<1>2. a \in Seq(PushBytes) /\ Len(a) = t /\ \A k \in 1 .. t : a[k] = Push!Byte(m, k)
  BY PushMessage
<1> HIDE DEF a, t
<1>3. \A k \in 1 .. t : taken[k] = a[k]
  BY <1>1, <1>2
<1>4. taken = a /\ Push!Aligned(w, 0, ks, m)
  <2>1. taken = a
    BY <1>1, <1>2, <1>3, SeqEqual
  <2>2. t - t = 0
    BY <1>1
  <2> QED BY <1>1, <2>1, <2>2
<1> QED BY <1>4 DEF a

\* A message is told by its first byte.
LEMMA PushTells ==
  ASSUME NEW ks, NEW m \in Nat, NEW n \in Nat
  PROVE  /\ Push!Message(m, ks[m]) = Push!Message(n, ks[n]) => m = n
         /\ SubSeq(Push!Message(m, ks[m]), 1, PushHeader) = SubSeq(Push!Message(n, ks[n]), 1, PushHeader) => m = n
<1>1. ASSUME NEW i \in Nat
      PROVE  /\ Push!Message(i, ks[i])[1] = Push!Byte(i, 1) /\ Push!Byte(i, 1).m = i
             /\ SubSeq(Push!Message(i, ks[i]), 1, PushHeader)[1] = Push!Byte(i, 1)
  <2> DEFINE a == Push!Message(i, ks[i])  t == Push!Long(ks[i])
  <2>1. a \in Seq(PushBytes) /\ Len(a) = t /\ \A k \in 1 .. t : a[k] = Push!Byte(i, k)
    BY PushMessage
  <2>2. 1 \in 1 .. t /\ PushHeader \in Nat /\ PushHeader <= t /\ 1 \in 1 .. PushHeader
    <3>1. t = PushHeader + Push!Len2(ks[i]) /\ Push!Len2(ks[i]) \in Nat /\ PushHeader \in Nat /\ PushHeader >= 1
      BY PushLong
    <3> QED BY ONLY <3>1
  <2> HIDE DEF a, t
  <2>3. SubSeq(a, 1, PushHeader)[1] = a[1]
    BY <2>1, <2>2, PushFront
  <2> QED BY <2>1, <2>2, <2>3, PushByte DEF a
<1> QED BY <1>1

\* What the variables hold, whether the client keeps up with the server or not.
PushHolds ==
  /\ s1 \in Seq(Push!Kinds) /\ s2 \in Seq(PushBytes) /\ s3 \in {"first", "head", "body"}
  /\ s4 \in Seq(PushBytes) /\ s5 \in 0 .. PushBody /\ s6 \in 0 .. Len(s1)
  /\ s7 \in Seq(Nat) /\ Len(s7) <= PushQueue + 1 /\ s8 \in 0 .. Len(s1)
  /\ s10 \in Seq(Nat) /\ s11 \subseteq Nat /\ s12 \in BOOLEAN

\* An element more at the end of a sequence.
LEMMA PushAdd ==
  ASSUME NEW S, NEW q \in Seq(S), NEW x \in S
  PROVE  /\ Append(q, x) \in Seq(S) /\ Len(Append(q, x)) = Len(q) + 1
         /\ DOMAIN Append(q, x) = 1 .. Len(q) + 1 /\ DOMAIN q = 1 .. Len(q) /\ Len(q) \in Nat
         /\ Append(q, x)[Len(q) + 1] = x /\ \A i \in 1 .. Len(q) : Append(q, x)[i] = q[i]
<1> DEFINE r == Append(q, x)
<1>1. r \in Seq(S) /\ Len(r) = Len(q) + 1 /\ r[Len(q) + 1] = x /\ \A i \in 1 .. Len(q) : r[i] = q[i]
  <2> HIDE DEF r
  <2> QED BY DEF r
<1> HIDE DEF r
<1>2. DOMAIN r = 1 .. Len(r) /\ DOMAIN q = 1 .. Len(q) /\ Len(q) \in Nat
  BY <1>1, LenProperties
<1> QED BY <1>1, <1>2 DEF r

\* What a pushed message does keeps the types.
LEMMA PushDoes ==
  ASSUME PushHolds, NEW m \in Nat, Push!DoesPushed(m)
  PROVE  s7' \in Seq(Nat) /\ Len(s7') <= PushQueue + 1 /\ s10' \in Seq(Nat)
<1>1. s7 \in Seq(Nat) /\ Len(s7) <= PushQueue + 1 /\ s10 \in Seq(Nat)
  BY DEF PushHolds
<1>2. PushQueue \in Nat
  BY PushAssumption
<1>3. s10' = s10 \/ s10' = Append(s10, m)
  BY DEF Push!DoesPushed
<1>4. s7' = s7 \/ s7' = Push!Queued(m)
  BY DEF Push!DoesPushed
<1>5. s7' = s7 \/ (s7' = Append(s7, m) /\ ~(Len(s7) > PushQueue))
  BY <1>4 DEF Push!Queued
<1>6. s10' \in Seq(Nat)
  BY <1>1, <1>3, PushAdd
<1>7. CASE s7' = s7
  BY <1>1, <1>6, <1>7
<1>8. CASE s7' = Append(s7, m) /\ ~(Len(s7) > PushQueue)
  <2>1. s7' \in Seq(Nat) /\ Len(s7') = Len(s7) + 1 /\ Len(s7) \in Nat
    BY <1>1, <1>8, PushAdd
  <2>2. Len(s7') <= PushQueue + 1
    BY ONLY <2>1, <1>8, <1>2
  <2> QED BY <1>6, <2>1, <2>2
<1> QED BY <1>5, <1>7, <1>8

\* What is done with the bytes read keeps the types.
LEMMA PushProcess ==
  ASSUME PushHolds, NEW bytes, Push!Process(bytes)
  PROVE  /\ s6' \in 0 .. Len(s1) /\ s8' \in 0 .. Len(s1)
         /\ s7' \in Seq(Nat) /\ Len(s7') <= PushQueue + 1 /\ s10' \in Seq(Nat)
<1>1. /\ s6 \in 0 .. Len(s1) /\ s8 \in 0 .. Len(s1) /\ s7 \in Seq(Nat) /\ s10 \in Seq(Nat)
      /\ Len(s7) <= PushQueue + 1
  BY DEF PushHolds
<1>2. Len(s1) \in Nat /\ DOMAIN s1 = 1 .. Len(s1)
  BY LenProperties DEF PushHolds
<1>3. \A m \in 0 .. Len(s1) : m \in Nat
  BY <1>2
<1>4. CASE UNCHANGED Push!effects
  BY <1>1, <1>4 DEF Push!effects
<1>5. CASE UNCHANGED <<s6, s8>> /\ Push!DoesPushed(s6)
  BY <1>1, <1>3, <1>5, PushDoes
<1>6. ASSUME NEW m \in DOMAIN s1, Push!ProcessPush(m)
      PROVE  /\ s6' \in 0 .. Len(s1) /\ s8' \in 0 .. Len(s1)
             /\ s7' \in Seq(Nat) /\ Len(s7') <= PushQueue + 1 /\ s10' \in Seq(Nat)
  <2>1. m \in 0 .. Len(s1) /\ 0 \in 0 .. Len(s1)
    BY <1>2
  <2>2. s6' \in {s6, 0, m} /\ s8' \in {m, s8}
    BY <1>6 DEF Push!ProcessPush, Push!DecodePush
  <2>3. s6' \in 0 .. Len(s1) /\ s8' \in 0 .. Len(s1)
    BY <1>1, <2>1, <2>2
  <2>4. Push!DoesPushed(s6')
    BY <1>6 DEF Push!ProcessPush
  <2>5. PICK q \in 0 .. Len(s1) : q = s6'
    BY <2>3
  <2>6. Push!DoesPushed(q) /\ q \in Nat
    BY <1>3, <2>4, <2>5
  <2> QED BY <2>3, <2>6, PushDoes
<1>7. \/ UNCHANGED Push!effects
      \/ UNCHANGED <<s6, s8>> /\ Push!DoesPushed(s6)
      \/ \E m \in DOMAIN s1 : Push!ProcessPush(m)
  BY DEF Push!Process, Push!Nothing
<1> QED BY <1>4, <1>5, <1>6, <1>7

\* Each action keeps the types.
LEMMA PushTypes ==
  ASSUME PushHolds, Push!Next PROVE PushHolds'
<1>1. /\ s1 \in Seq(Push!Kinds) /\ s2 \in Seq(PushBytes) /\ s3 \in {"first", "head", "body"}
      /\ s4 \in Seq(PushBytes) /\ s5 \in 0 .. PushBody /\ s6 \in 0 .. Len(s1)
      /\ s7 \in Seq(Nat) /\ Len(s7) <= PushQueue + 1 /\ s8 \in 0 .. Len(s1)
      /\ s10 \in Seq(Nat) /\ s11 \subseteq Nat /\ s12 \in BOOLEAN
  BY DEF PushHolds
<1>2. PushHeader \in Nat /\ PushHeader >= 1 /\ PushBody \in Nat /\ PushQueue \in Nat
  BY PushAssumption
<1>3. Len(s1) \in Nat /\ Len(s2) \in Nat /\ <<>> \in Seq(PushBytes) /\ 0 \in 0 .. PushBody
      /\ DOMAIN s10 = 1 .. Len(s10)
  BY <1>1, <1>2, LenProperties, EmptySeq
<1>4. \A i \in DOMAIN s10 : s10[i] \in Nat
  BY <1>1, <1>3, ElementOfSeq
<1> SUFFICES /\ s1' \in Seq(Push!Kinds) /\ s2' \in Seq(PushBytes) /\ s3' \in {"first", "head", "body"}
             /\ s4' \in Seq(PushBytes) /\ s5' \in 0 .. PushBody /\ s6' \in 0 .. Len(s1')
             /\ s7' \in Seq(Nat) /\ Len(s7') <= PushQueue + 1 /\ s8' \in 0 .. Len(s1')
             /\ s10' \in Seq(Nat) /\ s11' \subseteq Nat /\ s12' \in BOOLEAN
  BY DEF PushHolds
<1>5. ASSUME NEW kind \in Push!Kinds, Push!ServerSends(kind)
      PROVE  /\ s1' \in Seq(Push!Kinds) /\ s2' \in Seq(PushBytes) /\ s11' \subseteq Nat
             /\ s6' \in 0 .. Len(s1') /\ s8' \in 0 .. Len(s1')
             /\ UNCHANGED <<s3, s4, s5, s7, s10, s12>>
  <2>1. s1' = Append(s1, kind) /\ s2' = s2 \o Push!Message(Len(s1) + 1, kind)
        /\ UNCHANGED <<s3, s4, s5, s6, s7, s8, s10, s12>>
    BY <1>5 DEF Push!ServerSends, Push!effects
  <2>2. s11' = s11 \/ s11' = s11 \cup {Len(s1) + 1}
    BY <1>5 DEF Push!ServerSends
  <2>3. s1' \in Seq(Push!Kinds) /\ Len(s1') = Len(s1) + 1
    BY <1>1, <2>1, PushAdd
  <2>4. Len(s1) + 1 \in Nat
    BY <1>3
  <2>5. Push!Message(Len(s1) + 1, kind) \in Seq(PushBytes)
    BY <2>4, PushMessage
  <2>6. s2' \in Seq(PushBytes)
    BY <1>1, <2>1, <2>5, ConcatProperties
  <2>7. \A x \in 0 .. Len(s1) : x \in 0 .. Len(s1')
    BY <1>3, <2>3
  <2>8. s11' \subseteq Nat
    BY <1>1, <2>2, <2>4
  <2> QED BY <1>1, <2>1, <2>3, <2>6, <2>7, <2>8
<1>6. CASE Push!ServerBeats
  <2>1. s2' = Append(s2, Push!Heartbeat) /\ UNCHANGED <<s1, s3, s4, s5, s6, s7, s8, s10, s11, s12>>
    BY <1>6 DEF Push!ServerBeats, Push!effects
  <2>2. s2' \in Seq(PushBytes)
    BY <1>1, <2>1, PushByte, PushAdd
  <2> QED BY <1>1, <2>1, <2>2
<1>7. CASE Push!ReadFirst
  <2>1. /\ UNCHANGED <<s1, s6, s7, s8, s10, s11, s12>> /\ s2 # <<>> /\ s2' = Tail(s2)
        /\ s3' \in {"first", "head"} /\ s4' \in {<<>>, <<Head(s2)>>} /\ s5' = 0
    BY <1>7 DEF Push!ReadFirst, Push!Nothing, Push!effects, Push!Server, Push!Return
  <2>2. s2' \in Seq(PushBytes) /\ Head(s2) \in PushBytes
    BY <1>1, <2>1, HeadTailProperties
  <2>3. <<Head(s2)>> \in Seq(PushBytes)
    <3> DEFINE b == Head(s2)
    <3> HIDE DEF b
    <3>1. b \in PushBytes => <<b>> \in Seq(PushBytes)
      OBVIOUS
    <3> QED BY <2>2, <3>1 DEF b
  <2>4. s4' \in Seq(PushBytes) /\ s5' \in 0 .. PushBody /\ s3' \in {"first", "head", "body"}
    BY <1>3, <2>1, <2>3
  <2> QED BY <1>1, <2>1, <2>2, <2>4
<1>8. CASE Push!ReadHead
  <2>1. /\ UNCHANGED <<s1, s6, s7, s8, s10>> /\ Len(s2) >= PushHeader - 1
        /\ s3' \in {"first", "body"} /\ s5' \in 0 .. PushBody
        /\ s4' \in {<<>>, s4 \o SubSeq(s2, 1, PushHeader - 1)}
        /\ s2' \in {<<>>, SubSeq(s2, PushHeader, Len(s2))}
        /\ s11' \in {s11, {s10[i] : i \in DOMAIN s10}} /\ s12' = s12
    <3>1. \A x \in 1 .. PushBody : x \in 0 .. PushBody
      BY <1>2
    <3> QED BY <1>8, <1>3, <3>1 DEF Push!ReadHead, Push!Nothing, Push!effects, Push!Return
  <2> DEFINE n == PushHeader - 1
  <2>2. n \in Nat /\ n <= Len(s2) /\ n + 1 = PushHeader
    BY <1>2, <1>3, <2>1
  <2>3. SubSeq(s2, n + 1, Len(s2)) \in Seq(PushBytes) /\ SubSeq(s2, 1, n) \in Seq(PushBytes)
    <3> HIDE DEF n
    <3> QED BY <1>1, <2>2, PushFront, PushBehind
  <2>4. s4 \o SubSeq(s2, 1, n) \in Seq(PushBytes)
    BY <1>1, <2>3, ConcatProperties
  <2>5. s4' \in Seq(PushBytes) /\ s2' \in Seq(PushBytes) /\ s3' \in {"first", "head", "body"}
    BY <1>3, <2>1, <2>2, <2>3, <2>4
  <2>6. s11' \subseteq Nat
    BY <1>1, <1>4, <2>1
  <2> QED BY <1>1, <2>1, <2>5, <2>6
<1>9. CASE Push!ReadBody
  <2>1. /\ Push!Process(s4 \o SubSeq(s2, 1, s5)) /\ Len(s2) >= s5
        /\ s2' = SubSeq(s2, s5 + 1, Len(s2)) /\ UNCHANGED <<s1, s11, s12>>
        /\ s3' = "first" /\ s4' = <<>> /\ s5' = 0
    BY <1>9 DEF Push!ReadBody, Push!Return, Push!Server
  <2>2. s5 \in Nat /\ s5 <= Len(s2)
    BY <1>1, <1>2, <1>3, <2>1
  <2>3. s2' \in Seq(PushBytes)
    BY <1>1, <2>1, <2>2, PushBehind
  <2>4. /\ s6' \in 0 .. Len(s1) /\ s8' \in 0 .. Len(s1)
        /\ s7' \in Seq(Nat) /\ Len(s7') <= PushQueue + 1 /\ s10' \in Seq(Nat)
    BY <2>1, PushProcess
  <2> QED BY <1>1, <1>3, <2>1, <2>3, <2>4
<1>10. CASE Push!GiveUp
  <2>1. PICK n \in 0 .. Len(s2) : s2' = SubSeq(s2, n + 1, Len(s2))
    BY <1>10 DEF Push!GiveUp
  <2>2. /\ UNCHANGED <<s1, s6, s7, s8, s10, s11>> /\ s3' = "first" /\ s4' = <<>> /\ s5' = 0
    BY <1>10 DEF Push!GiveUp, Push!Nothing, Push!effects, Push!Return
  <2>3. n \in Nat /\ n <= Len(s2)
    BY <1>3
  <2>4. s2' \in Seq(PushBytes)
    BY <1>1, <2>1, <2>3, PushBehind
  <2>5. s12' \in BOOLEAN
    BY <1>10 DEF Push!GiveUp
  <2> QED BY <1>1, <1>3, <2>2, <2>4, <2>5
<1>11. CASE Push!PlayWchatQueue
  <2>1. s7 # <<>> /\ s7' = Tail(s7) /\ UNCHANGED <<s1, s2, s3, s4, s5, s6, s8, s10, s11, s12>>
    BY <1>11 DEF Push!PlayWchatQueue
  <2>2. s7' \in Seq(Nat) /\ Len(s7') = Len(s7) - 1 /\ Len(s7) \in Nat
    BY <1>1, <2>1, HeadTailProperties, LenProperties
  <2>3. Len(s7') <= PushQueue + 1
    BY ONLY <2>2, <1>1, <1>2
  <2> QED BY <1>1, <2>1, <2>2, <2>3
<1>12. CASE \E kind \in Push!Kinds : Push!ServerSends(kind)
  BY <1>1, <1>5, <1>12
<1> QED BY <1>6, <1>7, <1>8, <1>9, <1>10, <1>11, <1>12 DEF Push!Next

\* The message c + 1 pushes nothing the client understands.
LEMMA PushSkips ==
  ASSUME NEW d \in Seq(Nat), NEW q \in Seq(Nat), NEW p \in SUBSET Nat, NEW ks, Len(ks) \in Nat, NEW c \in Nat,
         Push!DoneUpTo(d, q, p, ks, c), c + 1 \in 1 .. Len(ks),
         c + 1 \in p => ks[c + 1] = "odd"
  PROVE  Push!DoneUpTo(d, q, p, ks, c + 1)
<1> DEFINE n == c + 1
<1>1. /\ Push!Increasing(d) /\ Push!Increasing(q)
      /\ \A i \in DOMAIN d : d[i] \in 1 .. c /\ d[i] \in p /\ ks[d[i]] # "odd"
      /\ \A i \in DOMAIN q : q[i] \in 1 .. c
      /\ \A m \in p : m \in 1 .. Len(ks) /\ Push!IsPush(ks[m])
      /\ \A m \in p : m <= c /\ ks[m] # "odd" => \E i \in DOMAIN d : d[i] = m
      /\ \A m \in c + 1 .. Len(ks) : Push!IsPush(ks[m]) => m \in p
  BY DEF Push!DoneUpTo
<1>2. \A x \in 1 .. c : x \in 1 .. n
  OBVIOUS
<1>3. \A x \in n + 1 .. Len(ks) : x \in c + 1 .. Len(ks)
  OBVIOUS
<1>4. \A m \in p : m <= n => m <= c \/ m = n
  OBVIOUS
<1>5. \A m \in p : m <= n /\ ks[m] # "odd" => \E i \in DOMAIN d : d[i] = m
  BY <1>1, <1>4
<1> HIDE DEF n
<1>6. Push!DoneUpTo(d, q, p, ks, n)
  BY <1>1, <1>2, <1>3, <1>5 DEF Push!DoneUpTo
<1> QED BY <1>6 DEF n

\* What a sequence holds when a number is added.
LEMMA PushAdds ==
  ASSUME NEW q \in Seq(Nat), NEW n \in Nat
  PROVE  /\ \A i \in DOMAIN q : i \in DOMAIN Append(q, n) /\ Append(q, n)[i] = q[i]
         /\ \A i \in DOMAIN Append(q, n) : i \in DOMAIN q \/ Append(q, n)[i] = n
         /\ \E i \in DOMAIN Append(q, n) : Append(q, n)[i] = n
<1> DEFINE r == Append(q, n)  l == Len(q)
<1>1. /\ DOMAIN r = 1 .. l + 1 /\ DOMAIN q = 1 .. l /\ l \in Nat
      /\ r[l + 1] = n /\ \A i \in 1 .. l : r[i] = q[i]
  BY PushAdd
<1> HIDE DEF r, l
<1>3. \A i \in DOMAIN r : i \in 1 .. l \/ i = l + 1
  BY <1>1
<1>8. \A i \in 1 .. l : i \in DOMAIN r
  BY <1>1
<1>9. l + 1 \in DOMAIN r
  BY <1>1
<1>10. (\A i \in DOMAIN q : i \in DOMAIN r /\ r[i] = q[i]) /\ \A i \in DOMAIN r : i \in DOMAIN q \/ r[i] = n
  BY <1>1, <1>3, <1>8
<1>11. \E i \in DOMAIN r : r[i] = n
  BY <1>1, <1>9
<1> QED BY <1>10, <1>11 DEF r

\* An increasing sequence of numbers up to c goes on with the next one.
LEMMA PushLonger ==
  ASSUME NEW q \in Seq(Nat), NEW c \in Nat, Push!Increasing(q), \A i \in DOMAIN q : q[i] \in 1 .. c
  PROVE  /\ Push!Increasing(Append(q, c + 1))
         /\ \A i \in DOMAIN Append(q, c + 1) : Append(q, c + 1)[i] \in 1 .. c + 1
<1> DEFINE n == c + 1  r == Append(q, n)  l == Len(q)
<1>1. /\ DOMAIN r = 1 .. l + 1 /\ DOMAIN q = 1 .. l /\ l \in Nat
      /\ r[l + 1] = n /\ \A i \in 1 .. l : r[i] = q[i]
  BY PushAdd
<1>2. n \in Nat /\ n = c + 1 /\ n \in 1 .. n
  OBVIOUS
<1> HIDE DEF r, l, n
<1>3. \A i \in DOMAIN r : i \in 1 .. l \/ i = l + 1
  BY <1>1
<1>4. \A i \in 1 .. l : q[i] \in 1 .. c /\ q[i] \in 1 .. n /\ q[i] < n
  <2>1. \A x \in 1 .. c : x \in 1 .. n /\ x < n
    BY ONLY <1>2, c \in Nat
  <2> QED BY <1>1, <2>1
<1>5. \A i \in DOMAIN r : r[i] \in 1 .. n
  BY <1>1, <1>2, <1>3, <1>4
<1>6. ASSUME NEW i \in DOMAIN r, NEW j \in DOMAIN r, i < j PROVE r[i] < r[j]
  <2>1. i \in 1 .. l
    BY ONLY <1>1, <1>6, i \in DOMAIN r, j \in DOMAIN r
  <2>2. CASE j \in 1 .. l
    <3>1. q[i] < q[j]
      BY <1>1, <1>6, <2>1, <2>2 DEF Push!Increasing
    <3> QED BY <1>1, <2>1, <2>2, <3>1
  <2>3. CASE j = l + 1
    BY <1>1, <1>4, <2>1, <2>3
  <2> QED BY <1>3, <2>2, <2>3
<1>7. Push!Increasing(r)
  BY <1>6 DEF Push!Increasing
<1> QED BY <1>5, <1>7 DEF r, n

\* The message c + 1 is done, and a voice message waits to be heard.
LEMMA PushNotes ==
  ASSUME NEW d \in Seq(Nat), NEW q \in Seq(Nat), NEW p \in SUBSET Nat, NEW ks, Len(ks) \in Nat, NEW c \in Nat,
         Push!DoneUpTo(d, q, p, ks, c), c + 1 \in 1 .. Len(ks),
         Push!IsPush(ks[c + 1]), ks[c + 1] # "odd", NEW q2 \in {q, Append(q, c + 1)}
  PROVE  Push!DoneUpTo(Append(d, c + 1), q2, p, ks, c + 1)
<1> DEFINE n == c + 1  r == Append(d, n)
<1>1. /\ Push!Increasing(d) /\ Push!Increasing(q)
      /\ \A i \in DOMAIN d : d[i] \in 1 .. c /\ d[i] \in p /\ ks[d[i]] # "odd"
      /\ \A i \in DOMAIN q : q[i] \in 1 .. c
      /\ \A m \in p : m \in 1 .. Len(ks) /\ Push!IsPush(ks[m])
      /\ \A m \in p : m <= c /\ ks[m] # "odd" => \E i \in DOMAIN d : d[i] = m
      /\ \A m \in c + 1 .. Len(ks) : Push!IsPush(ks[m]) => m \in p
  BY DEF Push!DoneUpTo
<1>2. \A x \in 1 .. c : x \in 1 .. n
  OBVIOUS
<1>3. (\A x \in n + 1 .. Len(ks) : x \in c + 1 .. Len(ks)) /\ n \in c + 1 .. Len(ks)
  OBVIOUS
<1>4. \A m \in p : m <= n => m <= c \/ m = n
  OBVIOUS
<1>5. n \in p
  BY <1>1, <1>3
<1>6. /\ Push!Increasing(r) /\ (\A i \in DOMAIN r : r[i] \in 1 .. n)
      /\ (\A i \in DOMAIN d : i \in DOMAIN r /\ r[i] = d[i])
      /\ (\A i \in DOMAIN r : i \in DOMAIN d \/ r[i] = n) /\ \E i \in DOMAIN r : r[i] = n
  <2>1. Push!Increasing(d) /\ \A i \in DOMAIN d : d[i] \in 1 .. c
    BY <1>1
  <2>2. /\ Push!Increasing(Append(d, c + 1))
        /\ \A i \in DOMAIN Append(d, c + 1) : Append(d, c + 1)[i] \in 1 .. c + 1
    BY <2>1, PushLonger
  <2>3. n \in Nat
    OBVIOUS
  <2>4. /\ \A i \in DOMAIN d : i \in DOMAIN r /\ r[i] = d[i]
        /\ \A i \in DOMAIN r : i \in DOMAIN d \/ r[i] = n
        /\ \E i \in DOMAIN r : r[i] = n
    BY <2>3, PushAdds
  <2> QED BY <2>2, <2>4
<1>7. Push!Increasing(q2) /\ \A i \in DOMAIN q2 : q2[i] \in 1 .. n
  <2>1. CASE q2 = q
    BY <1>1, <1>2, <2>1
  <2>2. CASE q2 = Append(q, n)
    BY <1>1, <2>2, PushLonger
  <2> QED BY <2>1, <2>2
<1>8. ks[n] # "odd"
  OBVIOUS
<1> HIDE DEF n, r
<1>9. \A i \in DOMAIN r : r[i] \in p /\ ks[r[i]] # "odd"
  BY <1>1, <1>5, <1>6, <1>8
<1>10. \A m \in p : m <= n /\ ks[m] # "odd" => \E i \in DOMAIN r : r[i] = m
  BY <1>1, <1>4, <1>6
<1>11. Push!DoneUpTo(r, q2, p, ks, n)
  BY <1>1, <1>3, <1>6, <1>7, <1>9, <1>10 DEF Push!DoneUpTo
<1> QED BY <1>11 DEF n, r

\* The server sends one message more.
LEMMA PushOffers ==
  ASSUME NEW d \in Seq(Nat), NEW q \in Seq(Nat), NEW p \in SUBSET Nat,
         NEW ks \in Seq(Push!Kinds), NEW kind \in Push!Kinds, NEW c \in Nat, c <= Len(ks),
         Push!DoneUpTo(d, q, p, ks, c)
  PROVE  Push!DoneUpTo(d, q, IF Push!IsPush(kind) THEN p \cup {Len(ks) + 1} ELSE p, Append(ks, kind), c)
<1> DEFINE n == Len(ks) + 1  hs == Append(ks, kind)  p2 == IF Push!IsPush(kind) THEN p \cup {n} ELSE p
<1>1. /\ Push!Increasing(d) /\ Push!Increasing(q)
      /\ \A i \in DOMAIN d : d[i] \in 1 .. c /\ d[i] \in p /\ ks[d[i]] # "odd"
      /\ \A i \in DOMAIN q : q[i] \in 1 .. c
      /\ \A m \in p : m \in 1 .. Len(ks) /\ Push!IsPush(ks[m])
      /\ \A m \in p : m <= c /\ ks[m] # "odd" => \E i \in DOMAIN d : d[i] = m
      /\ \A m \in c + 1 .. Len(ks) : Push!IsPush(ks[m]) => m \in p
  BY DEF Push!DoneUpTo
<1>2. Len(ks) \in Nat /\ Len(hs) = n /\ hs[n] = kind /\ \A m \in 1 .. Len(ks) : hs[m] = ks[m]
  BY PushAdd
<1>3. n \in Nat /\ n \in 1 .. n /\ (\A m \in 1 .. Len(ks) : m \in 1 .. n) /\ ~(n <= c)
      /\ (\A m \in c + 1 .. n : m \in c + 1 .. Len(ks) \/ m = n)
      /\ (\A m \in c + 1 .. Len(ks) : m \in 1 .. Len(ks)) /\ \A m \in 1 .. c : m \in 1 .. Len(ks)
  BY <1>2
<1> HIDE DEF hs, n
<1>4. (\A m \in p : m \in p2) /\ (\A m \in p2 : m \in p \/ (m = n /\ Push!IsPush(kind)))
      /\ (Push!IsPush(kind) => n \in p2)
  OBVIOUS
<1> HIDE DEF p2
<1>5. \A i \in DOMAIN d : d[i] \in 1 .. c /\ d[i] \in p2 /\ hs[d[i]] # "odd"
  BY <1>1, <1>2, <1>4
<1>6. \A m \in p2 : m \in 1 .. n /\ Push!IsPush(hs[m])
  BY <1>1, <1>2, <1>3, <1>4
<1>7. \A m \in p2 : m <= c /\ hs[m] # "odd" => \E i \in DOMAIN d : d[i] = m
  BY <1>1, <1>2, <1>3, <1>4
<1>8. \A m \in c + 1 .. n : Push!IsPush(hs[m]) => m \in p2
  BY <1>1, <1>2, <1>3, <1>4
<1>9. Push!DoneUpTo(d, q, p2, hs, c)
  BY <1>1, <1>2, <1>5, <1>6, <1>7, <1>8 DEF Push!DoneUpTo
<1> QED BY <1>9 DEF p2, hs, n

\* The connection is made anew: what was not done will not be.
LEMMA PushLoses ==
  ASSUME NEW d \in Seq(Nat), NEW q, NEW p, NEW ks, Len(ks) \in Nat, NEW c \in Nat, c <= Len(ks),
         Push!DoneUpTo(d, q, p, ks, c)
  PROVE  Push!DoneUpTo(d, q, {d[i] : i \in DOMAIN d}, ks, Len(ks))
<1> DEFINE p2 == {d[i] : i \in DOMAIN d}
<1>1. /\ Push!Increasing(d) /\ Push!Increasing(q)
      /\ \A i \in DOMAIN d : d[i] \in 1 .. c /\ d[i] \in p /\ ks[d[i]] # "odd"
      /\ \A i \in DOMAIN q : q[i] \in 1 .. c
      /\ \A m \in p : m \in 1 .. Len(ks) /\ Push!IsPush(ks[m])
  BY DEF Push!DoneUpTo
<1>2. (\A x \in 1 .. c : x \in 1 .. Len(ks)) /\ \A x \in Len(ks) + 1 .. Len(ks) : FALSE
  OBVIOUS
<1>3. (\A i \in DOMAIN d : d[i] \in p2) /\ \A m \in p2 : m \in p /\ \E i \in DOMAIN d : d[i] = m
  BY <1>1
<1> HIDE DEF p2
<1>4. Push!DoneUpTo(d, q, p2, ks, Len(ks))
  BY <1>1, <1>2, <1>3 DEF Push!DoneUpTo
<1> QED BY <1>4 DEF p2

\* The child hears what has waited longest.
LEMMA PushHears ==
  ASSUME NEW d, NEW q \in Seq(Nat), NEW p, NEW ks, NEW c, Push!DoneUpTo(d, q, p, ks, c), q # <<>>
  PROVE  Push!DoneUpTo(d, Tail(q), p, ks, c)
<1> DEFINE r == Tail(q)
<1>1. Push!Increasing(q) /\ \A i \in DOMAIN q : q[i] \in 1 .. c
  BY DEF Push!DoneUpTo
<1>2. r \in Seq(Nat) /\ Len(r) = Len(q) - 1 /\ \A i \in 1 .. Len(r) : r[i] = q[i + 1]
  BY HeadTailProperties
<1> HIDE DEF r
<1>3. DOMAIN r = 1 .. Len(r) /\ DOMAIN q = 1 .. Len(q) /\ Len(q) \in Nat
  BY <1>2, LenProperties
<1>4. \A i \in DOMAIN r : i + 1 \in DOMAIN q /\ r[i] = q[i + 1]
  <2>1. \A i \in 1 .. Len(r) : i + 1 \in 1 .. Len(q)
    BY ONLY <1>2, <1>3
  <2> QED BY <1>2, <1>3, <2>1
<1>5. ASSUME NEW i \in DOMAIN r, NEW j \in DOMAIN r, i < j PROVE r[i] < r[j]
  <2>1. i + 1 < j + 1
    BY ONLY <1>2, <1>3, <1>5, i \in DOMAIN r, j \in DOMAIN r
  <2>2. q[i + 1] < q[j + 1]
    BY <1>1, <1>4, <2>1 DEF Push!Increasing
  <2> QED BY <1>4, <2>2
<1>6. Push!Increasing(r) /\ \A i \in DOMAIN r : r[i] \in 1 .. c
  BY <1>1, <1>4, <1>5 DEF Push!Increasing
<1>7. Push!DoneUpTo(d, r, p, ks, c)
  BY <1>6 DEF Push!DoneUpTo
<1> QED BY <1>7 DEF r

\* The client is in the stream behind the message c, and what it should have
\* done is done.
PushAt(c) == Push!ReadUpTo(c) /\ Push!DoneUpTo(s10, s7, s11, s1, c)

\* The server adds a message.
LEMMA PushSends ==
  ASSUME PushHolds, NEW c \in 0 .. Len(s1), PushAt(c), NEW kind \in Push!Kinds, Push!ServerSends(kind)
  PROVE  c \in 0 .. Len(s1') /\ PushAt(c)'
<1>1. /\ s1' = Append(s1, kind) /\ s2' = s2 \o Push!Message(Len(s1) + 1, kind)
      /\ UNCHANGED <<s3, s4, s5, s7, s10>>
      /\ s11' = IF Push!IsPush(kind) THEN s11 \cup {Len(s1) + 1} ELSE s11
  BY DEF Push!ServerSends, Push!effects
<1>2. /\ s1 \in Seq(Push!Kinds) /\ s2 \in Seq(PushBytes) /\ s11 \in SUBSET Nat
      /\ s7 \in Seq(Nat) /\ s10 \in Seq(Nat)
  BY DEF PushHolds
<1>3. Len(s1) \in Nat /\ Len(s2) \in Nat /\ 0 <= Len(s2)
  BY <1>2, LenProperties
<1>4. c \in Nat /\ c <= Len(s1) /\ Len(s1') = Len(s1) + 1 /\ \A i \in 1 .. Len(s1) : s1'[i] = s1[i]
  BY <1>1, <1>2, <1>3, PushAdd
<1>5. c \in 0 .. Len(s1')
  BY <1>3, <1>4
<1>6. Push!DoneUpTo(s10, s7, s11, s1, c)
  BY DEF PushAt
<1>7. Push!DoneUpTo(s10', s7', s11', s1', c)
  <2>1. Push!DoneUpTo(s10, s7, IF Push!IsPush(kind) THEN s11 \cup {Len(s1) + 1} ELSE s11, Append(s1, kind), c)
    BY <1>2, <1>4, <1>6, PushOffers
  <2> QED BY <1>1, <2>1
<1>8. s3 = "first" => Push!Aligned(s2', 0, s1', c)
  <2>1. SUFFICES ASSUME s3 = "first" PROVE Push!Aligned(s2', 0, s1', c)
    OBVIOUS
  <2>2. Push!Aligned(s2, 0, s1, c)
    BY <2>1 DEF PushAt, Push!ReadUpTo
  <2>3. Push!Aligned(s2 \o Push!Message(Len(s1) + 1, kind), 0, Append(s1, kind), c)
    BY <1>2, <1>3, <1>4, <2>2, PushGrows
  <2> QED BY <1>1, <2>3
<1>9. ASSUME NEW had \in Nat, had <= PushHeader, Push!Begun(s4, s2, s1, c + 1, had)
      PROVE  Push!Begun(s4', s2', s1', c + 1, had)
  <2>1. had <= Push!Long(s1[c + 1])
    <3>1. /\ PushHeader \in Nat /\ Push!Len2(s1[c + 1]) \in Nat
          /\ Push!Long(s1[c + 1]) = PushHeader + Push!Len2(s1[c + 1])
      BY PushLong
    <3> QED BY ONLY <3>1, <1>9, had \in Nat
  <2>2. Push!Begun(s4, s2 \o Push!Message(Len(s1) + 1, kind), Append(s1, kind), c + 1, had)
    BY <1>2, <1>9, <2>1, PushWaits
  <2> QED BY <1>1, <2>2
<1>10. s3 = "head" => Push!Begun(s4', s2', s1', c + 1, 1)
  <2>1. SUFFICES ASSUME s3 = "head" PROVE Push!Begun(s4', s2', s1', c + 1, 1)
    OBVIOUS
  <2>2. Push!Begun(s4, s2, s1, c + 1, 1)
    BY <2>1 DEF PushAt, Push!ReadUpTo
  <2>3. 1 <= PushHeader
    BY PushAssumption
  <2> QED BY <1>9, <2>2, <2>3
<1>11. s3 = "body" => /\ Push!Begun(s4', s2', s1', c + 1, PushHeader)
                      /\ s5' = PushBody /\ Push!Len2(s1'[c + 1]) = PushBody
  <2>1. SUFFICES ASSUME s3 = "body"
                 PROVE  /\ Push!Begun(s4', s2', s1', c + 1, PushHeader)
                        /\ s5' = PushBody /\ Push!Len2(s1'[c + 1]) = PushBody
    OBVIOUS
  <2>2. Push!Begun(s4, s2, s1, c + 1, PushHeader) /\ s5 = PushBody /\ Push!Len2(s1[c + 1]) = PushBody
    BY <2>1 DEF PushAt, Push!ReadUpTo
  <2>3. PushHeader \in Nat /\ PushHeader <= PushHeader
    BY PushAssumption
  <2>4. c + 1 \in 1 .. Len(s1)
    BY <2>2 DEF Push!Begun
  <2>5. s1'[c + 1] = s1[c + 1]
    BY <1>4, <2>4
  <2> QED BY <1>1, <1>9, <2>2, <2>3, <2>5
<1>12. Push!ReadUpTo(c)'
  BY <1>1, <1>8, <1>10, <1>11 DEF Push!ReadUpTo
<1> QED BY <1>5, <1>7, <1>12 DEF PushAt

\* A heartbeat follows, or goes by.
LEMMA PushHeartbeat ==
  ASSUME PushHolds, NEW c \in 0 .. Len(s1), PushAt(c), Push!ServerBeats
  PROVE  PushAt(c)'
<1>1. s2' = Append(s2, Push!Heartbeat) /\ UNCHANGED <<s1, s3, s4, s5, s7, s10, s11>>
  BY DEF Push!ServerBeats, Push!effects
<1>2. s1 \in Seq(Push!Kinds) /\ s2 \in Seq(PushBytes)
  BY DEF PushHolds
<1>3. Len(s2) \in Nat /\ 0 <= Len(s2)
  BY <1>2, LenProperties
<1>4. Push!DoneUpTo(s10', s7', s11', s1', c)
  BY <1>1 DEF PushAt
<1>5. s3 = "first" => Push!Aligned(s2', 0, s1', c)
  BY <1>1, <1>2, <1>3, PushBeats DEF PushAt, Push!ReadUpTo
<1>6. ASSUME NEW had \in Nat, had <= PushHeader, Push!Begun(s4, s2, s1, c + 1, had)
      PROVE  Push!Begun(s4', s2', s1', c + 1, had)
  <2>1. had <= Push!Long(s1[c + 1])
    <3>1. /\ PushHeader \in Nat /\ Push!Len2(s1[c + 1]) \in Nat
          /\ Push!Long(s1[c + 1]) = PushHeader + Push!Len2(s1[c + 1])
      BY PushLong
    <3> QED BY ONLY <3>1, <1>6, had \in Nat
  <2>2. "file" \in Push!Kinds
    BY DEF Push!Kinds
  <2>3. Push!Begun(s4, Append(s2, Push!Heartbeat), s1, c + 1, had)
    BY <1>2, <1>6, <2>1, <2>2, PushWaits
  <2> QED BY <1>1, <2>3
<1>7. 1 <= PushHeader /\ PushHeader \in Nat /\ PushHeader <= PushHeader
  BY PushAssumption
<1>8. s3 = "head" => Push!Begun(s4', s2', s1', c + 1, 1)
  BY <1>6, <1>7 DEF PushAt, Push!ReadUpTo
<1>9. s3 = "body" => /\ Push!Begun(s4', s2', s1', c + 1, PushHeader)
                      /\ s5' = PushBody /\ Push!Len2(s1'[c + 1]) = PushBody
  BY <1>1, <1>6, <1>7 DEF PushAt, Push!ReadUpTo
<1>10. Push!ReadUpTo(c)'
  BY <1>1, <1>5, <1>8, <1>9 DEF Push!ReadUpTo
<1> QED BY <1>4, <1>10 DEF PushAt

\* The first byte: of the next message, or a heartbeat's.
LEMMA PushFirst ==
  ASSUME PushHolds, NEW c \in 0 .. Len(s1), PushAt(c), Push!ReadFirst
  PROVE  PushAt(c)'
<1>1. /\ s3 = "first" /\ s2 # <<>> /\ s2' = Tail(s2) /\ UNCHANGED <<s1, s7, s10, s11>>
      /\ IF Push!IsZero(Head(s2)) THEN s3' = "head" /\ s4' = <<Head(s2)>> ELSE s3' = "first"
  BY DEF Push!ReadFirst, Push!Nothing, Push!effects, Push!Server, Push!Return
<1>2. s1 \in Seq(Push!Kinds) /\ s2 \in Seq(PushBytes)
  BY DEF PushHolds
<1>3. /\ Len(s2) \in Nat /\ Len(s2) >= 1 /\ Head(s2) = s2[1] /\ s2[1] \in PushBytes
      /\ Len(s1) \in Nat /\ c \in Nat
  <2>1. Len(s2) \in Nat /\ Len(s1) \in Nat
    BY <1>2, LenProperties
  <2>2. Len(s2) >= 1
    BY <1>1, <1>2, <2>1
  <2>3. s2[1] \in PushBytes
    BY <1>2, <2>1, <2>2, ElementOfSeq
  <2> QED BY <2>1, <2>2, <2>3
<1>4. s2' = SubSeq(s2, 1 + 1, Len(s2))
  BY <1>1, <1>2, TailIsSubSeq
<1>5. Push!Aligned(s2, 0, s1, c)
  BY <1>1 DEF PushAt, Push!ReadUpTo
<1>6. Push!DoneUpTo(s10', s7', s11', s1', c)
  BY <1>1 DEF PushAt
<1>7. CASE Push!IsZero(s2[1])
  <2> DEFINE m == c + 1
  <2>1. /\ m \in 1 .. Len(s1) /\ Push!Long(s1[m]) <= Len(s2)
        /\ \A k \in 1 .. Push!Long(s1[m]) : s2[k] = Push!Byte(m, k)
        /\ Push!Aligned(s2, Push!Long(s1[m]), s1, m)
    BY <1>2, <1>3, <1>5, <1>7, PushNext
  <2>2. m \in Nat /\ Push!Long(s1[m]) \in Nat /\ 0 + 1 <= Push!Long(s1[m]) /\ 0 \in Nat /\ 1 \in Nat /\ 0 + 1 = 1
    BY <1>3, PushLong
  <2> HIDE DEF m
  <2>3. Push!Begun(<<>>, s2, s1, m, 0)
    <3>1. /\ Push!Long(s1[m]) - 0 = Push!Long(s1[m]) /\ (\A k \in 1 .. 0 : FALSE) /\ Len(<<>>) = 0
          /\ \A k \in 0 + 1 .. Push!Long(s1[m]) : k - 0 = k /\ k \in 1 .. Push!Long(s1[m])
      BY <2>2
    <3> QED BY <2>1, <3>1 DEF Push!Begun
  <2>4. Push!Begun(<<>> \o SubSeq(s2, 1, 1), SubSeq(s2, 1 + 1, Len(s2)), s1, m, 0 + 1)
    <3>1. <<>> \in Seq(PushBytes)
      BY EmptySeq
    <3> QED BY <1>2, <2>2, <2>3, <3>1, PushOn
  <2>5. <<>> \o SubSeq(s2, 1, 1) = <<s2[1]>>
    <3>1. SubSeq(s2, 1, 1) = <<s2[1]>>
      <4>1. SubSeq(s2, 1, 1) \in Seq(PushBytes) /\ Len(SubSeq(s2, 1, 1)) = 1 /\ SubSeq(s2, 1, 1)[1] = s2[1]
        BY <1>2, <1>3, PushFront
      <4>2. <<s2[1]>> \in Seq(PushBytes) /\ Len(<<s2[1]>>) = 1 /\ <<s2[1]>>[1] = s2[1]
        BY <1>3
      <4> DEFINE x == SubSeq(s2, 1, 1)  y == <<s2[1]>>
      <4> HIDE DEF x, y
      <4>3. \A i \in 1 .. Len(x) : x[i] = y[i]
        BY <4>1, <4>2 DEF x, y
      <4>4. x = y
        BY <4>1, <4>2, <4>3, SeqEqual DEF x, y
      <4> QED BY <4>4 DEF x, y
    <3>2. <<>> \o <<s2[1]>> = <<s2[1]>>
      OBVIOUS
    <3> QED BY <3>1, <3>2
  <2>6. Push!Begun(s4', s2', s1', m, 1)
    BY <1>1, <1>3, <1>4, <1>7, <2>2, <2>4, <2>5
  <2> QED BY <1>1, <1>3, <1>6, <1>7, <2>6 DEF PushAt, Push!ReadUpTo, m
<1>8. CASE ~Push!IsZero(s2[1])
  <2>1. Push!Aligned(s2, 1, s1, c)
    BY <1>2, <1>3, <1>5, <1>8, PushBeat
  <2>2. Push!Aligned(SubSeq(s2, 1 + 1, Len(s2)), 1 - 1, s1, c)
    <3>1. 1 \in Nat /\ 1 <= 1 /\ 1 <= Len(s2)
      BY <1>3
    <3> QED BY <1>2, <1>3, <2>1, <3>1, PushShift
  <2>3. Push!Aligned(s2', 0, s1', c)
    <3>1. 1 - 1 = 0 /\ s1' = s1
      BY <1>1
    <3> QED BY <1>4, <2>2, <3>1
  <2> QED BY <1>1, <1>3, <1>6, <1>8, <2>3 DEF PushAt, Push!ReadUpTo
<1> QED BY <1>7, <1>8

\* The header: it is the one of the message that was begun.
LEMMA PushHead ==
  ASSUME PushHolds, NEW c \in 0 .. Len(s1), PushAt(c), Push!ReadHead
  PROVE  \E d \in 0 .. Len(s1') : PushAt(d)'
<1> DEFINE m == c + 1  n == PushHeader - 1  bytes == s4 \o SubSeq(s2, 1, n)  rest == SubSeq(s2, n + 1, Len(s2))
           len == Push!Len2(s1[m])
<1>1. PushHeader \in Nat /\ PushHeader >= 1 /\ n \in Nat /\ 1 + n = PushHeader /\ n + 1 = PushHeader /\ PushBody \in Nat
  BY PushAssumption
<1>2. /\ s1 \in Seq(Push!Kinds) /\ s2 \in Seq(PushBytes) /\ s4 \in Seq(PushBytes)
      /\ s7 \in Seq(Nat) /\ s10 \in Seq(Nat) /\ s11 \in SUBSET Nat
  BY DEF PushHolds
<1>3. Len(s1) \in Nat /\ c \in Nat /\ c <= Len(s1) /\ m \in Nat /\ m = c + 1
  BY <1>2, LenProperties
<1>4. s3 = "head" /\ UNCHANGED <<s1, s7, s10>>
  BY DEF Push!ReadHead, Push!Nothing, Push!effects
<1>5. \E l \in Push!Lengths(s4 \o SubSeq(s2, 1, PushHeader - 1)) :
           IF l \in 1 .. PushBody
             THEN /\ s3' = "body" /\ s4' = s4 \o SubSeq(s2, 1, PushHeader - 1) /\ s5' = l
                  /\ s2' = SubSeq(s2, PushHeader, Len(s2)) /\ UNCHANGED s11
           ELSE IF l = 0
             THEN s3' = "first" /\ s2' = SubSeq(s2, PushHeader, Len(s2)) /\ UNCHANGED s11
           ELSE s3' = "first" /\ s2' = <<>> /\ s11' = {s10[i] : i \in DOMAIN s10}
  BY DEF Push!ReadHead, Push!Return
<1>6. Push!Begun(s4, s2, s1, m, 1) /\ Push!DoneUpTo(s10, s7, s11, s1, c)
  BY <1>4 DEF PushAt, Push!ReadUpTo
<1>7. m \in 1 .. Len(s1)
  BY <1>6 DEF Push!Begun
<1>8. Push!Long(s1[m]) = PushHeader + len /\ len \in Nat /\ Push!Long(s1[m]) \in Nat
  BY PushLong
<1>9. 1 + n <= Push!Long(s1[m]) /\ PushHeader <= Push!Long(s1[m])
  BY ONLY <1>1, <1>8
<1> HIDE DEF n, m, len
<1>10. n <= Len(s2) /\ Push!Begun(bytes, rest, s1, m, 1 + n)
  BY <1>1, <1>2, <1>3, <1>6, <1>9, PushOn
<1>11. Push!Begun(bytes, rest, s1, m, PushHeader)
  BY <1>1, <1>10
<1>12. bytes \in Seq(PushBytes)
  BY <1>1, <1>2, <1>10, PushFront, ConcatProperties
<1>13. bytes = s4 \o SubSeq(s2, 1, PushHeader - 1) /\ rest = SubSeq(s2, PushHeader, Len(s2))
  BY <1>1 DEF n
<1> HIDE DEF bytes, rest
<1>14. bytes = PushStart(m, s1[m], PushHeader)
  BY <1>1, <1>3, <1>9, <1>11, <1>12, PushMade
<1>15. Push!Lengths(bytes) = {len}
  <2> DEFINE whose == {x \in DOMAIN s1 : bytes = SubSeq(Push!Message(x, s1[x]), 1, PushHeader)}
  <2>1. DOMAIN s1 = 1 .. Len(s1)
    BY <1>2, LenProperties
  <2>2. \A x \in DOMAIN s1 : x \in Nat
    BY <2>1
  <2>3. \A x \in DOMAIN s1 : bytes = SubSeq(Push!Message(x, s1[x]), 1, PushHeader) => x = m
    BY <1>3, <1>14, <2>2, PushTells DEF PushStart
  <2>4. m \in DOMAIN s1
    BY <1>7, <2>1
  <2>5. whose = {m}
    BY <1>14, <2>3, <2>4 DEF PushStart
  <2>6. Push!Lengths(bytes) = IF whose = {} THEN 0 .. PushBody + 1 ELSE {Push!Len2(s1[x]) : x \in whose}
    BY DEF Push!Lengths
  <2> HIDE DEF whose
  <2> QED BY <2>5, <2>6 DEF len
<1>16. IF len \in 1 .. PushBody
         THEN s3' = "body" /\ s4' = bytes /\ s5' = len /\ s2' = rest /\ UNCHANGED s11
       ELSE IF len = 0
         THEN s3' = "first" /\ s2' = rest /\ UNCHANGED s11
       ELSE s3' = "first" /\ s2' = <<>> /\ s11' = {s10[i] : i \in DOMAIN s10}
  BY <1>5, <1>13, <1>15
<1>17. CASE len \in 1 .. PushBody
  <2>1. s3' = "body" /\ s4' = bytes /\ s5' = len /\ s2' = rest /\ UNCHANGED s11
    BY <1>16, <1>17
  <2>2. len = PushBody
    <3>1. s1[m] # "empty" /\ s1[m] # "long"
      BY <1>17, <1>1 DEF len, Push!Len2
    <3> QED BY <3>1 DEF len, Push!Len2
  <2>3. Push!Begun(s4', s2', s1', c + 1, PushHeader)
    BY <1>3, <1>4, <1>11, <2>1
  <2>4. s5' = PushBody /\ Push!Len2(s1'[c + 1]) = PushBody
    BY <1>3, <1>4, <2>1, <2>2 DEF len
  <2>5. Push!ReadUpTo(c)'
    BY <2>1, <2>3, <2>4 DEF Push!ReadUpTo
  <2>6. Push!DoneUpTo(s10', s7', s11', s1', c) /\ c \in 0 .. Len(s1')
    BY <1>4, <1>6, <2>1
  <2> QED BY <2>5, <2>6 DEF PushAt
<1>18. CASE len = 0
  <2>1. s3' = "first" /\ s2' = rest /\ UNCHANGED s11
    <3>1. 0 \notin 1 .. PushBody
      BY <1>1
    <3> QED BY <1>16, <1>18, <3>1
  <2>2. Push!Aligned(rest, 0, s1, m)
    <3>1. PushHeader = Push!Long(s1[m])
      BY ONLY <1>1, <1>8, <1>18
    <3>2. Push!Begun(bytes, rest, s1, m, Push!Long(s1[m])) /\ m \in Nat
      BY <1>3, <1>11, <3>1
    <3> QED BY <1>12, <3>2, PushReads
  <2>3. m \in s11 => Push!IsPush(s1[m])
    BY <1>6 DEF Push!DoneUpTo
  <2>4. ~(m \in s11) \/ s1[m] = "odd"
    <3>1. CASE Push!IsPush(s1[m])
      <4>1. len = PushBody
        BY <3>1 DEF len, Push!Len2, Push!IsPush
      <4> QED BY <1>18, <4>1, PushAssumption
    <3>2. CASE ~Push!IsPush(s1[m])
      BY <2>3, <3>2
    <3> QED BY <3>1, <3>2
  <2>5. Push!DoneUpTo(s10, s7, s11, s1, c + 1)
    BY <1>2, <1>3, <1>6, <1>7, <2>4, PushSkips
  <2>6. Push!DoneUpTo(s10', s7', s11', s1', m)
    BY <1>3, <1>4, <2>1, <2>5
  <2>7. Push!ReadUpTo(m)'
    BY <1>4, <2>1, <2>2 DEF Push!ReadUpTo
  <2>8. m \in 0 .. Len(s1')
    BY <1>3, <1>4, <1>7
  <2> QED BY <2>6, <2>7, <2>8 DEF PushAt
<1>19. CASE ~(len \in 1 .. PushBody) /\ len # 0
  <2>1. s3' = "first" /\ s2' = <<>> /\ s11' = {s10[i] : i \in DOMAIN s10}
    BY <1>16, <1>19
  <2> DEFINE d == Len(s1)
  <2>2. Push!DoneUpTo(s10, s7, {s10[i] : i \in DOMAIN s10}, s1, d)
    BY <1>2, <1>3, <1>6, PushLoses
  <2>3. d \in 0 .. Len(s1') /\ Len(s1') = d
    BY <1>3, <1>4
  <2> HIDE DEF d
  <2>4. Push!DoneUpTo(s10', s7', s11', s1', d)
    BY <1>4, <2>1, <2>2
  <2>5. Push!Aligned(s2', 0, s1', d)
    <3>1. Len(s2') = 0 /\ (\A i \in 0 + 1 .. 0 : FALSE) /\ \A i \in d + 1 .. Len(s1') : FALSE
      BY <1>3, <2>1, <2>3
    <3> QED BY <3>1 DEF Push!Aligned
  <2>6. PICK e \in 0 .. Len(s1') : e = d
    BY <2>3
  <2>7. Push!ReadUpTo(e)'
    BY <2>1, <2>5, <2>6 DEF Push!ReadUpTo
  <2>8. PushAt(e)'
    BY <2>4, <2>6, <2>7 DEF PushAt
  <2> QED BY <2>8
<1> QED BY <1>17, <1>18, <1>19

\* What the message c + 1 pushed is done.
LEMMA PushMeans ==
  ASSUME PushHolds, NEW c \in Nat, Push!DoneUpTo(s10, s7, s11, s1, c), c + 1 \in 1 .. Len(s1),
         s1[c + 1] # "bad", Push!IsPush(s1[c + 1]), Push!ProcessPush(c + 1), UNCHANGED <<s1, s11>>
  PROVE  Push!DoneUpTo(s10', s7', s11', s1', c + 1)
<1> DEFINE m == c + 1
<1>1. s1 \in Seq(Push!Kinds) /\ s7 \in Seq(Nat) /\ s10 \in Seq(Nat) /\ s11 \in SUBSET Nat
  BY DEF PushHolds
<1>2. Len(s1) \in Nat /\ DOMAIN s1 = 1 .. Len(s1)
  BY <1>1, LenProperties
<1>3. m # 0 /\ ~(0 \in DOMAIN s1) /\ m = c + 1
  BY <1>2
<1> HIDE DEF m
<1>4. Push!DecodePush(m) /\ Push!DoesPushed(s6')
  BY <1>3 DEF Push!ProcessPush
<1>5. CASE s1[m] = "odd"
  <2>1. s6' = 0
    BY <1>4, <1>5 DEF Push!DecodePush
  <2>2. s10' = s10 /\ s7' = s7
    BY <1>3, <1>4, <2>1 DEF Push!DoesPushed, Push!Is
  <2>3. Push!DoneUpTo(s10, s7, s11, s1, c + 1)
    BY <1>1, <1>2, <1>3, <1>5, PushSkips
  <2> QED BY <2>2, <2>3
<1>6. CASE s1[m] # "odd"
  <2>1. s6' = m
    BY <1>3, <1>4, <1>6 DEF Push!DecodePush
  <2>2. s10' = Append(s10, m) /\ (s7' = s7 \/ s7' = Push!Queued(m))
    BY <1>3, <1>4, <2>1 DEF Push!DoesPushed
  <2>3. s7' \in {s7, Append(s7, m)}
    BY <2>2 DEF Push!Queued
  <2>4. PICK q \in {s7, Append(s7, m)} : q = s7'
    BY <2>3
  <2>5. Push!DoneUpTo(Append(s10, c + 1), q, s11, s1, c + 1)
    BY <1>1, <1>2, <1>3, <1>6, <2>4, PushNotes
  <2> QED BY <1>3, <2>2, <2>4, <2>5
<1> QED BY <1>5, <1>6

\* The body: the message is whole, and what it pushes is done.
LEMMA PushWhole ==
  ASSUME PushHolds, NEW c \in 0 .. Len(s1), PushAt(c), Push!ReadBody,
         \A x \in DOMAIN s1 : s1[x] # "bad"
  PROVE  \E d \in 0 .. Len(s1') : PushAt(d)'
<1> DEFINE m == c + 1  n == PushBody  bytes == s4 \o SubSeq(s2, 1, n)  rest == SubSeq(s2, n + 1, Len(s2))
<1>1. /\ s3 = "body" /\ Push!Process(s4 \o SubSeq(s2, 1, s5)) /\ s2' = SubSeq(s2, s5 + 1, Len(s2))
      /\ s3' = "first" /\ UNCHANGED <<s1, s11>>
  BY DEF Push!ReadBody, Push!Return, Push!Server
<1>2. /\ s1 \in Seq(Push!Kinds) /\ s2 \in Seq(PushBytes) /\ s4 \in Seq(PushBytes)
      /\ s7 \in Seq(Nat) /\ s10 \in Seq(Nat) /\ s11 \in SUBSET Nat
  BY DEF PushHolds
<1>3. /\ Len(s1) \in Nat /\ DOMAIN s1 = 1 .. Len(s1) /\ c \in Nat /\ m \in Nat /\ m = c + 1
      /\ PushHeader \in Nat /\ n \in Nat
  BY <1>2, LenProperties, PushAssumption
<1>4. /\ Push!Begun(s4, s2, s1, m, PushHeader) /\ s5 = n /\ Push!Len2(s1[m]) = n
      /\ Push!DoneUpTo(s10, s7, s11, s1, c)
  BY <1>1 DEF PushAt, Push!ReadUpTo
<1>5. m \in 1 .. Len(s1)
  BY <1>4 DEF Push!Begun
<1>6. Push!Long(s1[m]) = PushHeader + n
  BY <1>4, PushLong
<1>7. Push!Process(bytes) /\ s2' = rest
  BY <1>1, <1>4
<1>8. PushHeader + n <= Push!Long(s1[m]) /\ PushHeader + n \in Nat
  BY ONLY <1>3, <1>6
<1> HIDE DEF m, n
<1>9. n <= Len(s2) /\ Push!Begun(bytes, rest, s1, m, PushHeader + n)
  BY <1>2, <1>3, <1>4, <1>8, PushOn
<1>10. bytes \in Seq(PushBytes)
  BY <1>2, <1>3, <1>9, PushFront, ConcatProperties
<1> HIDE DEF bytes, rest
<1>11. bytes = Push!Message(m, s1[m]) /\ Push!Aligned(rest, 0, s1, m)
  <2>1. Push!Begun(bytes, rest, s1, m, Push!Long(s1[m])) /\ Push!Long(s1[m]) \in Nat
    BY <1>6, <1>8, <1>9
  <2>2. m \in Nat
    BY <1>3
  <2> QED BY <1>10, <2>1, <2>2, PushReads
<1>12. \/ ~Push!IsPush(s1[m]) /\ UNCHANGED <<s7, s10>>
       \/ Push!IsPush(s1[m]) /\ Push!ProcessPush(m)
  <2>1. m \in DOMAIN s1 /\ \A x \in DOMAIN s1 : x \in Nat
    BY <1>3, <1>5
  <2>2. PICK x \in DOMAIN s1 : Push!Whole(bytes, x) /\ IF Push!IsPush(s1[x]) THEN Push!ProcessPush(x) ELSE Push!Nothing
    BY <1>7, <1>11, <2>1 DEF Push!Process, Push!Whole
  <2>3. x = m
    BY <1>3, <1>11, <2>1, <2>2, PushTells DEF Push!Whole
  <2> QED BY <2>2, <2>3 DEF Push!Nothing, Push!effects
<1>13. Push!DoneUpTo(s10', s7', s11', s1', m)
  <2>1. CASE ~Push!IsPush(s1[m]) /\ UNCHANGED <<s7, s10>>
    <3>1. m \in s11 => Push!IsPush(s1[m])
      BY <1>4 DEF Push!DoneUpTo
    <3>2. Push!DoneUpTo(s10, s7, s11, s1, c + 1)
      BY <1>2, <1>3, <1>4, <1>5, <2>1, <3>1, PushSkips
    <3> QED BY <1>1, <1>3, <2>1, <3>2
  <2>2. CASE Push!IsPush(s1[m]) /\ Push!ProcessPush(m)
    <3>1. s1[m] # "bad"
      BY <1>3, <1>5
    <3>2. Push!DoneUpTo(s10', s7', s11', s1', c + 1)
      BY <1>1, <1>3, <1>4, <1>5, <2>2, <3>1, PushMeans
    <3> QED BY <1>3, <3>2
  <2> QED BY <1>12, <2>1, <2>2
<1>14. Push!ReadUpTo(m)'
  BY <1>1, <1>7, <1>11 DEF Push!ReadUpTo
<1>15. m \in 0 .. Len(s1')
  BY <1>1, <1>3, <1>5
<1> QED BY <1>13, <1>14, <1>15 DEF PushAt

\* The types are part of what every step keeps.
LEMMA PushInvHolds ==
  Push!PushInv <=> PushHolds /\ (Push!InStep => \E c \in 0 .. Len(s1) : PushAt(c))
<1>1. PushHolds <=> /\ Push!PushTypeOK /\ s10 \in Seq(Nat) /\ s7 \in Seq(Nat) /\ s11 \subseteq Nat /\ s12 \in BOOLEAN
                    /\ s2 \in Seq(PushBytes) /\ s4 \in Seq(PushBytes)
  BY DEF PushHolds, Push!PushTypeOK
<1> QED BY <1>1 DEF Push!PushInv, PushAt, PushBytes

\* Before the first message nothing has been read or done.
LEMMA PushBegins ==
  ASSUME Push!Init PROVE Push!PushInv
<1>1. /\ s1 = <<>> /\ s2 = <<>> /\ s3 = "first" /\ s4 = <<>> /\ s5 = 0 /\ s6 = 0 /\ s7 = <<>>
      /\ s8 = 0 /\ s10 = <<>> /\ s11 = {}
  BY DEF Push!Init
<1>2. s12 \in BOOLEAN
  BY DEF Push!Init
<1>3. PushBody \in Nat /\ PushQueue \in Nat /\ Len(s1) = 0 /\ Len(s2) = 0 /\ Len(s7) = 0
  BY <1>1, PushAssumption
<1>4. <<>> \in Seq(Push!Kinds) /\ <<>> \in Seq(PushBytes) /\ <<>> \in Seq(Nat)
  BY EmptySeq
<1>5. 0 \in 0 .. PushBody /\ 0 \in 0 .. Len(s1) /\ 0 <= PushQueue + 1
  BY <1>3
<1>6. PushHolds
  BY <1>1, <1>2, <1>3, <1>4, <1>5 DEF PushHolds
<1>7. Push!ReadUpTo(0)
  <2>1. (\A i \in 0 + 1 .. Len(s2) : FALSE) /\ \A i \in 0 + 1 .. Len(s1) : FALSE
    BY <1>3
  <2>2. Push!Aligned(s2, 0, s1, 0)
    BY <2>1 DEF Push!Aligned
  <2> QED BY <1>1, <2>2 DEF Push!ReadUpTo
<1>8. Push!DoneUpTo(s10, s7, s11, s1, 0)
  <2>1. (\A i \in DOMAIN s7 : FALSE) /\ (\A i \in DOMAIN s10 : FALSE) /\ (\A i \in 0 + 1 .. Len(s1) : FALSE)
        /\ \A i \in s11 : FALSE
    BY <1>1, <1>3
  <2> QED BY <2>1 DEF Push!DoneUpTo, Push!Increasing
<1> QED BY <1>5, <1>6, <1>7, <1>8, PushInvHolds DEF PushAt

\* A client that keeps up goes on in step with the server.
LEMMA PushStep ==
  ASSUME Push!PushInv, Push!Next PROVE Push!PushInv'
<1>1. PushHolds /\ (Push!InStep => \E c \in 0 .. Len(s1) : PushAt(c))
  BY PushInvHolds
<1>2. PushHolds'
  BY <1>1, PushTypes
<1>3. ASSUME Push!InStep' PROVE \E d \in 0 .. Len(s1') : PushAt(d)'
  <2>1. ~s12'
    BY <1>3 DEF Push!InStep
  <2>2. \A x \in DOMAIN s1' : s1'[x] # "bad"
    BY <1>3 DEF Push!InStep
  <2>3. s1 \in Seq(Push!Kinds)
    BY <1>1 DEF PushHolds
  <2>4. ~Push!GiveUp
    BY <2>1 DEF Push!GiveUp
  <2>5. ~s12
    BY <2>1, <2>4 DEF Push!Next, Push!ServerSends, Push!ServerBeats, Push!ReadFirst, Push!ReadHead, Push!ReadBody,
       Push!PlayWchatQueue, Push!Server
  <2>6. s1' = s1 \/ \E kind \in Push!Kinds : Push!ServerSends(kind)
    BY DEF Push!Next, Push!ServerBeats, Push!ReadFirst, Push!ReadHead, Push!ReadBody,
       Push!GiveUp, Push!PlayWchatQueue, Push!Server
  <2>7. \A x \in DOMAIN s1 : x \in DOMAIN s1' /\ s1'[x] = s1[x]
    <3>1. ASSUME NEW kind \in Push!Kinds, Push!ServerSends(kind) PROVE \A x \in DOMAIN s1 : x \in DOMAIN s1' /\ s1'[x] = s1[x]
      <4>1. s1' = Append(s1, kind)
        BY <3>1 DEF Push!ServerSends
      <4> QED BY <2>3, <4>1, PushAdd
    <3> QED BY <2>6, <3>1
  <2>8. \A x \in DOMAIN s1 : s1[x] # "bad"
    BY <2>2, <2>7
  <2>9. Push!InStep
    BY <2>5, <2>8 DEF Push!InStep
  <2>10. PICK c \in 0 .. Len(s1) : PushAt(c)
    BY <1>1, <2>9
  <2>11. ASSUME NEW kind \in Push!Kinds, Push!ServerSends(kind) PROVE \E d \in 0 .. Len(s1') : PushAt(d)'
    BY <1>1, <2>10, <2>11, PushSends
  <2>12. CASE Push!ServerBeats
    <3>1. s1' = s1
      BY <2>12 DEF Push!ServerBeats
    <3> QED BY <1>1, <2>10, <2>12, <3>1, PushHeartbeat
  <2>13. CASE Push!ReadFirst
    <3>1. s1' = s1
      BY <2>13 DEF Push!ReadFirst, Push!Server
    <3> QED BY <1>1, <2>10, <2>13, <3>1, PushFirst
  <2>14. CASE Push!ReadHead
    BY <1>1, <2>10, <2>14, PushHead
  <2>15. CASE Push!ReadBody
    BY <1>1, <2>8, <2>10, <2>15, PushWhole
  <2>16. CASE Push!PlayWchatQueue
    <3>1. s7 # <<>> /\ s7' = Tail(s7) /\ UNCHANGED <<s1, s2, s3, s4, s5, s10, s11>>
      BY <2>16 DEF Push!PlayWchatQueue
    <3>2. s7 \in Seq(Nat) /\ Push!DoneUpTo(s10, s7, s11, s1, c)
      BY <1>1, <2>10 DEF PushHolds, PushAt
    <3>3. Push!DoneUpTo(s10, Tail(s7), s11, s1, c)
      BY <3>1, <3>2, PushHears
    <3>4. Push!DoneUpTo(s10', s7', s11', s1', c) /\ c \in 0 .. Len(s1')
      BY <3>1, <3>3
    <3>5. Push!ReadUpTo(c)'
      BY <2>10, <3>1 DEF PushAt, Push!ReadUpTo
    <3> QED BY <3>4, <3>5 DEF PushAt
  <2> QED BY <2>4, <2>11, <2>12, <2>13, <2>14, <2>15, <2>16 DEF Push!Next
<1>4. (Push!InStep => \E c \in 0 .. Len(s1) : PushAt(c))'
  BY <1>3
<1>5. Push!PushInv' <=> PushHolds' /\ (Push!InStep => \E c \in 0 .. Len(s1) : PushAt(c))'
  BY PushInvHolds, PTL
<1> QED BY <1>2, <1>4, <1>5

\* So pushes are done in order, once, and none is left out.
LEMMA PushKeepsPromise ==
  ASSUME Push!PushInv PROVE Push!PushesAreDoneOnce /\ Push!PushTypeOK
<1>1. Push!PushTypeOK /\ s1 \in Seq(Push!Kinds)
  BY DEF Push!PushInv, Push!PushTypeOK
<1> SUFFICES ASSUME Push!InStep
             PROVE  /\ Push!Increasing(s10) /\ Push!Increasing(s7)
                    /\ \A i \in DOMAIN s10 :
                         /\ s10[i] \in s11 /\ Push!Understood(s10[i])
                         /\ \A m \in s11 : m < s10[i] /\ Push!Understood(m) => Push!Done(m)
                    /\ s3 = "first" /\ s2 = <<>> => \A m \in s11 : Push!Understood(m) => Push!Done(m)
  BY <1>1 DEF Push!PushesAreDoneOnce
<1>2. PICK c \in 0 .. Len(s1) : Push!ReadUpTo(c) /\ Push!DoneUpTo(s10, s7, s11, s1, c)
  BY DEF Push!PushInv
<1>3. /\ Push!Increasing(s10) /\ Push!Increasing(s7)
      /\ \A i \in DOMAIN s10 : s10[i] \in 1 .. c /\ s10[i] \in s11 /\ Push!Understood(s10[i])
      /\ \A m \in s11 : m \in 1 .. Len(s1)
      /\ \A m \in s11 : m <= c /\ Push!Understood(m) => Push!Done(m)
  BY <1>2 DEF Push!DoneUpTo, Push!Understood, Push!Done
<1>4. Len(s1) \in Nat /\ c \in Nat
  BY <1>1, LenProperties
<1>5. ASSUME NEW i \in DOMAIN s10, NEW m \in s11, m < s10[i], Push!Understood(m) PROVE Push!Done(m)
  <2>1. m <= c
    <3>1. s10[i] \in 1 .. c /\ m \in 1 .. Len(s1)
      BY <1>3
    <3> QED BY ONLY <3>1, <1>4, m < s10[i]
  <2> QED BY <1>3, <1>5, <2>1
<1>6. ASSUME s3 = "first", s2 = <<>>, NEW m \in s11, Push!Understood(m) PROVE Push!Done(m)
  <2>1. Push!Aligned(s2, 0, s1, c)
    BY <1>2, <1>6 DEF Push!ReadUpTo
  <2>2. \A i \in 0 + 1 .. Len(s2) : FALSE
    <3>1. Len(s2) = 0
      BY <1>6
    <3> QED BY <3>1
  <2>3. 1 \in 1 .. Push!Long(s1[m])
    <3>1. /\ PushHeader \in Nat /\ PushHeader >= 1 /\ Push!Len2(s1[m]) \in Nat
          /\ Push!Long(s1[m]) = PushHeader + Push!Len2(s1[m])
      BY PushLong
    <3> QED BY ONLY <3>1
  <2>4. ~(m \in c + 1 .. Len(s1))
    BY <2>1, <2>2, <2>3, PushThere
  <2>5. m \in 1 .. Len(s1)
    BY <1>3
  <2>6. m <= c
    BY ONLY <1>4, <2>4, <2>5
  <2> QED BY <1>3, <1>6, <2>6
<1> QED BY <1>3, <1>5, <1>6

\* While another part runs nothing of it changes.
LEMMA PushStays ==
  ASSUME Push!PushInv, UNCHANGED <<s1, s2, s3, s4, s5, s6, s7, s8, s10, s11, s12>>
  PROVE  Push!PushInv'
BY DEF Push!PushInv, Push!PushTypeOK, Push!InStep, Push!ReadUpTo
-----------------------------------------------------------------------------
(* The commands of a medium.                                              *)

\* The media and what they are.
LEMMA MediumIs ==
  ASSUME NEW m \in Offered \cup {Data!None}
  PROVE  /\ m.len \in Nat /\ m.front \in Nat
         /\ m.source \in {"url", "file", "data", "magic", "none"}
         /\ m \in Offered => m.source # "none"
         /\ m.source = "data" => Data!MediaType(m) = "mp3" /\ ~Data!Headed(m)
         /\ m.source = "magic" => Data!Headed(m) /\ ~Data!Tagged(m)
         /\ ~(Data!Headed(m) /\ Data!Tagged(m))
<1>1. m.len \in Nat /\ m.front \in Nat /\ m.source \in {"url", "file", "data", "magic", "none"}
      /\ (m \in Offered => m.source # "none")
  BY MediaAssumption DEF Data!None
<1>2. m.source = "data" => Data!MediaType(m) = "mp3"
  BY DEF Data!MediaType
<1>3. m.source = "magic" => Data!MediaType(m) = "wav"
  BY DEF Data!MediaType
<1> QED BY <1>1, <1>2, <1>3 DEF Data!Headed, Data!Tagged

\* The bytes from a place to another.
LEMMA PieceIs ==
  ASSUME NEW a \in Nat, NEW b \in Nat, a <= b
  PROVE  /\ Data!Piece(a, b) \in Seq(Nat) /\ Len(Data!Piece(a, b)) = b - a
         /\ \A k \in 1 .. b - a : Data!Piece(a, b)[k] = a + k
<1>1. Data!Piece(a, b) = [k \in 1 .. b - a |-> a + k]
  BY DEF Data!Piece
<1>2. b - a \in Nat /\ \A k \in 1 .. b - a : a + k \in Nat
  OBVIOUS
<1> QED BY <1>1, <1>2

\* Sequences of the same elements are the same.
LEMMA SameBytes ==
  ASSUME NEW x \in Seq(Nat), NEW y \in Seq(Nat), Len(x) = Len(y),
         \A i \in 1 .. Len(x) : x[i] = y[i]
  PROVE  x = y
BY SeqEqual

\* What two sequences behind one another are.
LEMMA JoinIs ==
  ASSUME NEW S, NEW x \in Seq(S), NEW y \in Seq(S)
  PROVE  /\ x \o y \in Seq(S) /\ Len(x \o y) = Len(x) + Len(y)
         /\ Len(x) \in Nat /\ Len(y) \in Nat
         /\ \A i \in 1 .. Len(x) : (x \o y)[i] = x[i]
         /\ \A i \in 1 .. Len(y) : (x \o y)[Len(x) + i] = y[i]
<1>1. x \o y \in Seq(S) /\ Len(x \o y) = Len(x) + Len(y) /\ Len(x) \in Nat /\ Len(y) \in Nat
  OBVIOUS
<1>2. \A i \in 1 .. Len(x) + Len(y) : (x \o y)[i] = IF i <= Len(x) THEN x[i] ELSE y[i - Len(x)]
  BY ConcatProperties
<1>3. \A i \in 1 .. Len(x) : (x \o y)[i] = x[i]
  BY <1>1, <1>2
<1>4. \A i \in 1 .. Len(y) : (x \o y)[Len(x) + i] = y[i]
  <2> TAKE i \in 1 .. Len(y)
  <2>1. Len(x) + i \in 1 .. Len(x) + Len(y) /\ ~(Len(x) + i <= Len(x)) /\ Len(x) + i - Len(x) = i
    BY <1>1
  <2> QED BY <1>2, <2>1
<1> QED BY <1>1, <1>3, <1>4

\* A piece without its first t bytes.
LEMMA PieceBehind ==
  ASSUME NEW a \in Nat, NEW b \in Nat, NEW t \in Nat, a + t <= b
  PROVE  SubSeq(Data!Piece(a, b), t + 1, Len(Data!Piece(a, b))) = Data!Piece(a + t, b)
<1> DEFINE x == Data!Piece(a, b)
           y == SubSeq(x, t + 1, Len(x))
           z == Data!Piece(a + t, b)
<1>1. x \in Seq(Nat) /\ Len(x) = b - a /\ \A k \in 1 .. b - a : x[k] = a + k
  BY PieceIs
<1>2. z \in Seq(Nat) /\ Len(z) = b - (a + t) /\ \A k \in 1 .. b - (a + t) : z[k] = a + t + k
  <2>1. a + t \in Nat
    OBVIOUS
  <2> QED BY <2>1, PieceIs
<1> HIDE DEF x, z
<1>3. t <= Len(x)
  BY <1>1
<1>4. y \in Seq(Nat) /\ Len(y) = Len(x) - t /\ \A i \in 1 .. Len(x) - t : y[i] = x[i + t]
  BY <1>1, <1>3, PushBehind
<1> HIDE DEF y
<1>5. Len(y) = Len(z) /\ \A i \in 1 .. Len(y) : y[i] = z[i]
  BY <1>1, <1>2, <1>4
<1>6. y = z
  BY <1>2, <1>4, <1>5, SameBytes
<1> QED BY <1>6 DEF x, y, z

\* The first t bytes of a piece.
LEMMA PieceFront ==
  ASSUME NEW a \in Nat, NEW b \in Nat, NEW t \in Nat, a + t <= b
  PROVE  SubSeq(Data!Piece(a, b), 1, t) = Data!Piece(a, a + t)
<1> DEFINE x == Data!Piece(a, b)
           y == SubSeq(x, 1, t)
           z == Data!Piece(a, a + t)
<1>1. x \in Seq(Nat) /\ Len(x) = b - a /\ \A k \in 1 .. b - a : x[k] = a + k
  BY PieceIs
<1>2. z \in Seq(Nat) /\ Len(z) = t /\ \A k \in 1 .. t : z[k] = a + k
  <2>1. a + t \in Nat /\ a <= a + t /\ a + t - a = t
    OBVIOUS
  <2>2. z \in Seq(Nat) /\ Len(z) = a + t - a /\ \A k \in 1 .. a + t - a : z[k] = a + k
    BY ONLY a \in Nat, <2>1, PieceIs DEF z
  <2> QED BY ONLY <2>1, <2>2
<1> HIDE DEF x, z
<1>3. t <= Len(x)
  BY <1>1
<1>4. y \in Seq(Nat) /\ Len(y) = t /\ \A i \in 1 .. t : y[i] = x[i]
  BY <1>1, <1>3, PushFront
<1> HIDE DEF y
<1>5. Len(y) = Len(z) /\ \A i \in 1 .. Len(y) : y[i] = z[i]
  <2>1. Len(y) = t /\ Len(z) = t /\ \A i \in 1 .. t : i \in 1 .. b - a
    BY <1>2, <1>4
  <2>2. ASSUME NEW i \in 1 .. t PROVE y[i] = z[i]
    BY <1>1, <1>2, <1>4, <2>1
  <2> QED BY ONLY <2>1, <2>2
<1>6. y = z
  BY <1>2, <1>4, <1>5, SameBytes
<1> QED BY <1>6 DEF x, y, z

\* Two pieces behind one another.
LEMMA PiecesJoin ==
  ASSUME NEW a \in Nat, NEW b \in Nat, NEW c \in Nat, a <= b, b <= c
  PROVE  Data!Piece(a, b) \o Data!Piece(b, c) = Data!Piece(a, c)
<1> DEFINE x == Data!Piece(a, b)
           y == Data!Piece(b, c)
           z == Data!Piece(a, c)
           w == x \o y
<1>1. x \in Seq(Nat) /\ Len(x) = b - a /\ \A k \in 1 .. b - a : x[k] = a + k
  BY PieceIs
<1>2. y \in Seq(Nat) /\ Len(y) = c - b /\ \A k \in 1 .. c - b : y[k] = b + k
  BY PieceIs
<1>3. z \in Seq(Nat) /\ Len(z) = c - a /\ \A k \in 1 .. c - a : z[k] = a + k
  BY PieceIs
<1> HIDE DEF x, y, z
<1>4. /\ w \in Seq(Nat) /\ Len(w) = Len(x) + Len(y)
      /\ \A i \in 1 .. Len(x) : w[i] = x[i]
      /\ \A i \in 1 .. Len(y) : w[Len(x) + i] = y[i]
  <2>1. x \in Seq(Nat) /\ y \in Seq(Nat)
    BY <1>1, <1>2
  <2> QED BY ONLY <2>1, JoinIs DEF w
<1> HIDE DEF w
<1>5. Len(w) = Len(z)
  BY <1>1, <1>2, <1>3, <1>4
<1>6. \A i \in 1 .. Len(w) : w[i] = z[i]
  <2> TAKE i \in 1 .. Len(w)
  <2>1. CASE i <= b - a
    BY <1>1, <1>2, <1>3, <1>4, <2>1
  <2>2. CASE i > b - a
    <3> DEFINE k == i - (b - a)
    <3>1. k \in 1 .. c - b /\ i = (b - a) + k /\ i \in 1 .. c - a
      BY <1>1, <1>2, <1>4, <2>2
    <3> HIDE DEF k
    <3>2. w[i] = b + k
      BY <1>1, <1>2, <1>4, <3>1
    <3>3. z[i] = a + i
      BY <1>3, <3>1
    <3> QED BY <3>1, <3>2, <3>3
  <2> QED BY <2>1, <2>2
<1>7. w = z
  BY <1>3, <1>4, <1>5, <1>6, SameBytes
<1> QED BY <1>7 DEF x, y, z, w

\* The bytes up to some place are of the same kind.
LEMMA KindBefore ==
  ASSUME NEW m, NEW h \in Seq(Nat), NEW g \in Seq(Nat), NEW p, NEW ag, NEW f,
         Len(g) <= Len(h), \A i \in 1 .. Len(g) : h[i] = g[i],
         Data!KindOf(m, h, p, ag, f)
  PROVE  Data!KindOf(m, g, p, ag, f)
<1> DEFINE k == Len(g)
           l == Len(h)
<1>1. k \in Nat /\ l \in Nat /\ k <= l
  OBVIOUS
<1>2. \A i \in 1 .. k : i \in 1 .. l /\ g[i] = h[i]
  BY <1>1
<1>3. Data!Shape(h, p, f) => Data!Shape(g, p, f)
  BY <1>2 DEF Data!Shape
<1>4. Data!Rising(h, m.front) => Data!Rising(g, m.front)
  <2> SUFFICES ASSUME Data!Rising(h, m.front), NEW i \in 1 .. k, g[i] > m.front
               PROVE  g[i] <= i /\ \A j \in 1 .. i - 1 : g[j] < g[i]
    BY DEF Data!Rising
  <2>1. h[i] <= i /\ \A j \in 1 .. i - 1 : h[j] < h[i]
    BY <1>2 DEF Data!Rising
  <2>2. \A j \in 1 .. i - 1 : j \in 1 .. k
    BY <1>1
  <2> QED BY <1>2, <2>1, <2>2
<1>5. Data!Smooth(h, m.front) => Data!Smooth(g, m.front)
  <2> SUFFICES ASSUME Data!Smooth(h, m.front) PROVE Data!Smooth(g, m.front)
    OBVIOUS
  <2>1. g # <<>> => g[1] <= m.front + 1
    <3> SUFFICES ASSUME g # <<>> PROVE g[1] <= m.front + 1
      OBVIOUS
    <3>1. 1 \in 1 .. k /\ h # <<>>
      BY <1>1, EmptySeq
    <3> QED BY <1>2, <3>1 DEF Data!Smooth
  <2>2. \A i \in 1 .. k - 1 : g[i + 1] <= g[i] + 1
    <3> TAKE i \in 1 .. k - 1
    <3>1. i \in 1 .. k /\ i + 1 \in 1 .. k /\ i \in 1 .. l - 1
      BY <1>1
    <3>2. h[i + 1] <= h[i] + 1
      BY <3>1 DEF Data!Smooth
    <3> QED BY <1>2, <3>1, <3>2
  <2> QED BY <2>1, <2>2 DEF Data!Smooth
<1>6. (\A i \in 1 .. l : h[i] >= i) => \A i \in 1 .. k : g[i] >= i
  BY <1>2
<1> QED BY <1>3, <1>4, <1>5, <1>6 DEF Data!KindOf

\* What is given to the codec in order is what it shall get.
LEMMA KindKeepsPromise ==
  ASSUME NEW m \in Offered \cup {Data!None}, NEW h \in Seq(Nat), NEW p \in Nat, NEW ag \in Nat,
         NEW f \in {0, m.front}, Data!KindOf(m, h, p, ag, f),
         NEW i \in 1 .. Len(h), NEW j \in 0 .. Len(h), Data!Follows(h, m.front, j, i)
  PROVE  /\ ag <= 1 \/ ~Data!Headed(m) => h[i] <= Data!Sound(h, m.front, j) + 1
         /\ ~Data!Tagged(m) /\ m.source # "magic" => h[i] > Data!Sound(h, m.front, j)
<1> DEFINE l == Len(h)
           c == m.front
<1>1. c \in Nat /\ l \in Nat /\ \A k \in 1 .. l : h[k] \in Nat
  BY MediumIs, ElementOfSeq, LenProperties
<1>2. (m.source = "magic" => Data!Headed(m) /\ ~Data!Tagged(m)) /\ ~(Data!Headed(m) /\ Data!Tagged(m))
  BY MediumIs
<1>3. /\ j < i /\ h[i] > c /\ (j = 0 \/ h[j] > c)
      /\ \A k \in j + 1 .. i - 1 : h[k] <= c
  BY DEF Data!Follows
<1>4. f \in {0, c}
  OBVIOUS
<1> HIDE DEF l, c
<1>5. ASSUME Data!Shape(h, p, f)
      PROVE  h[i] <= (IF j = 0 THEN c ELSE h[j]) + 1 /\ h[i] > (IF j = 0 THEN c ELSE h[j])
  <2>1. \A k \in 1 .. l : h[k] = IF k <= p THEN k ELSE IF k <= p + f THEN k - p ELSE k - f
    BY <1>5 DEF Data!Shape, l
  <2>2. i \in 1 .. l /\ j \in 0 .. l
    BY DEF l
  <2>3. \A k \in 1 .. l : p < k /\ k <= p + f => h[k] <= c
    BY <1>1, <1>4, <2>1
  <2>4. i <= p \/ i > p + f
    BY <1>1, <1>3, <2>2, <2>3
  <2>5. CASE i <= p
    <3>1. h[i] = i /\ i > c
      BY <1>3, <2>1, <2>2, <2>5
    <3>2. \A k \in 1 .. l : k <= i => h[k] = k
      BY <2>1, <2>5
    <3>3. CASE j = 0
      <4>1. ~(i - 1 \in j + 1 .. i - 1) \/ h[i - 1] <= c
        BY <1>3
      <4>2. i - 1 \in 1 .. l => h[i - 1] = i - 1
        BY <2>2, <3>2
      <4> QED BY <1>1, <2>2, <3>1, <3>3, <4>1, <4>2
    <3>4. CASE j # 0
      <4>1. h[j] = j /\ j > c
        BY <1>3, <2>2, <3>2, <3>4
      <4>2. j = i - 1
        <5> SUFFICES ASSUME j # i - 1 PROVE FALSE
          OBVIOUS
        <5>1. i - 1 \in j + 1 .. i - 1 /\ i - 1 \in 1 .. l
          BY <1>1, <1>3, <2>2, <3>4
        <5>2. h[i - 1] = i - 1 /\ h[i - 1] <= c
          BY <1>3, <3>2, <5>1
        <5> QED BY <1>1, <1>3, <2>2, <4>1, <5>2
      <4> QED BY <3>1, <3>4, <4>1, <4>2, <2>2
    <3> QED BY <3>3, <3>4
  <2>6. CASE i > p + f
    <3>1. h[i] = i - f /\ i > p
      BY <1>1, <1>4, <2>1, <2>2, <2>6
    <3>2. CASE j > p + f
      <4>1. h[j] = j - f /\ j # 0
        BY <1>1, <1>4, <2>1, <2>2, <3>2
      <4>2. j = i - 1
        <5> SUFFICES ASSUME j # i - 1 PROVE FALSE
          OBVIOUS
        <5>1. i - 1 \in j + 1 .. i - 1 /\ i - 1 \in 1 .. l /\ i - 1 > p + f
          BY <1>3, <2>2, <3>2, <1>1, <1>4
        <5>2. h[i - 1] = i - 1 - f /\ h[i - 1] <= c
          BY <1>1, <1>4, <1>3, <2>1, <5>1
        <5>3. h[j] > c
          BY <1>3, <4>1
        <5> QED BY <1>1, <1>3, <1>4, <2>2, <4>1, <5>2, <5>3
      <4> QED BY <1>1, <1>4, <2>2, <3>1, <4>1, <4>2
    <3>3. CASE ~(j > p + f)
      \* Before the last part comes the header, or none.
      <4>1. j <= p
        BY <1>1, <1>3, <1>4, <2>2, <2>3, <3>3
      <4>2. j # 0 => h[j] = j
        BY <2>1, <2>2, <4>1
      <4>3. CASE p + f < i - 1
        <5>1. p + f + 1 \in j + 1 .. i - 1 /\ p + f + 1 \in 1 .. l /\ i - 1 \in j + 1 .. i - 1
              /\ i - 1 \in 1 .. l
          BY <1>1, <1>4, <2>2, <4>1, <4>3
        <5>2. h[p + f + 1] = p + 1 /\ h[p + f + 1] <= c
          BY <1>1, <1>4, <1>3, <2>1, <5>1
        <5>3. h[i - 1] = i - 1 - f /\ h[i - 1] <= c
          BY <1>1, <1>4, <1>3, <2>1, <4>3, <5>1
        <5>4. j = 0
          <6> SUFFICES ASSUME j # 0 PROVE FALSE
            OBVIOUS
          <6>1. j > c
            BY <1>3, <4>2
          <6> QED BY <1>1, <2>2, <4>1, <5>2, <6>1
        <5> QED BY <1>1, <1>3, <1>4, <2>2, <3>1, <5>3, <5>4
      <4>4. CASE ~(p + f < i - 1)
        <5>1. i = p + f + 1 /\ h[i] = p + 1
          BY <1>1, <1>4, <2>2, <2>6, <3>1, <4>4
        <5>2. CASE j = p
          BY <1>1, <1>3, <4>2, <5>1, <5>2
        <5>3. CASE j # p
          <6>1. p \in j + 1 .. i - 1 /\ p \in 1 .. l
            BY <1>1, <1>4, <2>2, <4>1, <5>1, <5>3
          <6>2. h[p] = p /\ h[p] <= c
            BY <1>3, <2>1, <6>1
          <6>3. j = 0
            <7> SUFFICES ASSUME j # 0 PROVE FALSE
              OBVIOUS
            <7>1. j > c
              BY <1>3, <4>2
            <7> QED BY <1>1, <2>2, <4>1, <6>2, <7>1
          <6> QED BY <1>1, <1>3, <5>1, <6>2, <6>3
        <5> QED BY <5>2, <5>3
      <4> QED BY <4>3, <4>4
    <3> QED BY <3>2, <3>3
  <2> QED BY <2>4, <2>5, <2>6
<1>6. ASSUME Data!Smooth(h, c) PROVE h[i] <= (IF j = 0 THEN c ELSE h[j]) + 1
  <2>1. h[1] <= c + 1 /\ \A k \in 1 .. l - 1 : h[k + 1] <= h[k] + 1
    BY <1>6 DEF Data!Smooth, l
  <2>2. i \in 1 .. l /\ j \in 0 .. l
    BY DEF l
  <2>3. CASE i = 1
    BY <1>3, <2>1, <2>2, <2>3
  <2>4. CASE i # 1
    <3>1. i - 1 \in 1 .. l - 1 /\ i - 1 + 1 = i /\ i - 1 \in 1 .. l
      BY <1>1, <2>2, <2>4
    <3>2. h[i] <= h[i - 1] + 1
      BY <2>1, <3>1
    <3>3. CASE j = i - 1
      BY <2>2, <2>4, <3>2, <3>3
    <3>4. CASE j # i - 1
      <4>1. h[i - 1] <= c
        BY <1>3, <2>2, <3>4
      <4>2. j # 0 => h[j] \in Nat /\ h[j] > c
        BY <1>1, <1>3, <2>2
      <4>3. h[i - 1] \in Nat /\ h[i] \in Nat
        BY <1>1, <2>2, <3>1
      <4>4. c \in Nat
        BY <1>1
      <4>5. CASE j = 0
        BY ONLY <3>2, <4>1, <4>3, <4>4, <4>5
      <4>6. CASE j # 0
        BY ONLY <3>2, <4>1, <4>2, <4>3, <4>4, <4>6
      <4> QED BY <4>5, <4>6
    <3> QED BY <3>3, <3>4
  <2> QED BY <2>3, <2>4
<1>7. ASSUME Data!Rising(h, c) PROVE h[i] > (IF j = 0 THEN c ELSE h[j])
  <2>1. \A k \in 1 .. i - 1 : h[k] < h[i]
    BY <1>3, <1>7 DEF Data!Rising, l
  <2>2. i \in 1 .. l /\ j \in 0 .. l
    BY DEF l
  <2> QED BY <1>3, <2>1, <2>2
<1>8. Data!Sound(h, m.front, j) = IF j = 0 THEN c ELSE h[j]
  BY DEF Data!Sound, c
<1>9. /\ m.source # "magic" /\ ~Data!Tagged(m) /\ (Data!Headed(m) => ag <= 1) => Data!Shape(h, p, f)
      /\ m.source # "magic" /\ Data!Headed(m) => Data!Rising(h, c)
      /\ m.source = "magic" \/ Data!Tagged(m) => Data!Smooth(h, c)
  BY DEF Data!KindOf, c
<1> QED BY <1>2, <1>5, <1>6, <1>7, <1>8, <1>9

\* A piece behind a sequence.
LEMMA PieceBehindIs ==
  ASSUME NEW h \in Seq(Nat), NEW e \in Nat, NEW b \in Nat, e <= b
  PROVE  /\ h \o Data!Piece(e, b) \in Seq(Nat)
         /\ Len(h) \in Nat /\ Len(h \o Data!Piece(e, b)) = Len(h) + (b - e)
         /\ \A i \in 1 .. Len(h) : (h \o Data!Piece(e, b))[i] = h[i] /\ h[i] \in Nat
         /\ \A i \in Len(h) + 1 .. Len(h) + (b - e) : (h \o Data!Piece(e, b))[i] = e + (i - Len(h))
<1> DEFINE y == Data!Piece(e, b)
           l == Len(h)
<1>1. y \in Seq(Nat) /\ Len(y) = b - e /\ \A k \in 1 .. b - e : y[k] = e + k
  BY PieceIs
<1> HIDE DEF y
<1>2. /\ h \o y \in Seq(Nat) /\ Len(h \o y) = l + Len(y) /\ l \in Nat
      /\ \A i \in 1 .. l : (h \o y)[i] = h[i]
      /\ \A i \in 1 .. Len(y) : (h \o y)[l + i] = y[i]
  <2>1. y \in Seq(Nat)
    BY <1>1
  <2> QED BY ONLY h \in Seq(Nat), <2>1, JoinIs DEF l
<1>3. \A i \in 1 .. l : h[i] \in Nat
  BY ElementOfSeq, LenProperties
<1> HIDE DEF l
<1>4. \A i \in l + 1 .. l + (b - e) : (h \o y)[i] = e + (i - l)
  <2> TAKE i \in l + 1 .. l + (b - e)
  <2>1. i - l \in 1 .. b - e /\ l + (i - l) = i
    BY <1>2
  <2> QED BY <1>1, <1>2, <2>1
<1> QED BY <1>1, <1>2, <1>3, <1>4 DEF y, l

\* The next piece of the medium keeps its kind.
LEMMA PieceGoesOn ==
  ASSUME NEW m \in Offered \cup {Data!None}, NEW h \in Seq(Nat), NEW p \in Nat, NEW ag, NEW f \in Nat,
         NEW e \in Nat, NEW b \in Nat, e <= b, p <= e,
         Data!KindOf(m, h, p, ag, f), Data!EndOf(m, h, f, e)
  PROVE  /\ Data!KindOf(m, h \o Data!Piece(e, b), p, ag, f)
         /\ Data!EndOf(m, h \o Data!Piece(e, b), f, b)
<1> DEFINE x == h \o Data!Piece(e, b)
           l == Len(h)
           c == m.front
           n == b - e
<1>1. /\ x \in Seq(Nat) /\ l \in Nat /\ Len(x) = l + n
      /\ \A i \in 1 .. l : x[i] = h[i] /\ h[i] \in Nat
      /\ \A i \in l + 1 .. l + n : x[i] = e + (i - l)
  BY PieceBehindIs
<1>2. c \in Nat /\ n \in Nat /\ e + n = b
  BY MediumIs
<1>3. (m.source = "magic" => Data!Headed(m) /\ ~Data!Tagged(m)) /\ ~(Data!Headed(m) /\ Data!Tagged(m))
  BY MediumIs
<1>4. (x = <<>> <=> l + n = 0) /\ (h = <<>> <=> l = 0)
  BY <1>1, EmptySeq
<1> HIDE DEF x, l, c, n
<1>5. ASSUME m.source # "magic", ~Data!Tagged(m)
      PROVE  l = e + f /\ Len(x) = b + f
  <2>1. Len(h) = e + f
    BY <1>5 DEF Data!EndOf
  <2>2. l = e + f
    BY <2>1 DEF l
  <2> QED BY <1>1, <1>2, <2>2
<1>6. ASSUME m.source # "magic", ~Data!Tagged(m), Data!Shape(h, p, f)
      PROVE  Data!Shape(x, p, f)
  <2>1. \A i \in 1 .. l : h[i] = IF i <= p THEN i ELSE IF i <= p + f THEN i - p ELSE i - f
    BY <1>6 DEF Data!Shape, l
  <2>2. l = e + f
    BY <1>5, <1>6
  <2>3. \A i \in l + 1 .. l + n : x[i] = i - f /\ ~(i <= p) /\ ~(i <= p + f)
    BY <1>1, <1>2, <2>2
  <2>4. ASSUME NEW i \in 1 .. l + n
        PROVE  x[i] = IF i <= p THEN i ELSE IF i <= p + f THEN i - p ELSE i - f
    <3>1. i \in 1 .. l \/ i \in l + 1 .. l + n
      BY <1>1, <1>2
    <3> QED BY <1>1, <2>1, <2>3, <3>1
  <2> QED BY <1>1, <2>4 DEF Data!Shape
<1>7. ASSUME m.source # "magic", Data!Headed(m), Data!Rising(h, c)
      PROVE  Data!Rising(x, c) /\ \A i \in 1 .. Len(x) : x[i] > c => x[i] <= b
  <2>1. l = e + f /\ \A i \in 1 .. l : h[i] > c => h[i] <= e
    BY <1>3, <1>5, <1>7 DEF Data!EndOf, l, c
  <2>2. \A i \in 1 .. l : h[i] > c => h[i] <= i /\ \A j \in 1 .. i - 1 : h[j] < h[i]
    BY <1>7 DEF Data!Rising, l
  <2>3. ASSUME NEW i \in 1 .. l + n, x[i] > c
        PROVE  x[i] <= i /\ x[i] <= b /\ \A j \in 1 .. i - 1 : x[j] < x[i]
    <3>1. CASE i \in 1 .. l
      <4>1. h[i] > c /\ x[i] = h[i] /\ h[i] \in Nat
        BY <1>1, <2>3, <3>1
      <4>2. x[i] <= i /\ x[i] <= b
        BY <1>2, <2>1, <2>2, <3>1, <4>1
      <4>3. \A j \in 1 .. i - 1 : x[j] = h[j] /\ h[j] < h[i]
        <5>1. \A j \in 1 .. i - 1 : j \in 1 .. l
          BY <1>1, <3>1
        <5> QED BY <1>1, <2>2, <3>1, <4>1, <5>1
      <4> QED BY <4>1, <4>2, <4>3
    <3>2. CASE i \in l + 1 .. l + n
      <4>1. x[i] = e + (i - l) /\ i \in Nat /\ i <= l + n /\ i > l
        BY <1>1, <1>2, <3>2
      <4>2. x[i] <= i /\ x[i] <= b
        BY ONLY <1>1, <1>2, <2>1, <4>1, e \in Nat, f \in Nat
      <4>3. ASSUME NEW j \in 1 .. i - 1 PROVE x[j] < x[i]
        <5>1. CASE j \in 1 .. l
          <6>1. x[j] = h[j] /\ h[j] \in Nat
            BY <1>1, <5>1
          <6>2. CASE h[j] > c
            BY <1>1, <2>1, <4>1, <5>1, <6>1, <6>2
          <6>3. CASE ~(h[j] > c)
            BY <1>1, <1>2, <2>3, <4>1, <6>1, <6>3
          <6> QED BY <6>2, <6>3
        <5>2. CASE j \in l + 1 .. l + n
          <6>1. x[j] = e + (j - l) /\ j \in Nat /\ j < i
            BY <1>1, <1>2, <5>2
          <6> QED BY ONLY <1>1, <4>1, <6>1, e \in Nat
        <5>3. j \in 1 .. l \/ j \in l + 1 .. l + n
          BY <1>1, <1>2, <4>1
        <5> QED BY <5>1, <5>2, <5>3
      <4> QED BY <4>2, <4>3
    <3>3. i \in 1 .. l \/ i \in l + 1 .. l + n
      BY <1>1, <1>2
    <3> QED BY <3>1, <3>2, <3>3
  <2> QED BY <1>1, <2>3 DEF Data!Rising
<1>8. ASSUME Data!Smooth(h, c), IF l = 0 THEN e <= c ELSE e <= h[l]
      PROVE  Data!Smooth(x, c) /\ IF l + n = 0 THEN b <= c ELSE b <= x[l + n]
  <2>1. (l # 0 => h[1] <= c + 1) /\ \A i \in 1 .. l - 1 : h[i + 1] <= h[i] + 1
    BY <1>4, <1>8 DEF Data!Smooth, l
  <2>2. IF l + n = 0 THEN b <= c ELSE b <= x[l + n]
    <3>1. CASE n = 0
      <4>1. l # 0 => x[l] = h[l]
        BY <1>1
      <4> QED BY <1>1, <1>2, <1>8, <3>1, <4>1
    <3>2. CASE n # 0
      <4>1. l + n \in l + 1 .. l + n /\ l + n # 0
        BY <1>1, <1>2, <3>2
      <4>2. \A k \in l + 1 .. l + n : k = l + n => x[k] = b
        BY <1>1, <1>2
      <4>3. x[l + n] = b
        BY ONLY <4>1, <4>2
      <4> QED BY <1>2, <4>1, <4>3
    <3> QED BY <3>1, <3>2
  <2>3. l + n # 0 => x[1] <= c + 1
    <3>1. CASE l # 0
      <4>1. x[1] = h[1]
        BY <1>1, <3>1
      <4> QED BY <2>1, <3>1, <4>1
    <3>2. CASE l = 0 /\ n # 0
      <4>1. 1 \in l + 1 .. l + n
        BY <1>1, <1>2, <3>2
      <4>2. x[1] = e + (1 - l)
        BY <1>1, <4>1
      <4> QED BY <1>2, <1>8, <3>2, <4>2
    <3> QED BY <1>1, <1>2, <3>1, <3>2
  <2>4. ASSUME NEW i \in 1 .. l + n - 1 PROVE x[i + 1] <= x[i] + 1
    <3>1. CASE i < l
      <4>1. i \in 1 .. l - 1 /\ i \in 1 .. l /\ i + 1 \in 1 .. l
        BY <1>1, <1>2, <3>1
      <4> QED BY <1>1, <2>1, <4>1
    <3>2. CASE i = l
      <4>1. l \in 1 .. l /\ l # 0 /\ l + 1 \in l + 1 .. l + n
        BY <1>1, <1>2, <3>2
      <4>2. x[l + 1] = e + (l + 1 - l) /\ x[l] = h[l]
        BY <1>1, <4>1
      <4>3. h[l] \in Nat /\ e <= h[l]
        BY <1>1, <1>8, <4>1
      <4> QED BY <1>1, <3>2, <4>2, <4>3
    <3>3. CASE i > l
      <4>1. i \in l + 1 .. l + n /\ i + 1 \in l + 1 .. l + n
        BY <1>1, <1>2, <3>3
      <4>2. x[i] = e + (i - l) /\ x[i + 1] = e + (i + 1 - l)
        BY <1>1, <4>1
      <4> QED BY <1>1, <4>1, <4>2
    <3> QED BY <1>1, <1>2, <3>1, <3>2, <3>3
  <2>5. Len(x) = l + n
    BY <1>1
  <2>6. x # <<>> => x[1] <= c + 1
    BY <1>4, <2>3
  <2>7. \A i \in 1 .. Len(x) - 1 : x[i + 1] <= x[i] + 1
    <3> TAKE i \in 1 .. Len(x) - 1
    <3>1. i \in 1 .. l + n - 1
      BY <1>1, <1>2, <2>5
    <3> QED BY <2>4, <3>1
  <2> QED BY <2>2, <2>6, <2>7 DEF Data!Smooth
<1>9. ASSUME Data!Tagged(m), \A i \in 1 .. l : h[i] >= i, l <= e
      PROVE  (\A i \in 1 .. Len(x) : x[i] >= i) /\ Len(x) <= b
  <2>1. Len(x) <= b
    BY <1>1, <1>2, <1>9
  <2>2. ASSUME NEW i \in 1 .. l + n PROVE x[i] >= i
    <3>1. CASE i \in 1 .. l
      BY <1>1, <1>9, <3>1
    <3>2. CASE i \in l + 1 .. l + n
      <4>1. x[i] = e + (i - l)
        BY <1>1, <3>2
      <4> QED BY <1>1, <1>9, <3>2, <4>1
    <3>3. i \in 1 .. l \/ i \in l + 1 .. l + n
      BY <1>1, <1>2
    <3> QED BY <3>1, <3>2, <3>3
  <2> QED BY <1>1, <2>1, <2>2
<1>10. Data!KindOf(m, x, p, ag, f)
  <2>1. /\ m.source # "magic" /\ ~Data!Tagged(m) /\ (Data!Headed(m) => ag <= 1) => Data!Shape(h, p, f)
        /\ m.source # "magic" /\ Data!Headed(m) => Data!Rising(h, c)
        /\ m.source = "magic" \/ Data!Tagged(m) => Data!Smooth(h, c)
        /\ Data!Tagged(m) => \A i \in 1 .. l : h[i] >= i
    BY DEF Data!KindOf, c, l
  <2>2. /\ m.source = "magic" \/ Data!Tagged(m) => IF l = 0 THEN e <= c ELSE e <= h[l]
        /\ Data!Tagged(m) => l <= e
    BY <1>4 DEF Data!EndOf, c, l
  <2>3. /\ m.source # "magic" /\ ~Data!Tagged(m) /\ (Data!Headed(m) => ag <= 1) => Data!Shape(x, p, f)
        /\ m.source # "magic" /\ Data!Headed(m) => Data!Rising(x, c)
        /\ m.source = "magic" \/ Data!Tagged(m) => Data!Smooth(x, c)
        /\ Data!Tagged(m) => \A i \in 1 .. Len(x) : x[i] >= i
    BY <1>6, <1>7, <1>8, <1>9, <2>1, <2>2
  <2> QED BY <2>3 DEF Data!KindOf, c
<1>11. Data!EndOf(m, x, f, b)
  <2>1. /\ m.source # "magic" /\ Data!Headed(m) => Data!Rising(h, c)
        /\ m.source = "magic" \/ Data!Tagged(m) => Data!Smooth(h, c)
        /\ Data!Tagged(m) => \A i \in 1 .. l : h[i] >= i
    BY DEF Data!KindOf, c, l
  <2>2. /\ m.source = "magic" \/ Data!Tagged(m) => IF l = 0 THEN e <= c ELSE e <= h[l]
        /\ Data!Tagged(m) => l <= e
    BY <1>4 DEF Data!EndOf, c, l
  <2>3. m.source = "magic" \/ Data!Tagged(m) => IF x = <<>> THEN b <= c ELSE b <= x[Len(x)]
    BY <1>1, <1>4, <1>8, <2>1, <2>2
  <2>4. m.source # "magic" /\ ~Data!Tagged(m) => Len(x) = b + f
    BY <1>5
  <2>5. m.source # "magic" /\ Data!Headed(m) => \A i \in 1 .. Len(x) : x[i] > c => x[i] <= b
    BY <1>7, <2>1
  <2>6. Data!Tagged(m) => Len(x) <= b
    BY <1>9, <2>1, <2>2
  <2> QED BY <2>3, <2>4, <2>5, <2>6 DEF Data!EndOf, c
<1> QED BY <1>10, <1>11 DEF x

\* When it begins anew, a medium is where it was stored.
LEMMA KindBegins ==
  ASSUME NEW m \in Offered \cup {Data!None}, NEW h \in Seq(Nat), NEW p \in Nat, NEW ag, NEW f \in Nat,
         Len(h) = p, Data!KindOf(m, h, p, ag, f), m.source = "magic" => p = 0
  PROVE  Data!KindOf(m, h, p, ag, 0) /\ Data!EndOf(m, h, 0, p)
<1> DEFINE c == m.front
<1>1. c \in Nat /\ ~(Data!Headed(m) /\ Data!Tagged(m)) /\ (m.source = "magic" => ~Data!Tagged(m))
  BY MediumIs
<1>2. (h = <<>> <=> p = 0) /\ \A i \in 1 .. p : h[i] \in Nat
  BY EmptySeq, ElementOfSeq, LenProperties
<1>3. /\ m.source # "magic" /\ ~Data!Tagged(m) /\ (Data!Headed(m) => ag <= 1) => Data!Shape(h, p, f)
      /\ m.source # "magic" /\ Data!Headed(m) => Data!Rising(h, c)
      /\ m.source = "magic" \/ Data!Tagged(m) => Data!Smooth(h, c)
      /\ Data!Tagged(m) => \A i \in 1 .. p : h[i] >= i
  BY DEF Data!KindOf
<1> HIDE DEF c
<1>4. Data!Shape(h, p, f) => Data!Shape(h, p, 0)
  BY DEF Data!Shape
<1>5. Data!KindOf(m, h, p, ag, 0)
  BY <1>3, <1>4 DEF Data!KindOf, c
<1>6. m.source # "magic" /\ Data!Headed(m) => \A i \in 1 .. Len(h) : h[i] > c => h[i] <= p
  <2> SUFFICES ASSUME Data!Rising(h, c), NEW i \in 1 .. p, h[i] > c PROVE h[i] <= p
    BY <1>3
  <2>1. h[i] <= i
    BY DEF Data!Rising
  <2> QED BY <1>2, <2>1
<1>7. m.source = "magic" \/ Data!Tagged(m) => IF h = <<>> THEN p <= c ELSE p <= h[p]
  <2>1. CASE p = 0
    BY <1>1, <1>2, <2>1
  <2>2. CASE p # 0
    <3>1. p \in 1 .. p
      BY <2>2
    <3>2. Data!Tagged(m) => h[p] >= p
      BY <1>3, <3>1
    <3> QED BY <1>2, <2>2, <3>1, <3>2
  <2> QED BY <2>1, <2>2
<1>8. Data!EndOf(m, h, 0, p)
  BY <1>6, <1>7 DEF Data!EndOf, c
<1> QED BY <1>5, <1>8

\* The header once more, in front of what is behind the cut.
LEMMA HeaderAgain ==
  ASSUME NEW m \in Offered \cup {Data!None}, NEW h \in Seq(Nat), NEW p \in Nat, NEW ag, NEW f \in Nat,
         Len(h) = p, Data!KindOf(m, h, p, ag, f), m.source # "magic", Data!Headed(m)
  PROVE  /\ Data!KindOf(m, h \o Data!Piece(0, m.front), p, ag, m.front)
         /\ Data!EndOf(m, h \o Data!Piece(0, m.front), m.front, p)
<1> DEFINE c == m.front
           x == h \o Data!Piece(0, c)
<1>1. c \in Nat /\ ~Data!Tagged(m)
  BY MediumIs
<1>2. /\ x \in Seq(Nat) /\ Len(x) = p + c
      /\ \A i \in 1 .. p : x[i] = h[i] /\ h[i] \in Nat
      /\ \A i \in p + 1 .. p + c : x[i] = i - p
  <2>1. 0 \in Nat /\ 0 <= c
    BY <1>1
  <2>2. /\ x \in Seq(Nat) /\ Len(x) = p + (c - 0)
        /\ \A i \in 1 .. p : x[i] = h[i] /\ h[i] \in Nat
        /\ \A i \in p + 1 .. p + (c - 0) : x[i] = 0 + (i - p)
    <3>1. c \in Nat
      BY <1>1
    <3> HIDE DEF c
    <3>2. /\ x \in Seq(Nat) /\ Len(x) = Len(h) + (c - 0)
          /\ \A i \in 1 .. Len(h) : x[i] = h[i] /\ h[i] \in Nat
          /\ \A i \in Len(h) + 1 .. Len(h) + (c - 0) : x[i] = 0 + (i - Len(h))
      BY ONLY <2>1, <3>1, h \in Seq(Nat), PieceBehindIs DEF x
    <3> QED BY <3>2
  <2> HIDE DEF x, c
  <2>3. c - 0 = c /\ \A i \in p + 1 .. p + c : 0 + (i - p) = i - p
    BY <1>1
  <2> QED BY <2>2, <2>3
<1>3. ((Data!Headed(m) => ag <= 1) => Data!Shape(h, p, f)) /\ Data!Rising(h, c)
  BY <1>1 DEF Data!KindOf
<1> HIDE DEF x, c
<1>4. Data!Shape(h, p, f) => Data!Shape(x, p, c)
  <2> SUFFICES ASSUME Data!Shape(h, p, f), NEW i \in 1 .. p + c
               PROVE  x[i] = IF i <= p THEN i ELSE IF i <= p + c THEN i - p ELSE i - c
    BY <1>2 DEF Data!Shape
  <2>1. CASE i \in 1 .. p
    <3>1. h[i] = i
      BY <2>1 DEF Data!Shape
    <3> QED BY <1>2, <2>1, <3>1
  <2>2. CASE i \in p + 1 .. p + c
    BY <1>1, <1>2, <2>2
  <2> QED BY <1>1, <2>1, <2>2
<1>5. Data!Rising(x, c) /\ \A i \in 1 .. Len(x) : x[i] > c => x[i] <= p
  <2> SUFFICES ASSUME NEW i \in 1 .. p + c, x[i] > c
               PROVE  x[i] <= i /\ x[i] <= p /\ \A j \in 1 .. i - 1 : x[j] < x[i]
    BY <1>2 DEF Data!Rising
  <2>1. i \in 1 .. p
    <3> SUFFICES ASSUME i \in p + 1 .. p + c PROVE FALSE
      BY <1>1
    <3>1. x[i] = i - p
      BY <1>2
    <3> QED BY <1>1, <3>1
  <2>2. h[i] <= i /\ \A j \in 1 .. i - 1 : h[j] < h[i]
    BY <1>2, <1>3, <2>1 DEF Data!Rising
  <2>3. \A j \in 1 .. i - 1 : j \in 1 .. p
    BY <2>1
  <2>4. x[i] = h[i] /\ h[i] \in Nat
    BY <1>2, <2>1
  <2> QED BY <1>2, <2>1, <2>2, <2>3, <2>4
<1>6. Data!KindOf(m, x, p, ag, c)
  BY <1>1, <1>3, <1>4, <1>5 DEF Data!KindOf, c
<1>7. Data!EndOf(m, x, c, p)
  BY <1>1, <1>2, <1>5 DEF Data!EndOf, c
<1> QED BY <1>6, <1>7 DEF x, c

\* What is behind the tag.
LEMMA TagIsSkipped ==
  ASSUME NEW m \in Offered \cup {Data!None}, Data!Tagged(m), NEW b \in Nat, m.front < b, NEW ag
  PROVE  /\ Data!KindOf(m, Data!Piece(m.front, b), 0, ag, 0) /\ Data!EndOf(m, Data!Piece(m.front, b), 0, b)
<1> DEFINE c == m.front
           x == Data!Piece(c, b)
<1>1. c \in Nat /\ ~Data!Headed(m) /\ m.source # "magic"
  BY MediumIs
<1>2. x \in Seq(Nat) /\ Len(x) = b - c /\ \A k \in 1 .. b - c : x[k] = c + k
  <2>1. c \in Nat /\ c <= b
    BY <1>1
  <2> HIDE DEF c
  <2> QED BY ONLY <2>1, b \in Nat, PieceIs DEF x
<1>3. x # <<>>
  BY <1>1, <1>2, EmptySeq
<1> HIDE DEF x, c
<1>4. c < b
  BY DEF c
<1>5. Data!Smooth(x, c)
  <2>1. x[1] = c + 1
    BY <1>1, <1>2, <1>4
  <2>2. \A i \in 1 .. Len(x) - 1 : x[i + 1] <= x[i] + 1
    BY <1>1, <1>2, <1>4
  <2> QED BY <1>1, <2>1, <2>2 DEF Data!Smooth
<1>6. \A i \in 1 .. Len(x) : x[i] >= i
  BY <1>1, <1>2, <1>4
<1>7. b <= x[Len(x)] /\ Len(x) <= b
  <2>1. b - c \in 1 .. b - c
    BY <1>1, <1>4
  <2>2. x[b - c] = c + (b - c)
    BY <1>2, <2>1
  <2> QED BY <1>1, <1>2, <1>4, <2>2
<1> QED BY <1>1, <1>3, <1>5, <1>6, <1>7 DEF Data!KindOf, Data!EndOf, x, c

\* A medium that is stored may go on.
LEMMA KindIsKept ==
  ASSUME NEW m \in Offered \cup {Data!None}, NEW h \in Seq(Nat), NEW p \in Nat, NEW ag \in Nat, NEW f \in Nat,
         Data!KindOf(m, h, p, ag, f), f # 0 => Data!Headed(m) /\ p > 0, ag = 0 => p = 0
  PROVE  Data!KindOf(m, h, Len(h), ag + 1, 0)
<1> DEFINE l == Len(h)
<1>1. l \in Nat
  OBVIOUS
<1>2. ASSUME m.source # "magic", ~Data!Tagged(m), Data!Headed(m) => ag + 1 <= 1
      PROVE  Data!Shape(h, l, 0)
  <2>1. f = 0
    BY <1>2
  <2>2. Data!Shape(h, p, 0)
    BY <1>2, <2>1 DEF Data!KindOf
  <2> QED BY <2>2 DEF Data!Shape
<1> HIDE DEF l
<1> QED BY <1>2 DEF Data!KindOf, l

\* The messages of the queue.
Msgs == [cmd : {"START", "CONTINUE", "STOP"}, bytes : Seq(Nat)]

\* An empty queue is all heard.
LEMMA LaidBegins ==
  ASSUME NEW g \in Seq(Nat)
  PROVE  \E l \in [0 .. Len(<<>>) -> 0 .. Len(g)] : Data!Laid(<<>>, g, g, l)
<1> DEFINE l == [i \in 0 .. 0 |-> Len(g)]
<1>1. Len(<<>>) = 0 /\ Len(g) \in Nat
  OBVIOUS
<1>2. l \in [0 .. 0 -> 0 .. Len(g)] /\ l[0] = Len(g)
  BY <1>1
<1> HIDE DEF l
<1>3. Data!Laid(<<>>, g, g, l)
  BY <1>1, <1>2 DEF Data!Laid
<1> QED BY <1>1, <1>2, <1>3

\* A message is put behind the others.
LEMMA LaidAppends ==
  ASSUME NEW q \in Seq(Msgs), NEW g \in Seq(Nat), NEW h \in Seq(Nat), NEW l, Data!Laid(q, g, h, l),
         Len(g) <= Len(h), NEW y \in Msgs
  PROVE  \E n \in [0 .. Len(Append(q, y)) -> 0 .. Len(h \o y.bytes)] :
            Data!Laid(Append(q, y), g, h \o y.bytes, n)
<1> DEFINE w == y.bytes
           x == h \o w
           r == Append(q, y)
           k == Len(q)
           n == [i \in 0 .. k + 1 |-> IF i <= k THEN l[i] ELSE Len(x)]
<1>0. w \in Seq(Nat)
  BY DEF Msgs
<1>1. /\ x \in Seq(Nat) /\ Len(x) = Len(h) + Len(w) /\ Len(h) \in Nat /\ Len(w) \in Nat
      /\ \A i \in 1 .. Len(h) : x[i] = h[i]
      /\ \A i \in 1 .. Len(w) : x[Len(h) + i] = w[i]
  BY <1>0, JoinIs
<1>2. k \in Nat /\ Len(r) = k + 1 /\ r[k + 1] = y /\ \A i \in 1 .. k : r[i] = q[i]
  OBVIOUS
<1>3. /\ l \in [0 .. k -> 0 .. Len(h)] /\ l[0] = Len(g) /\ l[k] = Len(h)
      /\ \A i \in 1 .. Len(g) : h[i] = g[i]
      /\ \A i \in 1 .. k :
            /\ l[i] = l[i - 1] + Len(q[i].bytes)
            /\ \A j \in 1 .. Len(q[i].bytes) : h[l[i - 1] + j] = q[i].bytes[j]
  BY DEF Data!Laid
<1>4. Len(g) \in Nat /\ \A i \in 1 .. k : q[i] \in Msgs /\ q[i].bytes \in Seq(Nat) /\ Len(q[i].bytes) \in Nat
  <2>1. \A i \in 1 .. k : q[i] \in Msgs
    BY ElementOfSeq, LenProperties
  <2>2. \A z \in Msgs : z.bytes \in Seq(Nat) /\ Len(z.bytes) \in Nat
    BY DEF Msgs
  <2> QED BY <2>1, <2>2
<1> HIDE DEF w, x, r, k
<1>5. /\ n \in [0 .. k + 1 -> 0 .. Len(x)] /\ n[0] = Len(g) /\ n[k + 1] = Len(x)
      /\ \A i \in 0 .. k : n[i] = l[i]
  <2>1. \A i \in 0 .. k : l[i] \in 0 .. Len(x)
    BY <1>1, <1>3
  <2> QED BY <1>1, <1>2, <1>3, <2>1
<1> HIDE DEF n
<1>6. \A i \in 1 .. Len(g) : x[i] = g[i]
  BY <1>1, <1>3, <1>4
<1>7. ASSUME NEW i \in 1 .. k + 1
      PROVE  /\ n[i] = n[i - 1] + Len(r[i].bytes)
             /\ \A j \in 1 .. Len(r[i].bytes) : x[n[i - 1] + j] = r[i].bytes[j]
  <2>1. CASE i \in 1 .. k
    <3>0. i \in 0 .. k /\ i - 1 \in 0 .. k
      BY <1>2, <2>1
    <3>1. r[i] = q[i] /\ n[i] = l[i] /\ n[i - 1] = l[i - 1]
      BY <1>2, <1>5, <2>1, <3>0
    <3>4. l[i] \in 0 .. Len(h) /\ l[i - 1] \in 0 .. Len(h)
      BY <1>3, <3>0
    <3>5. Len(q[i].bytes) \in Nat
      BY <1>4, <2>1
    <3>2. l[i] = l[i - 1] + Len(q[i].bytes)
      BY <1>3, <2>1
    <3>3. ASSUME NEW j \in 1 .. Len(q[i].bytes) PROVE x[l[i - 1] + j] = q[i].bytes[j]
      <4>1. l[i - 1] + j \in 1 .. Len(h)
        <5> DEFINE b == l[i - 1]  e == l[i]  d == Len(q[i].bytes)
        <5>1. b \in 0 .. Len(h) /\ e \in 0 .. Len(h) /\ d \in Nat /\ e = b + d /\ j \in 1 .. d
          BY <3>2, <3>4, <3>5
        <5> HIDE DEF b, e, d
        <5>2. b + j \in 1 .. Len(h)
          BY ONLY <1>1, <5>1
        <5> QED BY <5>2 DEF b
      <4>2. h[l[i - 1] + j] = q[i].bytes[j]
        BY <1>3, <2>1
      <4> QED BY <1>1, <4>1, <4>2
    <3> QED BY <3>1, <3>2, <3>3
  <2>2. CASE i = k + 1
    <3>1. r[i].bytes = w /\ n[i] = Len(x) /\ i - 1 = k /\ n[i - 1] = Len(h)
      BY <1>2, <1>3, <1>5, <2>2 DEF w
    <3> QED BY <1>1, <3>1
  <2> QED BY <1>2, <2>1, <2>2
<1>8. Data!Laid(r, g, x, n)
  BY <1>2, <1>5, <1>6, <1>7 DEF Data!Laid
<1>9. n \in [0 .. Len(r) -> 0 .. Len(x)]
  BY <1>2, <1>5
<1> QED BY <1>8, <1>9 DEF r, x, w

\* The first message is heard.
LEMMA LaidPlays ==
  ASSUME NEW q \in Seq(Msgs), q # <<>>, NEW g \in Seq(Nat), NEW h \in Seq(Nat), NEW l, Data!Laid(q, g, h, l)
  PROVE  /\ g \o q[1].bytes \in Seq(Nat) /\ Len(g \o q[1].bytes) <= Len(h)
         /\ \A i \in 1 .. Len(g \o q[1].bytes) : h[i] = (g \o q[1].bytes)[i]
         /\ \E n \in [0 .. Len(Tail(q)) -> 0 .. Len(h)] : Data!Laid(Tail(q), g \o q[1].bytes, h, n)
<1> DEFINE w == q[1].bytes
           x == g \o w
           r == Tail(q)
           k == Len(q)
           n == [i \in 0 .. k - 1 |-> l[i + 1]]
<1>1. k \in Nat /\ k >= 1 /\ Len(r) = k - 1 /\ r \in Seq(Msgs) /\ \A i \in 1 .. k - 1 : r[i] = q[i + 1]
  BY EmptySeq, HeadTailProperties
<1>2. \A i \in 1 .. k : q[i] \in Msgs /\ q[i].bytes \in Seq(Nat) /\ Len(q[i].bytes) \in Nat
  <2>1. \A i \in 1 .. k : q[i] \in Msgs
    BY ElementOfSeq, LenProperties
  <2>2. \A z \in Msgs : z.bytes \in Seq(Nat) /\ Len(z.bytes) \in Nat
    BY DEF Msgs
  <2> QED BY <2>1, <2>2
<1>3. w \in Seq(Nat)
  BY <1>1, <1>2
<1>4. /\ x \in Seq(Nat) /\ Len(x) = Len(g) + Len(w) /\ Len(g) \in Nat /\ Len(w) \in Nat
      /\ \A i \in 1 .. Len(g) : x[i] = g[i]
      /\ \A i \in 1 .. Len(w) : x[Len(g) + i] = w[i]
  BY <1>3, JoinIs
<1>5. /\ l \in [0 .. k -> 0 .. Len(h)] /\ l[0] = Len(g) /\ l[k] = Len(h)
      /\ \A i \in 1 .. Len(g) : h[i] = g[i]
      /\ \A i \in 1 .. k :
            /\ l[i] = l[i - 1] + Len(q[i].bytes)
            /\ \A j \in 1 .. Len(q[i].bytes) : h[l[i - 1] + j] = q[i].bytes[j]
  BY DEF Data!Laid
<1>6. Len(h) \in Nat
  OBVIOUS
<1> HIDE DEF x, r, k
<1>7. l[1] = Len(g) + Len(w) /\ \A j \in 1 .. Len(w) : h[Len(g) + j] = w[j]
  <2>1. 1 \in 1 .. k /\ 1 - 1 = 0
    BY <1>1
  <2>2. /\ l[1] = l[0] + Len(q[1].bytes)
        /\ \A j \in 1 .. Len(q[1].bytes) : h[l[0] + j] = q[1].bytes[j]
    BY <1>5, <2>1
  <2> QED BY <1>5, <2>2
<1> HIDE DEF w
<1>8. l[1] = Len(x) /\ Len(x) <= Len(h)
  <2>1. 1 \in 0 .. k
    BY <1>1
  <2>2. l[1] \in 0 .. Len(h)
    BY <1>5, <2>1
  <2> QED BY <1>4, <1>6, <1>7, <2>2
<1>9. \A i \in 1 .. Len(x) : h[i] = x[i]
  <2> TAKE i \in 1 .. Len(x)
  <2>1. CASE i \in 1 .. Len(g)
    BY <1>4, <1>5, <2>1
  <2>2. CASE i > Len(g)
    <3>1. i - Len(g) \in 1 .. Len(w) /\ Len(g) + (i - Len(g)) = i
      BY <1>4, <2>2
    <3>2. h[Len(g) + (i - Len(g))] = w[i - Len(g)] /\ x[Len(g) + (i - Len(g))] = w[i - Len(g)]
      BY ONLY <1>4, <1>7, <3>1
    <3> QED BY ONLY <3>1, <3>2
  <2> QED BY <1>4, <2>1, <2>2
<1>10. n \in [0 .. k - 1 -> 0 .. Len(h)] /\ n[0] = Len(x) /\ n[k - 1] = Len(h)
       /\ \A i \in 0 .. k - 1 : n[i] = l[i + 1]
  BY <1>1, <1>5, <1>8
<1> HIDE DEF n
<1>11. ASSUME NEW i \in 1 .. k - 1
       PROVE  /\ n[i] = n[i - 1] + Len(r[i].bytes)
              /\ \A j \in 1 .. Len(r[i].bytes) : h[n[i - 1] + j] = r[i].bytes[j]
  <2>1. r[i] = q[i + 1] /\ n[i] = l[i + 1] /\ n[i - 1] = l[i] /\ i + 1 \in 1 .. k /\ i + 1 - 1 = i
    BY <1>1, <1>10
  <2>2. /\ l[i + 1] = l[i] + Len(q[i + 1].bytes)
        /\ \A j \in 1 .. Len(q[i + 1].bytes) : h[l[i] + j] = q[i + 1].bytes[j]
    BY <1>5, <2>1
  <2> QED BY <2>1, <2>2
<1>12. Data!Laid(r, x, h, n) /\ n \in [0 .. Len(r) -> 0 .. Len(h)]
  BY <1>1, <1>9, <1>10, <1>11 DEF Data!Laid
<1> QED BY <1>4, <1>8, <1>9, <1>12 DEF r, x, w

\* What is heard is the front of what is laid out.
LEMMA LaidIsBehind ==
  ASSUME NEW q \in Seq(Msgs), NEW g \in Seq(Nat), NEW h \in Seq(Nat), NEW l, Data!Laid(q, g, h, l)
  PROVE  Len(g) <= Len(h) /\ \A i \in 1 .. Len(g) : h[i] = g[i]
<1>1. Len(q) \in Nat /\ Len(h) \in Nat /\ 0 \in 0 .. Len(q)
  OBVIOUS
<1>2. l \in [0 .. Len(q) -> 0 .. Len(h)] /\ l[0] = Len(g) /\ \A i \in 1 .. Len(g) : h[i] = g[i]
  BY DEF Data!Laid
<1>3. l[0] \in 0 .. Len(h)
  BY ONLY <1>1, <1>2
<1>4. Len(g) <= Len(h)
  BY ONLY <1>1, <1>2, <1>3
<1> QED BY ONLY <1>2, <1>4

\* What mdm_media_data_out_handler leaves, the messages included.
Outs == [skip : Nat \cup {-1}, header : {0} \cup {m.front : m \in Offered},
         refused : BOOLEAN, sent : Seq(Msgs)]

\* A later piece: within the tag, where it ends, or behind it.
LEMMA OutLater ==
  ASSUME NEW o \in Outs, NEW pos \in {"MID", "LAST"}, NEW w \in Seq(Nat), NEW o1, o1 = Data!Out(o, pos, w)
  PROVE  /\ o1 \in Outs /\ o1.refused = o.refused /\ o1.header = o.header
         /\ o.skip >= Len(w) => o1.skip = o.skip - Len(w) /\ o1.sent = o.sent
         /\ o.skip >= 0 /\ o.skip < Len(w) =>
               /\ o1.skip = -1
               /\ o1.sent = Append(o.sent, Data!Message("START", SubSeq(w, o.skip + 1, Len(w))))
               /\ Data!Message("START", SubSeq(w, o.skip + 1, Len(w))) \in Msgs
         /\ o.skip = -1 =>
               /\ o1.skip = -1
               /\ o1.sent = Append(o.sent, Data!Message(IF pos = "MID" THEN "CONTINUE" ELSE "STOP", w))
               /\ Data!Message(IF pos = "MID" THEN "CONTINUE" ELSE "STOP", w) \in Msgs
<1>1. /\ o.skip \in Nat \cup {-1} /\ o.sent \in Seq(Msgs) /\ o.refused \in BOOLEAN
      /\ o.header \in {0} \cup {m.front : m \in Offered} /\ Len(w) \in Nat
      /\ o = [skip |-> o.skip, header |-> o.header, refused |-> o.refused, sent |-> o.sent]
  BY DEF Outs
<1> DEFINE c == IF pos = "MID" THEN "CONTINUE" ELSE "STOP"
           y == Data!Message(c, w)
<1>2. c \in {"CONTINUE", "STOP"} /\ y \in Msgs
  BY DEF Msgs, Data!Message
<1>3. CASE o.skip >= Len(w)
  <2>1. o1 = [o EXCEPT !.skip = o.skip - Len(w)]
    BY <1>1, <1>3 DEF Data!Out, Data!TagNow
  <2>2. o.skip - Len(w) \in Nat
    BY <1>1, <1>3
  <2>3. o1.skip = o.skip - Len(w) /\ o1.sent = o.sent /\ o1.refused = o.refused /\ o1.header = o.header
        /\ o1 \in Outs
    BY <1>1, <2>1, <2>2 DEF Outs
  <2> QED BY <1>1, <1>3, <2>3
<1>4. CASE o.skip >= 0 /\ o.skip < Len(w)
  <2> DEFINE t == SubSeq(w, o.skip + 1, Len(w))
             z == Data!Message("START", t)
  <2>1. t \in Seq(Nat)
    BY <1>1, <1>4, PushBehind
  <2> HIDE DEF t
  <2>2. z \in Msgs
    BY <2>1 DEF Msgs, Data!Message
  <2>3. o.skip \in 0 .. Len(w) - 1 /\ ~(o.skip >= Len(w))
    BY <1>1, <1>4
  <2>4. o1 = [o EXCEPT !.skip = -1, !.sent = @ \o <<z>>]
    BY <1>1, <2>3 DEF Data!Out, Data!TagNow, t
  <2> HIDE DEF z
  <2>5. o.sent \o <<z>> = Append(o.sent, z) /\ Append(o.sent, z) \in Seq(Msgs)
    BY <1>1, <2>2, AppendIsConcat, AppendProperties
  <2>6. o1.skip = -1 /\ o1.sent = Append(o.sent, z) /\ o1.refused = o.refused /\ o1.header = o.header
        /\ o1 \in Outs
    BY <1>1, <2>4, <2>5 DEF Outs
  <2> QED BY <1>1, <1>4, <2>2, <2>3, <2>6 DEF t, z
<1>5. CASE o.skip = -1
  <2>1. ~(o.skip \in 0 .. Len(w) - 1) /\ ~(o.skip >= Len(w))
    BY <1>1, <1>5
  <2>2. o1 = [o EXCEPT !.skip = -1, !.header = o.header, !.sent = @ \o <<>> \o <<y>>]
    BY <1>1, <2>1 DEF Data!Out, Data!TagNow
  <2> HIDE DEF y
  <2>3. o.sent \o <<>> \o <<y>> = Append(o.sent, y) /\ Append(o.sent, y) \in Seq(Msgs)
    <3>1. o.sent \o <<>> = o.sent
      BY <1>1, ConcatEmptySeq
    <3> QED BY <1>1, <1>2, <3>1, AppendIsConcat, AppendProperties
  <2>4. o1.skip = -1 /\ o1.sent = Append(o.sent, y) /\ o1.refused = o.refused /\ o1.header = o.header
        /\ o1 \in Outs
    BY <1>1, <2>2, <2>3 DEF Outs
  <2> QED BY <1>1, <1>2, <1>5, <2>1, <2>4 DEF y
<1> QED BY <1>1, <1>3, <1>4, <1>5

\* The first piece: refused, within the tag, where the tag ends, or the
\* beginning of what is played, with the header in front when it goes on.
LEMMA OutFirst ==
  ASSUME NEW o \in Outs, o.sent = <<>>, NEW w \in Seq(Nat), NEW o1, o1 = Data!Out(o, "FIRST", w),
         s3 \in Offered, s4 \in Nat
  PROVE  /\ o1 \in Outs
         /\ \/ /\ s4 = 0 /\ ~Data!SupportsFormat(w, Data!MediaType(s3))
               /\ o1.refused /\ o1.skip = o.skip /\ o1.header = o.header /\ o1.sent = <<>>
            \/ /\ Data!Tagged(s3) /\ Len(w) > MIN_ID3V2_LENGTH /\ Head(w) = 1
               /\ s3.front >= Len(w) /\ o1.refused = o.refused
               /\ o1.skip = s3.front - Len(w) /\ o1.header = o.header /\ o1.sent = <<>>
            \/ /\ Data!Tagged(s3) /\ Head(w) = 1 /\ s3.front < Len(w)
               /\ o1.refused = o.refused /\ o1.skip = -1 /\ o1.header = o.header
               /\ o1.sent = <<Data!Message("START", SubSeq(w, s3.front + 1, Len(w)))>>
            \/ /\ Data!Headed(s3) /\ s4 > 0 /\ o.header > 0
               /\ o1.refused = o.refused /\ o1.skip = -1 /\ o1.header = o.header
               /\ o1.sent = <<Data!Message("START", Data!Piece(0, o.header)), Data!Message("CONTINUE", w)>>
            \/ /\ ~(Data!Headed(s3) /\ s4 > 0 /\ o.header > 0)
               /\ o1.refused = o.refused /\ o1.skip = -1
               /\ o1.header = IF Data!Headed(s3) /\ s4 = 0 THEN Data!HeaderIn(w) ELSE o.header
               /\ o1.sent = <<Data!Message("START", w)>>
<1>1. /\ o.skip \in Nat \cup {-1} /\ o.refused \in BOOLEAN
      /\ o.header \in {0} \cup {m.front : m \in Offered} /\ o.header \in Nat /\ Len(w) \in Nat
      /\ o = [skip |-> o.skip, header |-> o.header, refused |-> o.refused, sent |-> <<>>]
  BY MediaAssumption DEF Outs
<1>2. /\ s3.front \in Nat /\ ~(Data!Headed(s3) /\ Data!Tagged(s3)) /\ MIN_ID3V2_LENGTH \in Nat
  BY MediumIs, MediaAssumption
<1> DEFINE refuse == s4 = 0 /\ ~Data!SupportsFormat(w, Data!MediaType(s3))
           tag == Data!TagIn(w)
           twice == Data!Headed(s3) /\ s4 > 0 /\ o.header > 0
           hd == IF Data!Headed(s3) /\ s4 = 0 THEN Data!HeaderIn(w) ELSE o.header
           yy == IF twice THEN "CONTINUE" ELSE "START"
           fr == IF twice THEN <<Data!Message("START", Data!Piece(0, o.header))>> ELSE <<>>
<1>3. o1 = CASE refuse -> [o EXCEPT !.refused = TRUE]
             [] ~refuse /\ tag >= Len(w) -> [o EXCEPT !.skip = tag - Len(w)]
             [] ~refuse /\ tag \in 0..Len(w) - 1 ->
                  [o EXCEPT !.skip = -1,
                            !.sent = @ \o <<Data!Message("START", SubSeq(w, tag + 1, Len(w)))>>]
             [] OTHER -> [o EXCEPT !.skip = -1, !.header = hd,
                                   !.sent = @ \o fr \o <<Data!Message(yy, w)>>]
  <2>1. ~(s4 > 0) <=> s4 = 0
    OBVIOUS
  <2>2. ("FIRST" = "FIRST") /\ ~("FIRST" = "MID")
    OBVIOUS
  <2>3. (CASE twice \/ "FIRST" = "MID" -> "CONTINUE" [] TRUE /\ ~twice -> "START" [] OTHER -> "STOP") = yy
    BY <2>2
  <2> QED BY <2>1, <2>2, <2>3 DEF Data!Out, Data!TagNow, Data!Headed
<1>4. tag = -1 \/ (tag = s3.front /\ Data!Tagged(s3) /\ Len(w) > MIN_ID3V2_LENGTH /\ Head(w) = 1)
  BY DEF Data!TagIn, Data!Tagged
<1>5. hd \in {0} \cup {m.front : m \in Offered}
  BY <1>1 DEF Data!HeaderIn
<1> HIDE DEF refuse, tag, hd
<1>6. CASE refuse
  <2>1. o1 = [o EXCEPT !.refused = TRUE]
    BY <1>3, <1>6
  <2>2. o1.refused /\ o1.skip = o.skip /\ o1.header = o.header /\ o1.sent = <<>> /\ o1 \in Outs
    BY <1>1, <2>1 DEF Outs
  <2> QED BY <1>6, <2>2 DEF refuse
<1>7. CASE ~refuse /\ tag >= Len(w)
  <2>1. o1 = [o EXCEPT !.skip = tag - Len(w)]
    BY <1>3, <1>7
  <2>2. tag = s3.front /\ Data!Tagged(s3) /\ Len(w) > MIN_ID3V2_LENGTH /\ Head(w) = 1
    BY <1>1, <1>4, <1>7
  <2>3. s3.front - Len(w) \in Nat
    BY <1>1, <1>2, <1>7, <2>2
  <2>4. /\ o1.refused = o.refused /\ o1.skip = s3.front - Len(w) /\ o1.header = o.header
        /\ o1.sent = <<>> /\ o1 \in Outs
    BY <1>1, <2>1, <2>2, <2>3 DEF Outs
  <2> QED BY <1>7, <2>2, <2>4
<1>8. CASE ~refuse /\ tag \in 0 .. Len(w) - 1
  <2>1. ~(tag >= Len(w)) /\ tag # -1
    BY <1>1, <1>8
  <2>2. tag = s3.front /\ Data!Tagged(s3) /\ Head(w) = 1 /\ s3.front < Len(w)
    BY <1>1, <1>2, <1>4, <1>8, <2>1
  <2> DEFINE z == Data!Message("START", SubSeq(w, tag + 1, Len(w)))
  <2>3. z \in Msgs
    <3>1. tag \in Nat /\ tag <= Len(w) /\ w \in Seq(Nat)
      BY <1>1, <1>2, <2>2
    <3>2. SubSeq(w, tag + 1, Len(w)) \in Seq(Nat)
      BY ONLY <3>1, PushBehind
    <3> QED BY <3>2 DEF Msgs, Data!Message
  <2>4. o1 = [o EXCEPT !.skip = -1, !.sent = @ \o <<z>>]
    BY <1>3, <1>8, <2>1
  <2> HIDE DEF z
  <2>5. <<>> \o <<z>> = <<z>> /\ <<z>> \in Seq(Msgs)
    BY <2>3
  <2>6. /\ o1.refused = o.refused /\ o1.skip = -1 /\ o1.header = o.header /\ o1.sent = <<z>>
        /\ o1 \in Outs
    BY <1>1, <2>4, <2>5 DEF Outs
  <2> QED BY <2>2, <2>6 DEF z
<1>9. CASE ~refuse /\ ~(tag >= Len(w)) /\ ~(tag \in 0 .. Len(w) - 1)
  <2> DEFINE z == Data!Message(yy, w)
  <2>1. o1 = [o EXCEPT !.skip = -1, !.header = hd, !.sent = @ \o fr \o <<z>>]
    BY <1>3, <1>9
  <2>2. z \in Msgs
    BY DEF Msgs, Data!Message
  <2>3. CASE twice
    <3> DEFINE x == Data!Message("START", Data!Piece(0, o.header))
    <3>1. x \in Msgs
      <4>1. 0 \in Nat /\ o.header \in Nat /\ 0 <= o.header
        BY <1>1
      <4>2. Data!Piece(0, o.header) \in Seq(Nat)
        BY ONLY <4>1, PieceIs
      <4> QED BY <4>2 DEF Msgs, Data!Message
    <3>2. z = Data!Message("CONTINUE", w) /\ fr = <<x>>
      BY <2>3
    <3> HIDE DEF x, z
    <3>3. <<>> \o fr \o <<z>> = <<x, z>> /\ <<x, z>> \in Seq(Msgs)
      <4>1. <<x>> \in Seq(Msgs) /\ <<z>> \in Seq(Msgs)
        BY <2>2, <3>1
      <4>2. <<>> \o <<x>> = <<x>> /\ <<x>> \o <<z>> = Append(<<x>>, z) /\ Append(<<x>>, z) \in Seq(Msgs)
        BY <2>2, <4>1, ConcatEmptySeq, AppendIsConcat, AppendProperties
      <4>3. Append(<<x>>, z) = <<x, z>>
        <5> DEFINE u == Append(<<x>>, z)  v == <<x, z>>
        <5>1. v \in Seq(Msgs) /\ Len(v) = 2 /\ v[1] = x /\ v[2] = z
          BY <2>2, <3>1
        <5>2. u \in Seq(Msgs) /\ Len(u) = 2 /\ u[1] = x /\ u[2] = z
          <6>1. Len(<<x>>) = 1 /\ <<x>>[1] = x
            OBVIOUS
          <6> QED BY <2>2, <4>1, <6>1, AppendProperties
        <5> HIDE DEF u, v
        <5>3. \A i \in 1 .. Len(u) : u[i] = v[i]
          BY <5>1, <5>2
        <5>4. u = v
          BY <5>1, <5>2, <5>3, SeqEqual
        <5> QED BY <5>4 DEF u, v
      <4> QED BY <3>2, <4>2, <4>3
    <3>4. hd = o.header
      BY <2>3 DEF hd
    <3>5. /\ o1.refused = o.refused /\ o1.skip = -1 /\ o1.header = o.header /\ o1.sent = <<x, z>>
          /\ o1 \in Outs
      <4> DEFINE v == <<>> \o fr \o <<z>>
      <4>1. o1 = [o EXCEPT !.skip = -1, !.header = hd, !.sent = v]
        BY <1>1, <2>1
      <4>2. v = <<x, z>> /\ v \in Seq(Msgs)
        BY <3>3
      <4> HIDE DEF v, fr, yy, twice
      <4> QED BY <1>1, <1>5, <3>4, <4>1, <4>2 DEF Outs
    <3> QED BY <2>3, <3>2, <3>5 DEF x
  <2>4. CASE ~twice
    <3>1. z = Data!Message("START", w) /\ fr = <<>>
      BY <2>4
    <3> HIDE DEF z
    <3>2. <<>> \o fr \o <<z>> = <<z>> /\ <<z>> \in Seq(Msgs)
      <4>1. <<z>> \in Seq(Msgs) /\ <<>> \in Seq(Msgs)
        BY <2>2
      <4>2. <<>> \o <<>> = <<>> /\ <<>> \o <<z>> = <<z>>
        BY <4>1, ConcatEmptySeq
      <4> QED BY <3>1, <4>1, <4>2
    <3>3. /\ o1.refused = o.refused /\ o1.skip = -1 /\ o1.header = hd /\ o1.sent = <<z>>
          /\ o1 \in Outs
      <4> DEFINE v == <<>> \o fr \o <<z>>
      <4>1. o1 = [o EXCEPT !.skip = -1, !.header = hd, !.sent = v]
        BY <1>1, <2>1
      <4>2. v = <<z>> /\ v \in Seq(Msgs)
        BY <3>2
      <4> HIDE DEF v, fr, yy, twice
      <4> QED BY <1>1, <1>5, <4>1, <4>2 DEF Outs
    <3> QED BY <2>4, <3>1, <3>3 DEF hd
  <2> QED BY <2>3, <2>4
<1> QED BY <1>6, <1>7, <1>8, <1>9

\* The player has not been started, and q does not start it.
Unst(q) == s13 = 0 /\ s12 = "IDLE" /\ ~Data!Starts(q)
\* At most one message of q starts the player, which has not been started.
OneStart(q) ==
  \A i \in 1 .. Len(q) : q[i].cmd = "START" =>
     /\ s13 = 0 /\ s12 = "IDLE"
     /\ \A j \in 1 .. Len(q) : q[j].cmd = "START" => j = i
\* While a tag is skipped, or the format was refused, the player is not started.
HoldsBack(o, q) == OneStart(q) /\ (o.skip >= 0 \/ o.refused => Unst(q))
\* What holds of the thread when it has given q.
StartedBy(o, q, bg) ==
  /\ HoldsBack(o, q)
  /\ ~bg => Unst(q) /\ ~o.refused
  /\ bg /\ ~o.refused /\ o.skip >= 0 => Data!Tagged(s3)

\* While a tag is skipped, the bytes up to e are of it, and so is what is to skip.
InTag(o, bg, e) ==
  bg /\ ~o.refused /\ o.skip >= 0 => s4 = 0 /\ e + o.skip = s3.front

\* A message behind the others.
LEMMA MessageBehind ==
  ASSUME NEW q \in Seq(Msgs), NEW s \in Seq(Msgs), NEW y \in Msgs
  PROVE  /\ q \o Append(s, y) = Append(q \o s, y) /\ q \o s \in Seq(Msgs)
         /\ Append(q \o s, y) \in Seq(Msgs)
<1>1. q \o s \in Seq(Msgs)
  BY ConcatProperties
<1>2. Append(s, y) = s \o <<y>> /\ Append(q \o s, y) = (q \o s) \o <<y>> /\ <<y>> \in Seq(Msgs)
  BY <1>1, AppendIsConcat
<1>3. q \o (s \o <<y>>) = (q \o s) \o <<y>>
  BY <1>2, ConcatAssociative
<1>4. Append(q \o s, y) \in Seq(Msgs)
  BY <1>1, AppendProperties
<1> QED BY <1>1, <1>2, <1>3, <1>4

\* What a message behind the others changes.
LEMMA MoreIs ==
  ASSUME NEW q \in Seq(Msgs), NEW y \in Msgs
  PROVE  /\ Append(q, y) \in Seq(Msgs) /\ Len(q) \in Nat
         /\ Len(Append(q, y)) = Len(q) + 1 /\ Append(q, y)[Len(q) + 1] = y
         /\ \A i \in 1 .. Len(q) : Append(q, y)[i] = q[i]
         /\ Data!Starts(Append(q, y)) <=> Data!Starts(q) \/ y.cmd = "START"
         /\ Data!Stops(Append(q, y)) <=> Data!Stops(q) \/ y.cmd = "STOP"
         /\ y.cmd # "START" /\ OneStart(q) => OneStart(Append(q, y))
         /\ Unst(q) => OneStart(Append(q, y))
         /\ ~Data!Starts(q) => OneStart(q)
<1> DEFINE r == Append(q, y)
           k == Len(q)
<1>1. /\ r \in Seq(Msgs) /\ k \in Nat /\ Len(r) = k + 1 /\ r[k + 1] = y
      /\ \A i \in 1 .. k : r[i] = q[i]
  BY AppendProperties
<1> HIDE DEF r
<1>2. \A i \in 1 .. k + 1 : i \in 1 .. k \/ i = k + 1
  BY <1>1
<1>3. k + 1 \in 1 .. k + 1 /\ \A i \in 1 .. k : i \in 1 .. k + 1
  BY <1>1
<1> HIDE DEF k
<1>4. (Data!Starts(r) <=> Data!Starts(q) \/ y.cmd = "START") /\ (Data!Stops(r) <=> Data!Stops(q) \/ y.cmd = "STOP")
  <2>1. Data!Starts(r) <=> \E i \in 1 .. k + 1 : r[i].cmd = "START"
    BY <1>1 DEF Data!Starts
  <2>2. Data!Stops(r) <=> \E i \in 1 .. k + 1 : r[i].cmd = "STOP"
    BY <1>1 DEF Data!Stops
  <2>3. Data!Starts(q) <=> \E i \in 1 .. k : q[i].cmd = "START"
    BY DEF Data!Starts, k
  <2>4. Data!Stops(q) <=> \E i \in 1 .. k : q[i].cmd = "STOP"
    BY DEF Data!Stops, k
  <2>5. Data!Starts(r) <=> Data!Starts(q) \/ y.cmd = "START"
    BY ONLY <1>1, <1>2, <1>3, <2>1, <2>3
  <2>6. Data!Stops(r) <=> Data!Stops(q) \/ y.cmd = "STOP"
    BY ONLY <1>1, <1>2, <1>3, <2>2, <2>4
  <2> QED BY <2>5, <2>6
<1>5. ASSUME y.cmd # "START", OneStart(q) PROVE OneStart(r)
  <2>1. \A i \in 1 .. k : q[i].cmd = "START" =>
           /\ s13 = 0 /\ s12 = "IDLE"
           /\ \A j \in 1 .. k : q[j].cmd = "START" => j = i
    BY <1>5 DEF OneStart, k
  <2>2. \A i \in 1 .. k + 1 : r[i].cmd = "START" =>
           /\ s13 = 0 /\ s12 = "IDLE"
           /\ \A j \in 1 .. k + 1 : r[j].cmd = "START" => j = i
    BY <1>1, <1>2, <1>5, <2>1
  <2> QED BY <1>1, <2>2 DEF OneStart
<1>6. ASSUME Unst(q) PROVE OneStart(r)
  <2>1. s13 = 0 /\ s12 = "IDLE" /\ \A i \in 1 .. k : q[i].cmd # "START"
    BY <1>6 DEF Unst, Data!Starts, k
  <2>2. \A i \in 1 .. k + 1 : r[i].cmd = "START" =>
           /\ s13 = 0 /\ s12 = "IDLE"
           /\ \A j \in 1 .. k + 1 : r[j].cmd = "START" => j = i
    BY <1>1, <1>2, <2>1
  <2> QED BY <1>1, <2>2 DEF OneStart
<1>7. ~Data!Starts(q) => OneStart(q)
  BY DEF Data!Starts, OneStart
<1> QED BY <1>1, <1>4, <1>5, <1>6, <1>7 DEF r, k

\* A later piece starts the player only when a tag ends in it, and the last one
\* ends it, unless it was not started or the tag ends in the last piece.
LEMMA StartLater ==
  ASSUME NEW o \in Outs, NEW pos \in {"MID", "LAST"}, NEW w \in Seq(Nat), NEW o1, o1 = Data!Out(o, pos, w),
         s11 \in Seq(Msgs), HoldsBack(o, s11 \o o.sent), ~o.refused \/ w = <<>>
  PROVE  /\ o1 \in Outs /\ s11 \o o1.sent \in Seq(Msgs)
         /\ o1.refused = o.refused /\ HoldsBack(o1, s11 \o o1.sent)
         /\ o1.skip >= 0 => o.skip >= 0
         /\ pos = "LAST" =>
              \/ Unst(s11 \o o1.sent) \/ Data!Stops(s11 \o o1.sent)
              \/ o.skip >= 0 /\ o.skip < Len(w) /\ ~o.refused
<1> DEFINE q == s11 \o o.sent
           q1 == s11 \o o1.sent
           t == SubSeq(w, o.skip + 1, Len(w))
           z == Data!Message("START", t)
           c == IF pos = "MID" THEN "CONTINUE" ELSE "STOP"
           y == Data!Message(c, w)
<1>1. /\ o1 \in Outs /\ o1.refused = o.refused
      /\ o.skip >= Len(w) => o1.skip = o.skip - Len(w) /\ o1.sent = o.sent
      /\ o.skip >= 0 /\ o.skip < Len(w) =>
            o1.skip = -1 /\ o1.sent = Append(o.sent, z) /\ z \in Msgs
      /\ o.skip = -1 => o1.skip = -1 /\ o1.sent = Append(o.sent, y) /\ y \in Msgs
  <2>1. /\ o1 \in Outs /\ o1.refused = o.refused
        /\ o.skip >= Len(w) => o1.skip = o.skip - Len(w) /\ o1.sent = o.sent
        /\ o.skip >= 0 /\ o.skip < Len(w) =>
              /\ o1.skip = -1
              /\ o1.sent = Append(o.sent, Data!Message("START", SubSeq(w, o.skip + 1, Len(w))))
              /\ Data!Message("START", SubSeq(w, o.skip + 1, Len(w))) \in Msgs
        /\ o.skip = -1 =>
              /\ o1.skip = -1
              /\ o1.sent = Append(o.sent, Data!Message(IF pos = "MID" THEN "CONTINUE" ELSE "STOP", w))
              /\ Data!Message(IF pos = "MID" THEN "CONTINUE" ELSE "STOP", w) \in Msgs
    BY ONLY o \in Outs, pos \in {"MID", "LAST"}, w \in Seq(Nat), o1 = Data!Out(o, pos, w), OutLater
  <2> QED BY ONLY <2>1, Zenon DEF z, t, y, c
<1>2. /\ o.skip \in Nat \cup {-1} /\ o.sent \in Seq(Msgs) /\ Len(w) \in Nat
      /\ (w = <<>> <=> Len(w) = 0)
  BY EmptySeq DEF Outs
<1>3. q \in Seq(Msgs)
  BY <1>2, ConcatProperties
<1>4. z.cmd = "START" /\ y.cmd = c /\ c # "START" /\ (pos = "LAST" => c = "STOP")
  BY DEF Data!Message
<1>5. HoldsBack(o, q)
  OBVIOUS
<1> HIDE DEF z, y, c, q, q1
<1>6. CASE o.skip >= Len(w)
  <2>0. o1.sent = o.sent /\ o1.skip = o.skip - Len(w)
    BY <1>1, <1>6
  <2>3. q1 = q
    BY ONLY <2>0 DEF q, q1
  <2>1. q1 = q /\ o1.skip = o.skip - Len(w) /\ o.skip >= 0
    BY ONLY <1>2, <1>6, <2>0, <2>3
  <2>2. Unst(q1) /\ OneStart(q1)
    BY <1>5, <2>1 DEF HoldsBack
  <2> QED BY <1>1, <1>3, <2>1, <2>2 DEF q, q1, HoldsBack
<1>7. CASE o.skip >= 0 /\ o.skip < Len(w)
  <2>1. z \in Msgs /\ o1.skip = -1 /\ o1.sent = Append(o.sent, z)
    BY <1>1, <1>7
  <2>2. q1 = Append(q, z) /\ q1 \in Seq(Msgs)
    <3>1. o.sent \in Seq(Msgs)
      BY <1>2
    <3>2. /\ s11 \o Append(o.sent, z) = Append(s11 \o o.sent, z)
          /\ Append(s11 \o o.sent, z) \in Seq(Msgs)
      BY ONLY s11 \in Seq(Msgs), <2>1, <3>1, MessageBehind
    <3> QED BY ONLY <2>1, <3>2 DEF q, q1
  <2>3. Unst(q) /\ w # <<>> /\ ~o.refused
    BY <1>2, <1>5, <1>7 DEF HoldsBack
  <2>4. OneStart(q1)
    BY <1>3, <2>1, <2>2, <2>3, MoreIs
  <2>5. HoldsBack(o1, q1)
    BY <1>1, <2>1, <2>3, <2>4 DEF HoldsBack
  <2> QED BY <1>1, <1>7, <2>1, <2>2, <2>3, <2>5 DEF q1
<1>8. CASE o.skip = -1
  <2>1. y \in Msgs /\ o1.skip = -1 /\ o1.sent = Append(o.sent, y)
    BY <1>1, <1>8
  <2>2. q1 = Append(q, y) /\ q1 \in Seq(Msgs)
    <3>1. o.sent \in Seq(Msgs)
      BY <1>2
    <3>2. /\ s11 \o Append(o.sent, y) = Append(s11 \o o.sent, y)
          /\ Append(s11 \o o.sent, y) \in Seq(Msgs)
      BY ONLY s11 \in Seq(Msgs), <2>1, <3>1, MessageBehind
    <3> QED BY ONLY <2>1, <3>2 DEF q, q1
  <2>3. OneStart(q) /\ (o.refused => Unst(q))
    BY <1>5 DEF HoldsBack
  <2>4. OneStart(q1) /\ (Data!Starts(q1) <=> Data!Starts(q)) /\ (pos = "LAST" => Data!Stops(q1))
    BY <1>3, <1>4, <2>1, <2>2, <2>3, MoreIs
  <2>5. HoldsBack(o1, q1)
    BY <1>1, <2>1, <2>3, <2>4 DEF HoldsBack, Unst
  <2> QED BY <1>1, <2>1, <2>2, <2>4, <2>5 DEF q1
<1> QED BY <1>2, <1>6, <1>7, <1>8

\* The first piece starts the player, unless it is within a tag or refused.
LEMMA StartFirst ==
  ASSUME NEW o \in Outs, o.sent = <<>>, NEW w \in Seq(Nat), NEW o1, o1 = Data!Out(o, "FIRST", w),
         s3 \in Offered, s4 \in Nat,
         s11 \in Seq(Msgs), Unst(s11), ~o.refused
  PROVE  /\ o1 \in Outs /\ s11 \o o1.sent \in Seq(Msgs)
         /\ StartedBy(o1, s11 \o o1.sent, TRUE)
<1> DEFINE q == s11 \o o1.sent
           x == Data!Message("START", Data!Piece(0, o.header))
           y == Data!Message("CONTINUE", w)
           t == Data!Message("START", SubSeq(w, s3.front + 1, Len(w)))
           z == Data!Message("START", w)
<1>1. /\ o1 \in Outs
      /\ \/ o1.refused /\ o1.sent = <<>>
         \/ Data!Tagged(s3) /\ o1.refused = o.refused /\ o1.sent = <<>>
         \/ o1.refused = o.refused /\ o1.skip = -1 /\ o1.sent = <<t>>
         \/ o1.refused = o.refused /\ o1.skip = -1 /\ o1.sent = <<x, y>>
         \/ o1.refused = o.refused /\ o1.skip = -1 /\ o1.sent = <<z>>
  BY OutFirst
<1>2. o1.sent \in Seq(Msgs) /\ q \in Seq(Msgs) /\ s11 \o <<>> = s11
  BY <1>1, ConcatProperties, ConcatEmptySeq DEF Outs
<1>3. t.cmd = "START" /\ x.cmd = "START" /\ z.cmd = "START" /\ y.cmd = "CONTINUE"
  BY DEF Data!Message
<1>4. Unst(s11) => OneStart(s11)
  BY DEF Unst, OneStart, Data!Starts
<1> HIDE DEF q, x, y, t, z
<1>5. ASSUME o1.sent = <<>> /\ (o1.refused \/ Data!Tagged(s3))
      PROVE  StartedBy(o1, q, TRUE)
  <2>1. q = s11
    BY <1>2, <1>5 DEF q
  <2> QED BY <1>1, <1>2, <1>4, <1>5, <2>1 DEF q, StartedBy, HoldsBack
<1>6. ASSUME NEW v \in Msgs, o1.sent = <<v>>, o1.refused = o.refused, o1.skip = -1
      PROVE  StartedBy(o1, q, TRUE)
  <2>1. q = Append(s11, v)
    BY <1>6, AppendIsConcat DEF q
  <2>2. OneStart(q)
    BY <1>6, <2>1, MoreIs
  <2> QED BY <1>6, <2>2 DEF StartedBy, HoldsBack
<1>7. ASSUME o1.sent = <<x, y>> /\ o1.refused = o.refused /\ o1.skip = -1
      PROVE  StartedBy(o1, q, TRUE)
  <2>1. Len(o1.sent) = 2 /\ o1.sent[1] = x /\ o1.sent[2] = y
    BY ONLY <1>7
  <2>2. x \in Msgs /\ y \in Msgs
    BY <1>2, <2>1, ElementOfSeq
  <2>3. q = Append(Append(s11, x), y)
    <3>1. <<x, y>> = Append(<<x>>, y) /\ <<x>> = Append(<<>>, x) /\ <<>> \in Seq(Msgs)
      OBVIOUS
    <3>2. s11 \o Append(<<>>, x) = Append(s11 \o <<>>, x) /\ <<x>> \in Seq(Msgs)
      BY <2>2, <3>1, MessageBehind
    <3>3. s11 \o Append(<<x>>, y) = Append(s11 \o <<x>>, y)
      BY <2>2, <3>2, MessageBehind
    <3> QED BY <1>2, <1>7, <3>1, <3>2, <3>3 DEF q
  <2>4. OneStart(Append(s11, x)) /\ Append(s11, x) \in Seq(Msgs)
    BY <2>2, MoreIs
  <2>5. OneStart(q)
    BY <1>3, <2>2, <2>3, <2>4, MoreIs
  <2>6. ~(o1.skip >= 0) /\ ~o1.refused
    BY ONLY <1>7, ~o.refused
  <2> QED BY <2>5, <2>6 DEF StartedBy, HoldsBack
<1>8. ASSUME NEW v, o1.sent = <<v>> PROVE v \in Msgs
  <2>1. Len(o1.sent) = 1 /\ o1.sent[1] = v
    BY ONLY <1>8
  <2> QED BY <1>2, <2>1, ElementOfSeq
<1>9. StartedBy(o1, q, TRUE)
  <2>1. CASE o1.sent = <<t>> /\ o1.refused = o.refused /\ o1.skip = -1
    BY ONLY <1>6, <1>8, <2>1
  <2>2. CASE o1.sent = <<z>> /\ o1.refused = o.refused /\ o1.skip = -1
    BY ONLY <1>6, <1>8, <2>2
  <2>3. CASE o1.refused /\ o1.sent = <<>>
    BY ONLY <1>5, <2>3
  <2>4. CASE Data!Tagged(s3) /\ o1.refused = o.refused /\ o1.sent = <<>>
    BY ONLY <1>5, <2>4
  <2>5. CASE o1.refused = o.refused /\ o1.skip = -1 /\ o1.sent = <<x, y>>
    BY ONLY <1>7, <2>5
  <2>6. CASE o1.refused = o.refused /\ o1.skip = -1 /\ o1.sent = <<t>>
    BY ONLY <2>1, <2>6
  <2>7. CASE o1.refused = o.refused /\ o1.skip = -1 /\ o1.sent = <<z>>
    BY ONLY <2>2, <2>7
  <2> QED BY <1>1, <2>3, <2>4, <2>5, <2>6, <2>7
<1> QED BY <1>1, <1>2, <1>9 DEF q

\* The player plays, or the first message of q starts it.
LiveIn(q) == s12 = "PLAYING" \/ (q # <<>> /\ q[1].cmd = "START")
\* Only the first message starts the player.
FirstOnly(q) == \A i \in 1 .. Len(q) : q[i].cmd = "START" => i = 1
\* The header that is stored is that of this medium, or none.
HeaderKnown(o, q) ==
  Data!Headed(s3) /\ s3.source # "magic" /\ (s4 > 0 \/ s13 > 0 \/ LiveIn(q))
     => o.header \in {0, s3.front}
\* The length of the header that is sent again.
HeaderOf(o) == IF Data!Headed(s3) /\ s4 > 0 THEN o.header ELSE 0
\* The messages of q go on where the codec is, up to the byte e of the medium.
Flows(q, f, e) ==
  \E h \in Seq(Nat) :
     /\ Data!KindOf(s3, h, s4, s19, f) /\ Data!EndOf(s3, h, f, e)
     /\ \E l \in [0 .. Len(q) -> 0 .. Len(h)] : Data!Laid(q, s18, h, l)
\* What holds of the sound when the thread has given q.
SoundedBy(o, q, bg, e) ==
  /\ FirstOnly(q) /\ HeaderKnown(o, q) /\ s4 <= e
  /\ bg /\ ~o.refused /\ o.skip >= 0 => q = <<>> /\ s4 = 0 /\ e + o.skip = s3.front
  /\ (s3.source = "magic" => bg) /\ LiveIn(q) => Flows(q, HeaderOf(o), e)

\* Nothing is behind the end of a piece that is not there.
LEMMA NoPiece ==
  ASSUME NEW a \in Nat
  PROVE  Data!Piece(a, a) = <<>>
<1>1. a <= a /\ a - a = 0
  OBVIOUS
<1>2. Data!Piece(a, a) \in Seq(Nat) /\ Len(Data!Piece(a, a)) = a - a
  BY ONLY a \in Nat, <1>1, PieceIs
<1> QED BY <1>1, <1>2, EmptySeq

\* Nothing was heard of a medium that begins.
LEMMA SilenceIs ==
  ASSUME NEW m \in Offered \cup {Data!None}, NEW p \in Nat, NEW ag, NEW f
  PROVE  Data!KindOf(m, <<>>, p, ag, f) /\ Data!EndOf(m, <<>>, 0, 0)
<1>1. Len(<<>>) = 0 /\ (\A i \in 1 .. 0 : FALSE) /\ (\A i \in 1 .. 0 - 1 : FALSE)
  OBVIOUS
<1>2. m.front \in Nat
  BY MediumIs
<1>3. Data!KindOf(m, <<>>, p, ag, f)
  BY <1>1 DEF Data!KindOf, Data!Shape, Data!Rising, Data!Smooth
<1>4. Data!EndOf(m, <<>>, 0, 0)
  BY <1>1, <1>2 DEF Data!EndOf
<1> QED BY <1>3, <1>4

\* A message behind the others does not start the player.
LEMMA LiveMore ==
  ASSUME NEW q \in Seq(Msgs), NEW y \in Msgs
  PROVE  /\ q # <<>> \/ y.cmd # "START" => (LiveIn(Append(q, y)) <=> LiveIn(q))
         /\ (q = <<>> \/ y.cmd # "START") /\ FirstOnly(q) => FirstOnly(Append(q, y))
<1> DEFINE r == Append(q, y)
           k == Len(q)
<1>1. /\ k \in Nat /\ Len(r) = k + 1 /\ r[k + 1] = y /\ \A i \in 1 .. k : r[i] = q[i]
  BY AppendProperties
<1>2. (q = <<>> <=> k = 0) /\ (r = <<>> <=> Len(r) = 0)
  BY EmptySeq, AppendProperties
<1> HIDE DEF r, k
<1>3. r # <<>>
  BY <1>1, <1>2
<1>4. CASE k = 0
  <2>1. r[1] = y
    BY <1>1, <1>4
  <2>2. \A i \in 1 .. Len(r) : i = 1
    BY <1>1, <1>4
  <2> QED BY <1>2, <1>3, <1>4, <2>1, <2>2 DEF LiveIn, FirstOnly, r
<1>5. CASE k # 0
  <2>1. 1 \in 1 .. k
    BY <1>1, <1>5
  <2>2. r[1] = q[1] /\ q # <<>>
    BY <1>1, <1>2, <1>5, <2>1
  <2>3. LiveIn(r) <=> LiveIn(q)
    BY <1>3, <2>2 DEF LiveIn
  <2>4. ASSUME y.cmd # "START", FirstOnly(q) PROVE FirstOnly(r)
    <3>1. \A i \in 1 .. k : q[i].cmd = "START" => i = 1
      BY <2>4 DEF FirstOnly, k
    <3>2. \A i \in 1 .. k + 1 : i \in 1 .. k \/ i = k + 1
      BY <1>1
    <3>3. \A i \in 1 .. k + 1 : r[i].cmd = "START" => i = 1
      BY <1>1, <2>4, <3>1, <3>2
    <3> QED BY <1>1, <3>3 DEF FirstOnly
  <2> QED BY <2>2, <2>3, <2>4 DEF r
<1> QED BY <1>4, <1>5

\* The bytes of one more message are behind the others.
LEMMA FlowMore ==
  ASSUME NEW q \in Seq(Msgs), NEW y \in Msgs, NEW g \in Seq(Nat), NEW h \in Seq(Nat),
         \E l \in [0 .. Len(q) -> 0 .. Len(h)] : Data!Laid(q, g, h, l)
  PROVE  /\ h \o y.bytes \in Seq(Nat)
         /\ \E n \in [0 .. Len(Append(q, y)) -> 0 .. Len(h \o y.bytes)] :
               Data!Laid(Append(q, y), g, h \o y.bytes, n)
<1>1. PICK l : Data!Laid(q, g, h, l)
  OBVIOUS
<1>2. Len(g) <= Len(h)
  BY <1>1, LaidIsBehind
<1>3. h \o y.bytes \in Seq(Nat)
  BY ConcatProperties DEF Msgs
<1>4. \E n \in [0 .. Len(Append(q, y)) -> 0 .. Len(h \o y.bytes)] :
         Data!Laid(Append(q, y), g, h \o y.bytes, n)
  BY <1>1, <1>2, LaidAppends
<1> QED BY <1>3, <1>4

\* What is behind the tag is the beginning of what is played.
LEMMA TagEnds ==
  ASSUME s3 \in Offered, Data!Tagged(s3), NEW b \in Nat, s3.front < b, s4 = 0,
         s18 = <<>>, NEW o1, NEW q,
         q = <<Data!Message("START", Data!Piece(s3.front, b))>>, o1.skip = -1
  PROVE  SoundedBy(o1, q, TRUE, b)
<1> DEFINE w == Data!Piece(s3.front, b)
           y == Data!Message("START", w)
<1>1. s3.front \in Nat /\ ~Data!Headed(s3)
  BY MediumIs
<1>2. w \in Seq(Nat)
  <2>1. s3.front \in Nat /\ s3.front <= b
    BY <1>1
  <2> QED BY ONLY <2>1, b \in Nat, PieceIs DEF w
<1>3. y \in Msgs /\ y.cmd = "START" /\ y.bytes = w
  BY <1>2 DEF Msgs, Data!Message
<1>4. Data!KindOf(s3, w, 0, s19, 0) /\ Data!EndOf(s3, w, 0, b)
  BY TagIsSkipped
<1> HIDE DEF w, y
<1>5. q = Append(<<>>, y) /\ <<>> \in Seq(Msgs) /\ <<>> \in Seq(Nat) /\ <<>> \o w = w
  <2>1. q = <<y>>
    BY DEF y, w
  <2> QED BY <1>2, <2>1, ConcatEmptySeq
<1>6. \E l \in [0 .. Len(q) -> 0 .. Len(w)] : Data!Laid(q, <<>>, w, l)
  <2>1. \E l \in [0 .. Len(<<>>) -> 0 .. Len(<<>>)] : Data!Laid(<<>>, <<>>, <<>>, l)
    BY <1>5, LaidBegins
  <2>2. \E n \in [0 .. Len(Append(<<>>, y)) -> 0 .. Len(<<>> \o y.bytes)] :
           Data!Laid(Append(<<>>, y), <<>>, <<>> \o y.bytes, n)
    BY <1>3, <1>5, <2>1, FlowMore
  <2> QED BY <1>3, <1>5, <2>2
<1>7. HeaderOf(o1) = 0 /\ HeaderKnown(o1, q)
  BY <1>1 DEF HeaderOf, HeaderKnown
<1>8. Flows(q, 0, b)
  BY <1>2, <1>4, <1>6 DEF Flows
<1>9. FirstOnly(q)
  <2>1. Len(q) = 1
    OBVIOUS
  <2> QED BY <2>1 DEF FirstOnly
<1> QED BY <1>7, <1>8, <1>9 DEF SoundedBy

\* A later piece of the medium goes on with its sound.
LEMMA SoundLater ==
  ASSUME NEW o \in Outs, NEW pos \in {"MID", "LAST"}, NEW e \in Nat, NEW b \in Nat, e <= b,
         NEW o1, o1 = Data!Out(o, pos, Data!Piece(e, b)), NEW bg \in BOOLEAN,
         s3 \in Offered, s4 \in Nat, s13 \in Nat, s19 \in Nat,
         s11 \in Seq(Msgs), s18 \in Seq(Nat), Len(s18) = s4 + s13,
         StartedBy(o, s11 \o o.sent, bg), SoundedBy(o, s11 \o o.sent, bg, e),
         ~bg \/ o.refused => s11 \o o.sent = <<>> /\ b = e
  PROVE  SoundedBy(o1, s11 \o o1.sent, bg, b)
<1> DEFINE q == s11 \o o.sent
           q1 == s11 \o o1.sent
           w == Data!Piece(e, b)
           t == SubSeq(w, o.skip + 1, Len(w))
           z == Data!Message("START", t)
           c == IF pos = "MID" THEN "CONTINUE" ELSE "STOP"
           y == Data!Message(c, w)
<1>0. w \in Seq(Nat) /\ Len(w) = b - e
  BY PieceIs
<1>1. /\ o1 \in Outs /\ o1.refused = o.refused /\ o1.header = o.header
      /\ o.skip >= Len(w) => o1.skip = o.skip - Len(w) /\ o1.sent = o.sent
      /\ o.skip >= 0 /\ o.skip < Len(w) =>
            o1.skip = -1 /\ o1.sent = Append(o.sent, z) /\ z \in Msgs
      /\ o.skip = -1 => o1.skip = -1 /\ o1.sent = Append(o.sent, y) /\ y \in Msgs
  <2>1. o1 = Data!Out(o, pos, w)
    OBVIOUS
  <2>2. w \in Seq(Nat)
    BY <1>0
  <2> HIDE DEF w
  <2>3. /\ o1 \in Outs /\ o1.refused = o.refused /\ o1.header = o.header
        /\ o.skip >= Len(w) => o1.skip = o.skip - Len(w) /\ o1.sent = o.sent
        /\ o.skip >= 0 /\ o.skip < Len(w) =>
              /\ o1.skip = -1
              /\ o1.sent = Append(o.sent, Data!Message("START", SubSeq(w, o.skip + 1, Len(w))))
              /\ Data!Message("START", SubSeq(w, o.skip + 1, Len(w))) \in Msgs
        /\ o.skip = -1 =>
              /\ o1.skip = -1
              /\ o1.sent = Append(o.sent, Data!Message(IF pos = "MID" THEN "CONTINUE" ELSE "STOP", w))
              /\ Data!Message(IF pos = "MID" THEN "CONTINUE" ELSE "STOP", w) \in Msgs
    BY ONLY o \in Outs, pos \in {"MID", "LAST"}, <2>1, <2>2, OutLater
  <2> QED BY ONLY <2>3, Zenon DEF z, t, y, c
<1>2. o.skip \in Nat \cup {-1} /\ o.sent \in Seq(Msgs)
  BY DEF Outs
<1>3. q \in Seq(Msgs)
  BY <1>2, ConcatProperties
<1>4. z.cmd = "START" /\ z.bytes = t /\ y.cmd = c /\ c # "START" /\ y.bytes = w
  BY DEF Data!Message
<1>5. StartedBy(o, q, bg) /\ SoundedBy(o, q, bg, e) /\ (~bg \/ o.refused => q = <<>> /\ b = e)
  OBVIOUS
<1>6. HeaderOf(o1) = HeaderOf(o)
  BY <1>1 DEF HeaderOf
<1>7. s4 <= b
  BY <1>5 DEF SoundedBy
<1> HIDE DEF z, y, c, q, q1, t, w
<1>8. CASE o.skip >= Len(w)
  <2>1. o1.sent = o.sent /\ o1.skip = o.skip - Len(w) /\ o.skip >= 0
    BY <1>0, <1>1, <1>2, <1>8
  <2>2. q1 = q
    BY <2>1 DEF q, q1
  <2>3. ~LiveIn(q)
    <3>1. Unst(q)
      BY <1>5, <2>1 DEF StartedBy, HoldsBack
    <3>2. q # <<>> => 1 \in 1 .. Len(q)
      BY <1>3, EmptySeq
    <3> QED BY <3>1, <3>2 DEF Unst, LiveIn, Data!Starts
  <2>4. bg /\ ~o.refused /\ o1.skip >= 0 => q = <<>> /\ s4 = 0 /\ b + o1.skip = s3.front
    <3> SUFFICES ASSUME bg, ~o.refused PROVE q = <<>> /\ s4 = 0 /\ b + o1.skip = s3.front
      OBVIOUS
    <3>1. q = <<>> /\ s4 = 0 /\ e + o.skip = s3.front
      BY <1>5, <2>1 DEF SoundedBy
    <3> QED BY <1>0, <1>2, <2>1, <3>1
  <2>5. FirstOnly(q) /\ HeaderKnown(o1, q)
    BY <1>1, <1>5 DEF SoundedBy, HeaderKnown
  <2>6. SoundedBy(o1, q1, bg, b)
    BY <1>1, <1>7, <2>2, <2>3, <2>4, <2>5 DEF SoundedBy
  <2> QED BY <2>6 DEF q1
<1>9. CASE o.skip >= 0 /\ o.skip < Len(w)
  <2>0. b # e
    BY <1>0, <1>2, <1>9
  <2>1. bg /\ ~o.refused
    BY <1>5, <2>0
  <2>2. q = <<>> /\ s4 = 0 /\ e + o.skip = s3.front /\ Data!Tagged(s3) /\ s13 = 0
    BY <1>5, <1>9, <2>1 DEF SoundedBy, StartedBy, HoldsBack, Unst
  <2>3. o.skip \in Nat /\ e + o.skip <= b /\ s3.front < b
    BY <1>0, <1>2, <1>9, <2>2
  <2>4. t = Data!Piece(s3.front, b)
    <3>1. t = Data!Piece(e + o.skip, b)
      BY ONLY e \in Nat, b \in Nat, <2>3, PieceBehind DEF t, w
    <3> QED BY <2>2, <3>1
  <2>5. s18 = <<>>
    BY <2>2, EmptySeq
  <2>6. q1 = <<z>> /\ o1.skip = -1
    <3>1. o1.sent = Append(o.sent, z) /\ z \in Msgs /\ o1.skip = -1
      BY <1>1, <1>9
    <3>2. s11 \o Append(o.sent, z) = Append(s11 \o o.sent, z)
      BY ONLY s11 \in Seq(Msgs), <1>2, <3>1, MessageBehind
    <3>3. q1 = Append(<<>>, z)
      BY <2>2, <3>1, <3>2 DEF q, q1
    <3> QED BY <3>1, <3>3
  <2>7. q1 = <<Data!Message("START", Data!Piece(s3.front, b))>>
    BY <2>4, <2>6 DEF z
  <2>8. SoundedBy(o1, q1, TRUE, b)
    BY <2>2, <2>3, <2>5, <2>6, <2>7, TagEnds
  <2> QED BY <2>1, <2>8 DEF q1
<1>10. CASE o.skip = -1
  <2>1. o1.sent = Append(o.sent, y) /\ y \in Msgs /\ o1.skip = -1
    BY <1>1, <1>10
  <2>2. q1 = Append(q, y)
    <3>1. s11 \o Append(o.sent, y) = Append(s11 \o o.sent, y)
      BY ONLY s11 \in Seq(Msgs), <1>2, <2>1, MessageBehind
    <3> QED BY <2>1, <3>1 DEF q, q1
  <2>3. (LiveIn(q1) <=> LiveIn(q)) /\ FirstOnly(q1)
    <3>1. FirstOnly(q)
      BY <1>5 DEF SoundedBy
    <3> QED BY <1>3, <1>4, <2>1, <2>2, <3>1, LiveMore
  <2>4. HeaderKnown(o1, q1)
    BY <1>1, <1>5, <2>3 DEF SoundedBy, HeaderKnown
  <2>5. ASSUME s3.source = "magic" => bg, LiveIn(q1) PROVE Flows(q1, HeaderOf(o1), b)
    <3> DEFINE f == HeaderOf(o)
    <3>1. Flows(q, f, e)
      BY <1>5, <2>3, <2>5 DEF SoundedBy
    <3>2. PICK h \in Seq(Nat) :
             /\ Data!KindOf(s3, h, s4, s19, f) /\ Data!EndOf(s3, h, f, e)
             /\ \E l \in [0 .. Len(q) -> 0 .. Len(h)] : Data!Laid(q, s18, h, l)
      BY <3>1 DEF Flows
    <3>3. f \in Nat
      BY MediaAssumption DEF HeaderOf, Outs
    <3>4. s4 <= e
      BY <1>5 DEF SoundedBy
    <3> HIDE DEF f
    <3>5. Data!KindOf(s3, h \o w, s4, s19, f) /\ Data!EndOf(s3, h \o w, f, b)
      BY <3>2, <3>3, <3>4, PieceGoesOn DEF w
    <3>6. /\ h \o w \in Seq(Nat)
          /\ \E n \in [0 .. Len(q1) -> 0 .. Len(h \o w)] : Data!Laid(q1, s18, h \o w, n)
      BY <1>3, <1>4, <2>1, <2>2, <3>2, FlowMore
    <3>7. Flows(q1, f, b)
      BY <3>5, <3>6 DEF Flows
    <3> QED BY <1>6, <3>7 DEF f
  <2>6. SoundedBy(o1, q1, bg, b)
    BY <1>7, <2>1, <2>3, <2>4, <2>5 DEF SoundedBy
  <2> QED BY <2>6 DEF q1
<1> QED BY <1>0, <1>2, <1>8, <1>9, <1>10

\* The first piece goes on where the codec is, behind the header if that is sent
\* again, and behind the tag.
LEMMA SoundFirst ==
  ASSUME NEW o \in Outs, o.sent = <<>>, NEW b \in Nat, s4 <= b,
         NEW o1, o1 = Data!Out(o, "FIRST", Data!Piece(s4, b)),
         s3 \in Offered, s4 \in Nat, s19 \in Nat, s11 = <<>>, s18 \in Seq(Nat),
         s13 = 0, s12 = "IDLE", Len(s18) = s4, ~o.refused,
         s3.source = "magic" => s4 = 0,
         \E f \in Nat : Data!KindOf(s3, s18, s4, s19, f),
         Data!Headed(s3) /\ s3.source # "magic" /\ s4 > 0 => o.header \in {0, s3.front}
  PROVE  /\ SoundedBy(o1, s11 \o o1.sent, TRUE, b)
         /\ o1.refused => s11 \o o1.sent = <<>>
<1> DEFINE q == s11 \o o1.sent
           w == Data!Piece(s4, b)
           x == Data!Message("START", Data!Piece(0, o.header))
           y == Data!Message("CONTINUE", w)
           z == Data!Message("START", w)
           t == SubSeq(w, s3.front + 1, Len(w))
           v == Data!Message("START", t)
<1>1. /\ w \in Seq(Nat) /\ Len(w) = b - s4
      /\ \A k \in 1 .. b - s4 : w[k] = s4 + k
  BY PieceIs
<1>2. s3.front \in Nat /\ ~(Data!Headed(s3) /\ Data!Tagged(s3)) /\ MIN_ID3V2_LENGTH \in Nat
      /\ (s3.source = "magic" => Data!Headed(s3))
  BY MediumIs, MediaAssumption
<1>3. /\ o1 \in Outs
      /\ \/ o1.refused /\ o1.header = o.header /\ o1.sent = <<>>
         \/ /\ Data!Tagged(s3) /\ Len(w) > MIN_ID3V2_LENGTH /\ Head(w) = 1
            /\ s3.front >= Len(w) /\ o1.refused = o.refused
            /\ o1.skip = s3.front - Len(w) /\ o1.header = o.header /\ o1.sent = <<>>
         \/ /\ Data!Tagged(s3) /\ Head(w) = 1 /\ s3.front < Len(w)
            /\ o1.refused = o.refused /\ o1.skip = -1 /\ o1.header = o.header
            /\ o1.sent = <<v>>
         \/ /\ Data!Headed(s3) /\ s4 > 0 /\ o.header > 0
            /\ o1.refused = o.refused /\ o1.skip = -1 /\ o1.header = o.header
            /\ o1.sent = <<x, y>>
         \/ /\ ~(Data!Headed(s3) /\ s4 > 0 /\ o.header > 0)
            /\ o1.refused = o.refused /\ o1.skip = -1
            /\ o1.header = IF Data!Headed(s3) /\ s4 = 0 THEN Data!HeaderIn(w) ELSE o.header
            /\ o1.sent = <<z>>
  <2>1. o1 = Data!Out(o, "FIRST", w) /\ w \in Seq(Nat)
    BY <1>1
  <2> HIDE DEF w
  <2> QED BY ONLY o \in Outs, o.sent = <<>>, <2>1, s3 \in Offered, s4 \in Nat, OutFirst
      DEF x, y, z, t, v
<1>4. o1.sent \in Seq(Msgs) /\ q = o1.sent
  BY <1>3, ConcatEmptySeq DEF Outs
<1>5. /\ x.cmd = "START" /\ y.cmd = "CONTINUE" /\ z.cmd = "START"
      /\ x.bytes = Data!Piece(0, o.header) /\ y.bytes = w /\ z.bytes = w
  BY DEF Data!Message
<1>6. Data!KindOf(s3, s18, s4, s19, 0) /\ Data!EndOf(s3, s18, 0, s4)
  BY KindBegins
<1>7. Head(w) = 1 /\ Len(w) > 0 => s4 = 0
  <2> SUFFICES ASSUME Head(w) = 1, Len(w) > 0 PROVE s4 = 0
    OBVIOUS
  <2>1. 1 \in 1 .. b - s4
    BY <1>1
  <2>2. w[1] = s4 + 1 /\ Head(w) = w[1]
    BY <1>1, <2>1
  <2> QED BY <2>2
<1>8. /\ <<>> \in Seq(Msgs)
      /\ \E l \in [0 .. Len(<<>>) -> 0 .. Len(s18)] : Data!Laid(<<>>, s18, s18, l)
  BY LaidBegins
<1>9. FirstOnly(<<>>) /\ ~LiveIn(<<>>)
  BY DEF FirstOnly, LiveIn
<1>10. o.header \in Nat /\ (o.header \in {0} \cup {m.front : m \in Offered})
  BY MediaAssumption DEF Outs
<1>11. Data!HeaderIn(w) \in {0, s3.front}
  BY DEF Data!HeaderIn
<1>12. s4 < b \/ s4 = b
  OBVIOUS
<1> HIDE DEF q, w, x, y, z, t, v
<1>13. CASE o1.refused /\ o1.header = o.header /\ o1.sent = <<>>
  <2>1. q = <<>> /\ HeaderKnown(o1, q)
    BY <1>4, <1>9, <1>13 DEF HeaderKnown
  <2>2. SoundedBy(o1, q, TRUE, b)
    BY <1>9, <1>13, <2>1 DEF SoundedBy
  <2> QED BY <2>1, <2>2 DEF q
<1>14. CASE /\ Data!Tagged(s3) /\ Len(w) > MIN_ID3V2_LENGTH /\ Head(w) = 1
            /\ s3.front >= Len(w) /\ o1.refused = o.refused
            /\ o1.skip = s3.front - Len(w) /\ o1.header = o.header /\ o1.sent = <<>>
  <2>1. q = <<>> /\ HeaderKnown(o1, q)
    BY <1>4, <1>9, <1>14 DEF HeaderKnown
  <2>2. s4 = 0
    BY <1>1, <1>2, <1>7, <1>14
  <2>3. b + o1.skip = s3.front
    BY <1>1, <1>2, <1>14, <2>2
  <2>4. SoundedBy(o1, q, TRUE, b)
    BY <1>9, <2>1, <2>2, <2>3 DEF SoundedBy
  <2> QED BY <1>14, <2>1, <2>4 DEF q
<1>15. CASE /\ Data!Tagged(s3) /\ Head(w) = 1 /\ s3.front < Len(w)
            /\ o1.refused = o.refused /\ o1.skip = -1 /\ o1.header = o.header
            /\ o1.sent = <<v>>
  <2>1. s4 = 0 /\ s3.front < b
    BY <1>1, <1>2, <1>7, <1>15
  <2>2. t = Data!Piece(s3.front, b)
    <3>1. 0 \in Nat /\ 0 + s3.front <= b /\ 0 + s3.front = s3.front
      BY <1>2, <2>1
    <3>2. t = Data!Piece(0 + s3.front, b)
      BY ONLY <1>2, <2>1, <3>1, b \in Nat, PieceBehind DEF t, w
    <3> QED BY <3>1, <3>2
  <2>3. s18 = <<>>
    BY <2>1, EmptySeq
  <2>4. q = <<Data!Message("START", Data!Piece(s3.front, b))>>
    BY <1>4, <1>15, <2>2 DEF v
  <2>5. SoundedBy(o1, q, TRUE, b)
    BY <1>15, <2>1, <2>3, <2>4, TagEnds
  <2> QED BY <1>15, <2>5 DEF q
<1>16. CASE /\ Data!Headed(s3) /\ s4 > 0 /\ o.header > 0
            /\ o1.refused = o.refused /\ o1.skip = -1 /\ o1.header = o.header
            /\ o1.sent = <<x, y>>
  <2>1. s3.source # "magic" /\ o.header = s3.front
    BY <1>10, <1>16
  <2> DEFINE d == Data!Piece(0, s3.front)
             h1 == s18 \o d
             h2 == h1 \o w
  <2>2. q = <<x, y>> /\ x \in Msgs /\ y \in Msgs /\ FirstOnly(q)
    <3>1. q = <<x, y>> /\ q \in Seq(Msgs)
      BY <1>4, <1>16
    <3>2. Len(q) = 2 /\ q[1] = x /\ q[2] = y
      BY ONLY <3>1
    <3>3. \A i \in 1 .. 2 : i = 1 \/ i = 2
      OBVIOUS
    <3> QED BY <1>5, <3>1, <3>2, <3>3, ElementOfSeq DEF FirstOnly
  <2>3. q = Append(Append(<<>>, x), y) /\ Append(<<>>, x) \in Seq(Msgs)
    <3>1. <<x, y>> = Append(<<x>>, y) /\ <<x>> = Append(<<>>, x)
      OBVIOUS
    <3> QED BY <1>8, <2>2, <3>1, AppendProperties
  <2>4. /\ h1 \in Seq(Nat)
        /\ \E l \in [0 .. Len(Append(<<>>, x)) -> 0 .. Len(h1)] : Data!Laid(Append(<<>>, x), s18, h1, l)
    BY <1>5, <1>8, <2>1, <2>2, FlowMore
  <2>5. Data!KindOf(s3, h1, s4, s19, s3.front) /\ Data!EndOf(s3, h1, s3.front, s4)
    BY <1>6, <1>16, <2>1, HeaderAgain
  <2> HIDE DEF h1
  <2>6. Data!KindOf(s3, h2, s4, s19, s3.front) /\ Data!EndOf(s3, h2, s3.front, b)
    <3>1. s4 <= s4
      OBVIOUS
    <3> QED BY <1>2, <2>4, <2>5, <3>1, PieceGoesOn DEF w
  <2>7. h2 \in Seq(Nat) /\ \E l \in [0 .. Len(q) -> 0 .. Len(h2)] : Data!Laid(q, s18, h2, l)
    <3> DEFINE r == Append(<<>>, x)
    <3>1. r \in Seq(Msgs) /\ y \in Msgs /\ y.bytes = w /\ q = Append(r, y)
          /\ \E l \in [0 .. Len(r) -> 0 .. Len(h1)] : Data!Laid(r, s18, h1, l)
      BY <1>5, <2>2, <2>3, <2>4
    <3> HIDE DEF r
    <3>2. /\ h1 \o y.bytes \in Seq(Nat)
          /\ \E n \in [0 .. Len(Append(r, y)) -> 0 .. Len(h1 \o y.bytes)] :
                Data!Laid(Append(r, y), s18, h1 \o y.bytes, n)
      BY ONLY <2>4, <3>1, s18 \in Seq(Nat), FlowMore
    <3> QED BY <3>1, <3>2
  <2> HIDE DEF h2
  <2>8. HeaderOf(o1) = s3.front /\ HeaderKnown(o1, q)
    BY <1>16, <2>1 DEF HeaderOf, HeaderKnown
  <2>9. Flows(q, HeaderOf(o1), b)
    BY <2>6, <2>7, <2>8 DEF Flows
  <2>10. SoundedBy(o1, q, TRUE, b)
    BY <1>16, <2>2, <2>8, <2>9 DEF SoundedBy
  <2> QED BY <1>16, <2>10 DEF q
<1>17. CASE /\ ~(Data!Headed(s3) /\ s4 > 0 /\ o.header > 0)
            /\ o1.refused = o.refused /\ o1.skip = -1
            /\ o1.header = IF Data!Headed(s3) /\ s4 = 0 THEN Data!HeaderIn(w) ELSE o.header
            /\ o1.sent = <<z>>
  <2> DEFINE h1 == s18 \o w
  <2>1. q = <<z>> /\ z \in Msgs /\ FirstOnly(q) /\ q = Append(<<>>, z)
    <3>1. q = <<z>> /\ q \in Seq(Msgs)
      BY <1>4, <1>17
    <3>2. Len(q) = 1 /\ q[1] = z
      BY ONLY <3>1
    <3> QED BY <3>1, <3>2, ElementOfSeq DEF FirstOnly
  <2>2. h1 \in Seq(Nat) /\ \E l \in [0 .. Len(q) -> 0 .. Len(h1)] : Data!Laid(q, s18, h1, l)
    BY <1>5, <1>8, <2>1, FlowMore
  <2>3. Data!KindOf(s3, h1, s4, s19, 0) /\ Data!EndOf(s3, h1, 0, b)
    <3>1. s4 <= s4 /\ 0 \in Nat
      OBVIOUS
    <3> QED BY <1>6, <3>1, PieceGoesOn DEF w
  <2> HIDE DEF h1
  <2>4. HeaderOf(o1) = 0
    BY <1>10, <1>17 DEF HeaderOf
  <2>5. HeaderKnown(o1, q)
    BY <1>11, <1>17 DEF HeaderKnown
  <2>6. Flows(q, HeaderOf(o1), b)
    BY <2>2, <2>3, <2>4 DEF Flows
  <2>7. SoundedBy(o1, q, TRUE, b)
    BY <1>17, <2>1, <2>5, <2>6 DEF SoundedBy
  <2> QED BY <1>17, <2>7 DEF q
<1> QED BY ONLY <1>3, <1>13, <1>14, <1>15, <1>16, <1>17

\* The last piece of a voice is decoded once and added twice.
LEMMA VoiceEnds ==
  ASSUME NEW m \in Offered, m.source = "magic", NEW h \in Seq(Nat), NEW p \in Nat, NEW ag, NEW f \in Nat,
         NEW e \in Nat, NEW a \in Nat, NEW c \in Nat, e <= c, a <= c, p <= e, p <= a,
         Data!KindOf(m, h, p, ag, f), Data!EndOf(m, h, f, e)
  PROVE  Data!KindOf(m, h \o (Data!Piece(e, c) \o Data!Piece(a, c)), p, ag, f)
<1> DEFINE x == h \o Data!Piece(e, c)
<1>1. e <= c /\ ~Data!Tagged(m) /\ m.front \in Nat
  BY MediumIs
<1>2. x \in Seq(Nat) /\ \A i \in 1 .. Len(x) : x[i] \in Nat
  <2>1. x \in Seq(Nat)
    BY <1>1, PieceBehindIs
  <2> QED BY <2>1, ElementOfSeq, LenProperties
<1>3. Data!KindOf(m, x, p, ag, f) /\ Data!EndOf(m, x, f, c)
  BY <1>1, PieceGoesOn
<1> HIDE DEF x
<1>4. Data!EndOf(m, x, f, a)
  <2>1. IF x = <<>> THEN c <= m.front ELSE c <= x[Len(x)]
    BY <1>3 DEF Data!EndOf
  <2>2. x # <<>> => Len(x) \in 1 .. Len(x)
    BY <1>2, EmptySeq, LenProperties
  <2>3. x # <<>> => x[Len(x)] \in Nat
    BY <1>2, <2>2
  <2>4. IF x = <<>> THEN a <= m.front ELSE a <= x[Len(x)]
    BY <1>1, <2>1, <2>3
  <2> QED BY <1>1, <2>4 DEF Data!EndOf
<1>5. Data!KindOf(m, x \o Data!Piece(a, c), p, ag, f)
  BY <1>2, <1>3, <1>4, PieceGoesOn
<1>6. x \o Data!Piece(a, c) = h \o (Data!Piece(e, c) \o Data!Piece(a, c))
  <2>1. Data!Piece(e, c) \in Seq(Nat) /\ Data!Piece(a, c) \in Seq(Nat)
    BY <1>1, PieceIs
  <2>2. h \o (Data!Piece(e, c) \o Data!Piece(a, c)) = (h \o Data!Piece(e, c)) \o Data!Piece(a, c)
    <3> DEFINE y == Data!Piece(e, c)  z == Data!Piece(a, c)
    <3>1. y \in Seq(Nat) /\ z \in Seq(Nat)
      BY <2>1
    <3> HIDE DEF y, z
    <3>2. (h \o y) \o z = h \o (y \o z)
      BY ONLY h \in Seq(Nat), <3>1, ConcatAssociative
    <3> QED BY <3>2 DEF y, z
  <2> QED BY <2>2 DEF x
<1> QED BY <1>5, <1>6

\* What the invariant says while the thread reads.
LEMMA ReadIs ==
  ASSUME Data!DataInv, s5 = "read"
  PROVE  /\ s3 \in Offered /\ s4 \in Nat /\ s6 \in Nat /\ s13 \in Nat /\ s19 \in Nat
         /\ s7 \in BOOLEAN /\ s11 \in Seq(Msgs) /\ s18 \in Seq(Nat) /\ s8 \in Seq(Nat)
         /\ s10 \in Outs /\ s10.sent = <<>> /\ s11 \o s10.sent = s11
         /\ StartedBy(s10, s11 \o s10.sent, s7) /\ InTag(s10, s7, s6)
         /\ s10.refused => s9 /\ s3.source \notin {"magic", "data"}
         /\ s3.source \in {"data", "magic"} => s4 = 0
         /\ ~s7 /\ s3.source # "magic" => s6 = s4
<1>1. /\ s4 \in Nat /\ s6 \in Nat /\ s13 \in Nat /\ s19 \in Nat
      /\ s7 \in BOOLEAN /\ s11 \in Seq(Msgs) /\ s18 \in Seq(Nat) /\ s8 \in Seq(Nat)
      /\ s10 \in [skip: Nat \cup {-1}, header: {0} \cup {m.front : m \in Offered},
                  refused: BOOLEAN, sent: {<<>>}]
  BY DEF Data!DataInv, Data!MediaDataTypeOK, Msgs
<1>2. s10 \in Outs /\ s10.sent = <<>>
  <2>1. <<>> \in Seq(Msgs)
    OBVIOUS
  <2> QED BY <1>1, <2>1 DEF Outs
<1>3. s11 \o s10.sent = s11
  BY <1>1, <1>2, ConcatEmptySeq
<1>4. Data!StartInv
  BY DEF Data!DataInv
<1>5. s3 \in Offered
  BY <1>4 DEF Data!StartInv
<1>6. /\ s10.refused => s9 /\ s3.source \notin {"magic", "data"}
      /\ s3.source \in {"data", "magic"} => s4 = 0
      /\ ~s7 /\ s3.source # "magic" => s6 = s4
      /\ ~s7 => ~s10.refused
      /\ s7 /\ ~s10.refused /\ s10.skip >= 0 => Data!Tagged(s3)
      /\ InTag(s10, s7, s6)
  BY <1>4 DEF Data!StartInv, InTag
<1>7. OneStart(s11)
  BY <1>4 DEF Data!StartInv, OneStart
<1>8. ~s7 \/ s10.skip >= 0 \/ s10.refused => Unst(s11)
  BY <1>4 DEF Data!StartInv, Data!MayStart, Data!Unstarted, Unst
<1>9. StartedBy(s10, s11, s7)
  BY <1>6, <1>7, <1>8 DEF StartedBy, HoldsBack
<1> QED BY <1>1, <1>2, <1>3, <1>5, <1>6, <1>9

\* What it says of the sound, as long as no medium was put away early.
LEMMA ReadSounds ==
  ASSUME Data!DataInv, s5 = "read", ~s21
  PROVE  /\ Data!Edge \in Nat /\ s4 <= Data!Edge /\ (~s7 => Data!Edge = s4)
         /\ SoundedBy(s10, s11 \o s10.sent, s7, Data!Edge)
         /\ ~s7 \/ s10.refused => s11 = <<>>
         /\ Len(s18) = s4 + s13
         /\ \E f \in Nat : Data!Fits(f) /\ Data!KindOf(s3, s18, s4, s19, f)
         /\ s3.source # "magic" => s8 = <<>> /\ Data!Edge = s6
         /\ Len(s8) <= s6 /\ s8 = Data!Piece(Data!Edge, s6)
<1>1. Data!SoundInv /\ Data!StartInv
  BY DEF Data!DataInv
<1>2. /\ s3 \in Offered /\ s4 \in Nat /\ s6 \in Nat /\ s13 \in Nat
      /\ s7 \in BOOLEAN /\ s11 \in Seq(Msgs) /\ s18 \in Seq(Nat) /\ s8 \in Seq(Nat)
      /\ s10 \in Outs /\ s10.sent = <<>> /\ s11 \o s10.sent = s11
  BY ReadIs
<1>3. /\ s4 <= Data!Edge /\ (~s7 => Data!Edge = s4)
      /\ Len(s8) <= s6 /\ s8 = Data!Piece(Data!Edge, s6)
      /\ Len(s18) = s4 + s13
      /\ (s3.source # "magic" => s8 = <<>>)
  BY <1>1 DEF Data!SoundInv
<1>4. Data!Edge \in Nat /\ (s3.source # "magic" => Data!Edge = s6)
  BY <1>2, <1>3 DEF Data!Edge
<1>5. ~s7 \/ s10.refused \/ s10.skip >= 0 => s11 = <<>>
  BY <1>1 DEF Data!SoundInv, Data!MayStart
<1>6. \E f \in Nat : Data!Fits(f) /\ Data!KindOf(s3, s18, s4, s19, f)
  <2>1. CASE Data!ShortVoice
    <3>1. s13 = 0 /\ s4 = 0 /\ s3.source = "magic"
      BY <1>1, <2>1 DEF Data!StartInv, Data!MayStart, Data!Unstarted, Data!ShortVoice
    <3>2. s18 = <<>>
      BY <1>2, <1>3, <3>1, EmptySeq
    <3>3. Data!KindOf(s3, s18, s4, s19, 0)
      BY <1>2, <3>2, SilenceIs
    <3> QED BY <3>3 DEF Data!Fits
  <2>2. CASE ~Data!ShortVoice
    BY <1>1, <2>2 DEF Data!SoundInv
  <2> QED BY <2>1, <2>2
<1>7. FirstOnly(s11)
  BY <1>1 DEF Data!SoundInv, FirstOnly
<1>8. HeaderKnown(s10, s11)
  BY <1>1 DEF Data!SoundInv, HeaderKnown, Data!Live, LiveIn
<1>9. s7 /\ ~s10.refused /\ s10.skip >= 0 =>
         s11 = <<>> /\ s4 = 0 /\ Data!Edge + s10.skip = s3.front
  <2> SUFFICES ASSUME s7, ~s10.refused, s10.skip >= 0
               PROVE  s11 = <<>> /\ s4 = 0 /\ Data!Edge + s10.skip = s3.front
    OBVIOUS
  <2>1. s4 = 0 /\ s6 + s10.skip = s3.front
    BY <1>1 DEF Data!StartInv
  <2>2. Data!Tagged(s3)
    BY <1>1 DEF Data!StartInv
  <2>3. s3.source # "magic"
    BY <1>2, <2>2, MediumIs
  <2> QED BY <1>4, <1>5, <2>1, <2>3
<1>10. ASSUME s3.source = "magic" => s7, LiveIn(s11)
       PROVE  Flows(s11, HeaderOf(s10), Data!Edge)
  <2>1. Data!Live /\ ~Data!ShortVoice
    BY <1>10 DEF Data!Live, LiveIn, Data!ShortVoice
  <2>2. PICK h \in Seq(Nat), f \in Nat :
           Data!FlowIs(h, f) /\ \E l \in [0..Len(s11) -> 0..Len(h)] : Data!Laid(s11, s18, h, l)
    BY <1>1, <2>1 DEF Data!SoundInv
  <2>3. f = HeaderOf(s10) /\ Data!KindOf(s3, h, s4, s19, f) /\ Data!EndOf(s3, h, f, Data!Edge)
    BY <2>2 DEF Data!FlowIs, Data!AgainOf, HeaderOf
  <2> QED BY <2>2, <2>3 DEF Flows
<1>11. SoundedBy(s10, s11, s7, Data!Edge)
  BY <1>3, <1>7, <1>8, <1>9, <1>10 DEF SoundedBy
<1> QED BY <1>2, <1>3, <1>4, <1>5, <1>6, <1>11

\* The header that is sent again is that of the medium.
LEMMA HeaderFits ==
  ASSUME NEW o, NEW q, HeaderKnown(o, q), LiveIn(q), s3.source = "magic" => s4 = 0,
         s4 \in Nat
  PROVE  Data!Fits(HeaderOf(o))
BY DEF Data!Fits, HeaderOf, HeaderKnown

\* The types when the thread has given something.
LEMMA GivenTypes ==
  ASSUME Data!DataInv, s5 = "read", NEW o \in Outs, Data!HandOver(o), Data!Goes, s11 \o o.sent \in Seq(Msgs),
         s5' \in {"read", "wait"}, s7' \in BOOLEAN, s6' \in Nat, s8' \in Seq(Nat),
         o.refused /\ ~s10.refused => s12 = "IDLE"
  PROVE  /\ Data!MediaDataTypeOK' /\ s12' = s12 /\ s11' = s11 \o o.sent
         /\ s10'.skip = o.skip /\ s10'.header = o.header /\ s10'.refused = o.refused
<1>1. /\ s11' = s11 \o o.sent /\ s10' = [o EXCEPT !.sent = <<>>]
      /\ s9' = (s9 \/ (o.refused /\ ~s10.refused)) /\ s12' = s12
      /\ UNCHANGED <<s13, s14, s15, s18>>
  BY DEF Data!HandOver
<1>2. s10' \in [skip: Nat \cup {-1}, header: {0} \cup {m.front : m \in Offered},
                refused: BOOLEAN, sent: {<<>>}]
      /\ s10'.skip = o.skip /\ s10'.header = o.header /\ s10'.refused = o.refused
  BY <1>1 DEF Outs
<1>3. Data!MediaDataTypeOK
  BY DEF Data!DataInv
<1>4. s9' \in BOOLEAN
  BY <1>1, <1>3 DEF Data!MediaDataTypeOK, Outs
<1>5. s11' \in Seq([cmd: {"START", "CONTINUE", "STOP"}, bytes: Seq(Nat)])
  BY <1>1 DEF Msgs
<1>6. Data!MediaDataTypeOK'
  BY <1>1, <1>2, <1>3, <1>4, <1>5 DEF Data!MediaDataTypeOK, Data!Goes
<1> QED BY <1>1, <1>2, <1>6

\* The thread goes on to read.
LEMMA GaveOn ==
  ASSUME Data!DataInv, s5 = "read", NEW o \in Outs, NEW bg \in BOOLEAN,
         Data!HandOver(o), Data!Goes, s11 \o o.sent \in Seq(Msgs),
         s5' = "read", s7' = bg, s6' \in Nat, s8' \in Seq(Nat),
         StartedBy(o, s11 \o o.sent, bg), InTag(o, bg, s6'),
         o.refused => s3.source \notin {"magic", "data"},
         ~bg /\ s3.source # "magic" => s6' = s4,
         s3.source = "data" => o.header = s10.header,
         ~s21 =>
            /\ SoundedBy(o, s11 \o o.sent, bg, Data!Edge')
            /\ ~bg \/ o.refused => s11 \o o.sent = <<>>
            /\ ~bg => Data!Edge' = s4
            /\ s3.source # "magic" => s8' = <<>>
            /\ Len(s8') <= s6' /\ s8' = Data!Piece(Data!Edge', s6')
  PROVE  Data!DataInv'
<1> DEFINE q == s11 \o o.sent
<1>1. /\ s3 \in Offered /\ s4 \in Nat
      /\ s10.refused => s9 /\ s3.source \notin {"magic", "data"}
      /\ s3.source \in {"data", "magic"} => s4 = 0
  BY ReadIs
<1>2. OneStart(q) /\ (o.skip >= 0 \/ o.refused \/ ~bg => Unst(q)) /\ (~bg => ~o.refused)
      /\ (bg /\ ~o.refused /\ o.skip >= 0 => Data!Tagged(s3))
  BY DEF StartedBy, HoldsBack
<1>3. o.refused => s12 = "IDLE"
  BY <1>2 DEF Unst
<1>4. /\ Data!MediaDataTypeOK' /\ s12' = s12 /\ s11' = q
      /\ s10'.skip = o.skip /\ s10'.header = o.header /\ s10'.refused = o.refused
  BY <1>3, GivenTypes
<1>5. UNCHANGED <<s13, s14, s15, s18, s1, s2, s3, s4, s16, s17,
                  s19, s20, s21>>
  BY DEF Data!HandOver, Data!Goes
<1>6. o.refused => s9'
  <2>1. s9' = (s9 \/ (o.refused /\ ~s10.refused))
    BY DEF Data!HandOver
  <2> QED BY <1>1, <2>1
<1>7. Data!StartInv /\ (~s21 => Data!SoundInv)
  BY DEF Data!DataInv
<1> HIDE DEF q
<1>8. Data!StartInv'
  <2>1. Data!MayStart' => Data!Unstarted'
    BY <1>2, <1>4, <1>5 DEF Data!MayStart, Data!Unstarted, Unst, Data!Starts
  <2>2. \A i \in 1..Len(s11') : s11'[i].cmd = "START" =>
          /\ s13' = 0 /\ s12' = "IDLE"
          /\ \A j \in 1..Len(s11') : s11'[j].cmd = "START" => j = i
    BY <1>2, <1>4, <1>5 DEF OneStart
  <2>3. Data!Tagged(s3)' <=> Data!Tagged(s3)
    BY <1>5
  <2>4. s19 = 0 => s4 = 0
    BY <1>7 DEF Data!StartInv
  <2>5. (s7 /\ ~s10.refused /\ s10.skip >= 0 => s4 = 0 /\ s6 + s10.skip = s3.front)'
    BY <1>4, <1>5 DEF InTag
  <2> QED BY <1>1, <1>2, <1>4, <1>5, <1>6, <2>1, <2>2, <2>3, <2>4, <2>5 DEF Data!StartInv
<1>9. ASSUME ~s21 PROVE Data!SoundInv'
  <2>1. /\ SoundedBy(o, q, bg, Data!Edge') /\ (~bg \/ o.refused => q = <<>>) /\ (~bg => Data!Edge' = s4)
        /\ s3.source # "magic" => s8' = <<>>
        /\ Len(s8') <= s6' /\ s8' = Data!Piece(Data!Edge', s6')
    BY <1>9 DEF q
  <2>2. /\ FirstOnly(q) /\ HeaderKnown(o, q) /\ s4 <= Data!Edge'
        /\ bg /\ ~o.refused /\ o.skip >= 0 => q = <<>> /\ s4 = 0 /\ Data!Edge' + o.skip = s3.front
        /\ (s3.source = "magic" => bg) /\ LiveIn(q) => Flows(q, HeaderOf(o), Data!Edge')
    BY <2>1 DEF SoundedBy
  <2>3. Data!MayStart' => s11' = <<>>
    BY <1>4, <2>1, <2>2 DEF Data!MayStart
  <2>4. \A i \in 1..Len(s11') : s11'[i].cmd = "START" => i = 1
    BY <1>4, <2>2 DEF FirstOnly
  <2>5. /\ Len(s18) = s4 + s13
        /\ \E f \in Nat : Data!Fits(f) /\ Data!KindOf(s3, s18, s4, s19, f)
    BY <1>9, ReadSounds
  <2>6. (~Data!ShortVoice => \E f \in Nat : Data!Fits(f) /\ Data!KindOf(s3, s18, s4, s19, f))'
    BY <1>5, <2>5 DEF Data!Fits
  <2>7. (Data!Live /\ ~Data!ShortVoice =>
          \E h \in Seq(Nat), f \in Nat :
              Data!FlowIs(h, f) /\ \E l \in [0..Len(s11) -> 0..Len(h)] : Data!Laid(s11, s18, h, l))'
    <3> SUFFICES ASSUME Data!Live', ~Data!ShortVoice'
                 PROVE  \E h \in Seq(Nat), f \in Nat :
                           /\ Data!FlowIs(h, f)'
                           /\ \E l \in [0..Len(s11') -> 0..Len(h)] : Data!Laid(s11', s18', h, l)
      OBVIOUS
    <3>1. LiveIn(q) /\ (s3.source = "magic" => bg)
      BY <1>4, <1>5 DEF Data!Live, LiveIn, Data!ShortVoice
    <3>2. PICK h \in Seq(Nat) :
             /\ Data!KindOf(s3, h, s4, s19, HeaderOf(o)) /\ Data!EndOf(s3, h, HeaderOf(o), Data!Edge')
             /\ \E l \in [0 .. Len(q) -> 0 .. Len(h)] : Data!Laid(q, s18, h, l)
      BY <2>2, <3>1 DEF Flows
    <3>3. Data!Fits(HeaderOf(o))
      BY <1>1, <2>2, <3>1, HeaderFits
    <3>4. HeaderOf(o) = Data!AgainOf' /\ HeaderOf(o) \in Nat
      BY <1>4, <1>5, MediaAssumption DEF HeaderOf, Data!AgainOf, Outs
    <3>6. Data!FlowIs(h, Data!AgainOf)'
      BY <1>5, <3>2, <3>3, <3>4 DEF Data!FlowIs, Data!Fits
    <3>7. \E l \in [0..Len(s11') -> 0..Len(h)] : Data!Laid(s11', s18', h, l)
      BY <1>4, <1>5, <3>2
    <3> QED BY <3>4, <3>6, <3>7
  <2>9. (Data!Headed(s3) /\ s3.source # "magic" /\ s5 # "rest"
          /\ (s4 > 0 \/ s13 > 0 \/ Data!Live) => s10.header \in {0, s3.front})'
    BY <1>4, <1>5, <2>2 DEF HeaderKnown, Data!Live, LiveIn
  <2>10. ((s5 = "rest" \/ s3.source = "data") /\ s16.source \in {"url", "file"} => Data!KeptIs)'
    <3> SUFFICES ASSUME s3.source = "data", s16.source \in {"url", "file"} PROVE Data!KeptIs'
      BY <1>5
    <3>1. Data!KeptIs
      BY <1>7, <1>9 DEF Data!SoundInv
    <3>2. s10'.header = s10.header
      BY <1>4
    <3> QED BY <1>5, <3>1, <3>2 DEF Data!KeptIs
  <2> QED BY <1>4, <1>5, <2>1, <2>2, <2>3, <2>4, <2>5, <2>6, <2>7, <2>9, <2>10 DEF Data!SoundInv
<1> QED BY <1>4, <1>5, <1>8, <1>9 DEF Data!DataInv

\* The messages of q go on where the codec is.
FlowsOn(q) ==
  \E h \in Seq(Nat), f \in Nat :
     /\ Data!Fits(f) /\ Data!KindOf(s3, h, s4, s19, f)
     /\ \E l \in [0 .. Len(q) -> 0 .. Len(h)] : Data!Laid(q, s18, h, l)

\* What was given of a medium goes on where the codec is.
LEMMA FlowsAre ==
  ASSUME NEW o \in Outs, NEW q, NEW bg, NEW e, SoundedBy(o, q, bg, e), s3.source = "magic" => bg,
         LiveIn(q), s3.source = "magic" => s4 = 0, s4 \in Nat
  PROVE  FlowsOn(q)
<1>1. HeaderKnown(o, q) /\ Flows(q, HeaderOf(o), e)
  BY DEF SoundedBy
<1>2. Data!Fits(HeaderOf(o))
  BY <1>1, HeaderFits
<1>3. HeaderOf(o) \in Nat
  BY MediaAssumption DEF HeaderOf, Outs
<1> QED BY <1>1, <1>2, <1>3 DEF Flows, FlowsOn

\* What holds when the thread has given the last piece.
LastGave(o, q, bg) ==
  /\ o \in Outs /\ q \in Seq(Msgs) /\ bg \in BOOLEAN /\ OneStart(q)
  /\ o.refused /\ ~s10.refused => s12 = "IDLE"
  /\ \/ Unst(q)
     \/ Data!Stops(q)
     \/ s3.source = "data" /\ s3.len <= FRAME_SIZE
     \/ s3.source = "file" /\ s4 >= s3.len
     \/ Data!TagEndsLate
     \/ s3.source = "magic" /\ ~bg
  /\ s3.source = "data" => o.header = s10.header
  /\ ~s21 =>
        /\ FirstOnly(q) /\ HeaderKnown(o, q)
        /\ (s3.source = "magic" => bg) /\ LiveIn(q) => FlowsOn(q)

\* The thread is through with the medium.
LEMMA GaveLast ==
  ASSUME NEW o, NEW bg, Data!DataInv, s5 = "read", LastGave(o, s11 \o o.sent, bg),
         Data!HandOver(o), Data!Goes, s5' = "wait", s7' = bg, s6' \in Nat, s8' \in Seq(Nat),
         ~s21 /\ s3.source # "magic" => s8' = <<>>
  PROVE  Data!DataInv'
<1> DEFINE q == s11 \o o.sent
<1>1. /\ s3 \in Offered /\ s4 \in Nat
      /\ s3.source \in {"data", "magic"} => s4 = 0
  BY ReadIs
<1>0. LastGave(o, q, bg)
  OBVIOUS
<1>2. OneStart(q) /\ q \in Seq(Msgs) /\ o \in Outs /\ bg \in BOOLEAN
      /\ (o.refused /\ ~s10.refused => s12 = "IDLE")
      /\ (s3.source = "data" => o.header = s10.header)
  BY <1>0 DEF LastGave
<1>3. \/ Unst(q)
      \/ Data!Stops(q)
      \/ s3.source = "data" /\ s3.len <= FRAME_SIZE
      \/ s3.source = "file" /\ s4 >= s3.len
      \/ Data!TagEndsLate
      \/ s3.source = "magic" /\ ~bg
  BY <1>0 DEF LastGave
<1>4. /\ Data!MediaDataTypeOK' /\ s12' = s12 /\ s11' = q
      /\ s10'.skip = o.skip /\ s10'.header = o.header /\ s10'.refused = o.refused
  BY <1>2, GivenTypes
<1>5. UNCHANGED <<s13, s14, s15, s18, s1, s2, s3, s4, s16, s17,
                  s19, s20, s21>>
  BY DEF Data!HandOver, Data!Goes
<1>7. Data!StartInv /\ (~s21 => Data!SoundInv)
  BY DEF Data!DataInv
<1> HIDE DEF q
<1>8. Data!StartInv'
  <2>1. ~Data!MayStart'
    BY DEF Data!MayStart
  <2>2. \A i \in 1..Len(s11') : s11'[i].cmd = "START" =>
          /\ s13' = 0 /\ s12' = "IDLE"
          /\ \A j \in 1..Len(s11') : s11'[j].cmd = "START" => j = i
    BY <1>2, <1>4, <1>5 DEF OneStart
  <2>3. Data!TagEndsLate' <=> Data!TagEndsLate
    BY <1>5 DEF Data!TagEndsLate
  <2>4. s19 = 0 => s4 = 0
    BY <1>7 DEF Data!StartInv
  <2>5. Unst(q) => Data!Unstarted'
    BY <1>4, <1>5 DEF Unst, Data!Unstarted, Data!Starts
  <2>6. Data!Stops(q) => Data!Stops(s11')
    BY <1>4 DEF Data!Stops
  <2>7. (s5 = "wait" /\ ~Data!Unstarted => s15 > 0 \/ Data!Stops(s11) \/ Data!EndsBadly)'
    BY <1>3, <1>5, <2>3, <2>5, <2>6 DEF Data!EndsBadly, Data!ShortVoice
  <2> QED BY <1>1, <1>4, <1>5, <2>1, <2>2, <2>4, <2>7 DEF Data!StartInv
<1>9. ASSUME ~s21 PROVE Data!SoundInv'
  <2>1. /\ FirstOnly(q) /\ HeaderKnown(o, q)
        /\ (s3.source = "magic" => bg) /\ LiveIn(q) => FlowsOn(q)
        /\ s3.source # "magic" => s8' = <<>>
    BY <1>0, <1>9 DEF LastGave
  <2>2. ~Data!MayStart' /\ s5' # "rest" /\ s5' # "read"
    BY DEF Data!MayStart
  <2>4. \A i \in 1..Len(s11') : s11'[i].cmd = "START" => i = 1
    BY <1>4, <2>1 DEF FirstOnly
  <2>5. /\ Len(s18) = s4 + s13
        /\ \E f \in Nat : Data!Fits(f) /\ Data!KindOf(s3, s18, s4, s19, f)
    BY <1>9, ReadSounds
  <2>6. (~Data!ShortVoice => \E f \in Nat : Data!Fits(f) /\ Data!KindOf(s3, s18, s4, s19, f))'
    BY <1>5, <2>5 DEF Data!Fits
  <2>7. (Data!Live /\ ~Data!ShortVoice =>
          \E h \in Seq(Nat), f \in Nat :
              Data!FlowIs(h, f) /\ \E l \in [0..Len(s11) -> 0..Len(h)] : Data!Laid(s11, s18, h, l))'
    <3> SUFFICES ASSUME Data!Live', ~Data!ShortVoice'
                 PROVE  \E h \in Seq(Nat), f \in Nat :
                           /\ Data!FlowIs(h, f)'
                           /\ \E l \in [0..Len(s11') -> 0..Len(h)] : Data!Laid(s11', s18', h, l)
      OBVIOUS
    <3>1. LiveIn(q) /\ (s3.source = "magic" => bg)
      BY <1>4, <1>5 DEF Data!Live, LiveIn, Data!ShortVoice
    <3>2. PICK h \in Seq(Nat), f \in Nat :
             /\ Data!Fits(f) /\ Data!KindOf(s3, h, s4, s19, f)
             /\ \E l \in [0 .. Len(q) -> 0 .. Len(h)] : Data!Laid(q, s18, h, l)
      BY <2>1, <3>1 DEF FlowsOn
    <3>3. Data!FlowIs(h, f)'
      BY <1>5, <2>2, <3>2 DEF Data!FlowIs, Data!Fits
    <3>4. \E l \in [0..Len(s11') -> 0..Len(h)] : Data!Laid(s11', s18', h, l)
      BY <1>4, <1>5, <3>2
    <3> QED BY <3>3, <3>4
  <2>9. (Data!Headed(s3) /\ s3.source # "magic" /\ s5 # "rest"
          /\ (s4 > 0 \/ s13 > 0 \/ Data!Live) => s10.header \in {0, s3.front})'
    BY <1>4, <1>5, <2>1 DEF HeaderKnown, Data!Live, LiveIn
  <2>10. ((s5 = "rest" \/ s3.source = "data") /\ s16.source \in {"url", "file"} => Data!KeptIs)'
    <3> SUFFICES ASSUME s3.source = "data", s16.source \in {"url", "file"} PROVE Data!KeptIs'
      BY <1>5
    <3>1. Data!KeptIs
      BY <1>7, <1>9 DEF Data!SoundInv
    <3>2. s10'.header = s10.header
      BY <1>2, <1>4
    <3> QED BY <1>5, <3>1, <3>2 DEF Data!KeptIs
  <2> QED BY <1>4, <1>5, <2>1, <2>2, <2>4, <2>5, <2>6, <2>7, <2>9, <2>10 DEF Data!SoundInv
<1> QED BY <1>4, <1>5, <1>8, <1>9 DEF Data!DataInv

\* The first piece of a medium.
LEMMA GiveFirst ==
  ASSUME Data!DataInv, s5 = "read", ~s7, NEW w \in Seq(Nat), NEW b \in Nat, s4 <= b,
         ~s21 => w = Data!Piece(s4, b), NEW o1, o1 = Data!Out(s10, "FIRST", w)
  PROVE  /\ o1 \in Outs /\ s11 \o o1.sent \in Seq(Msgs) /\ StartedBy(o1, s11 \o o1.sent, TRUE)
         /\ ~s21 => SoundedBy(o1, s11 \o o1.sent, TRUE, b)
                      /\ (o1.refused => s11 \o o1.sent = <<>>)
         /\ o1.refused => ~Data!SupportsFormat(w, Data!MediaType(s3)) /\ s12 = "IDLE"
         /\ ~Data!Headed(s3) => o1.header = s10.header
<1>1. /\ s3 \in Offered /\ s4 \in Nat /\ s19 \in Nat
      /\ s11 \in Seq(Msgs) /\ s18 \in Seq(Nat)
      /\ s10 \in Outs /\ s10.sent = <<>> /\ s11 \o s10.sent = s11
      /\ StartedBy(s10, s11, s7) /\ (s3.source \in {"data", "magic"} => s4 = 0)
  BY ReadIs
<1>2. Unst(s11) /\ ~s10.refused
  BY <1>1 DEF StartedBy
<1>3. o1 \in Outs /\ s11 \o o1.sent \in Seq(Msgs) /\ StartedBy(o1, s11 \o o1.sent, TRUE)
  BY <1>1, <1>2, StartFirst
<1>4. (o1.refused => ~Data!SupportsFormat(w, Data!MediaType(s3)))
      /\ (~Data!Headed(s3) => o1.header = s10.header)
  BY <1>1, <1>2, OutFirst
<1>5. ASSUME ~s21
      PROVE  SoundedBy(o1, s11 \o o1.sent, TRUE, b) /\ (o1.refused => s11 \o o1.sent = <<>>)
  <2>1. /\ s11 = <<>> /\ Len(s18) = s4 + s13
        /\ \E f \in Nat : Data!Fits(f) /\ Data!KindOf(s3, s18, s4, s19, f)
        /\ SoundedBy(s10, s11, s7, Data!Edge)
    BY <1>1, <1>5, ReadSounds
  <2>2. Data!Headed(s3) /\ s3.source # "magic" /\ s4 > 0 => s10.header \in {0, s3.front}
    BY <2>1 DEF SoundedBy, HeaderKnown
  <2>3. s13 = 0 /\ s12 = "IDLE" /\ Len(s18) = s4
    BY <1>1, <1>2, <2>1 DEF Unst
  <2>4. o1 = Data!Out(s10, "FIRST", Data!Piece(s4, b))
    BY <1>5
  <2> QED BY <1>1, <1>2, <2>1, <2>2, <2>3, <2>4, SoundFirst
<1> QED BY <1>2, <1>3, <1>4, <1>5 DEF Unst

\* The bytes w of a later piece go from e to b; nothing is given before the first
\* piece and after a refusal.
LaterBytes(o, q, bg, w, e, b) ==
  /\ bg \in BOOLEAN /\ StartedBy(o, q, bg)
  /\ e \in Nat /\ b \in Nat /\ e <= b /\ w \in Seq(Nat)
  /\ ~bg \/ o.refused => w = <<>>
  /\ ~s21 =>
        /\ SoundedBy(o, q, bg, e) /\ w = Data!Piece(e, b)
        /\ ~bg \/ o.refused => q = <<>> /\ b = e
\* What holds when it was given.
LaterGave(o, o1, q1, bg, b) ==
  /\ o1.refused = o.refused /\ o1.header = o.header
  /\ HoldsBack(o1, q1)
  /\ bg => StartedBy(o1, q1, TRUE)
  /\ ~s21 => SoundedBy(o1, q1, bg, b)

\* A later piece of it.
LEMMA GiveLater ==
  ASSUME NEW o \in Outs, NEW pos \in {"MID", "LAST"}, NEW bg, NEW e, NEW b, NEW w, NEW o1,
         o1 = Data!Out(o, pos, w), Data!DataInv, s5 = "read", LaterBytes(o, s11 \o o.sent, bg, w, e, b)
  PROVE  /\ o1 \in Outs /\ s11 \o o1.sent \in Seq(Msgs)
         /\ LaterGave(o, o1, s11 \o o1.sent, bg, b)
         /\ pos = "LAST" =>
              \/ Unst(s11 \o o1.sent) \/ Data!Stops(s11 \o o1.sent)
              \/ o.skip >= 0 /\ o.skip < Len(w) /\ ~o.refused
<1>1. /\ s3 \in Offered /\ s4 \in Nat /\ s13 \in Nat /\ s19 \in Nat
      /\ s11 \in Seq(Msgs) /\ s18 \in Seq(Nat)
  BY ReadIs
<1>0. /\ bg \in BOOLEAN /\ StartedBy(o, s11 \o o.sent, bg)
      /\ e \in Nat /\ b \in Nat /\ e <= b /\ w \in Seq(Nat)
      /\ ~bg \/ o.refused => w = <<>>
  BY DEF LaterBytes
<1>2. /\ HoldsBack(o, s11 \o o.sent)
      /\ bg /\ ~o.refused /\ o.skip >= 0 => Data!Tagged(s3)
  BY <1>0 DEF StartedBy
<1>7. ~o.refused \/ w = <<>>
  BY <1>0
<1>3. /\ o1 \in Outs /\ s11 \o o1.sent \in Seq(Msgs)
      /\ o1.refused = o.refused /\ HoldsBack(o1, s11 \o o1.sent)
      /\ o1.skip >= 0 => o.skip >= 0
      /\ pos = "LAST" =>
           \/ Unst(s11 \o o1.sent) \/ Data!Stops(s11 \o o1.sent)
           \/ o.skip >= 0 /\ o.skip < Len(w) /\ ~o.refused
  BY <1>0, <1>1, <1>2, <1>7, StartLater
<1>4. o1.header = o.header
  BY <1>0, OutLater
<1>5. bg => StartedBy(o1, s11 \o o1.sent, TRUE)
  BY <1>2, <1>3 DEF StartedBy
<1>6. ASSUME ~s21 PROVE SoundedBy(o1, s11 \o o1.sent, bg, b)
  <2>1. Len(s18) = s4 + s13
    BY <1>6, ReadSounds
  <2>2. /\ SoundedBy(o, s11 \o o.sent, bg, e) /\ w = Data!Piece(e, b)
        /\ ~bg \/ o.refused => s11 \o o.sent = <<>> /\ b = e
    BY <1>6 DEF LaterBytes
  <2>3. o1 = Data!Out(o, pos, Data!Piece(e, b))
    BY <2>2
  <2> QED BY <1>0, <1>1, <2>1, <2>2, <2>3, SoundLater
<1>8. LaterGave(o, o1, s11 \o o1.sent, bg, b)
  BY <1>3, <1>4, <1>5, <1>6 DEF LaterGave
<1> QED BY <1>3, <1>8

\* A last piece of nothing, or of the bytes up to b.
LEMMA LastIs ==
  ASSUME NEW o \in Outs, NEW bg, NEW e, NEW b, NEW w,
         Data!DataInv, s5 = "read", LaterBytes(o, s11 \o o.sent, bg, w, e, b),
         Data!HandOver(Data!Out(o, "LAST", w)), Data!Goes,
         s5' = "wait", UNCHANGED <<s7, s8>>, s6' \in Nat,
         o.refused /\ ~s10.refused => s12 = "IDLE",
         s3.source = "data" => o.header = s10.header,
         bg = s7 \/ s3.source \in {"file", "data"},
         o.skip >= 0 /\ o.skip < Len(w) /\ ~o.refused => Data!TagEndsLate
  PROVE  Data!DataInv'
<1> DEFINE o1 == Data!Out(o, "LAST", w)
           q1 == s11 \o o1.sent
<1>0. o1 = Data!Out(o, "LAST", w) /\ Data!HandOver(o1)
  OBVIOUS
<1> HIDE DEF o1
<1>1. /\ o1 \in Outs /\ q1 \in Seq(Msgs) /\ LaterGave(o, o1, q1, bg, b)
      /\ Unst(q1) \/ Data!Stops(q1) \/ Data!TagEndsLate
  <2>1. "LAST" \in {"MID", "LAST"}
    OBVIOUS
  <2> QED BY <1>0, <2>1, GiveLater
<1> HIDE DEF q1
<1>2. /\ s3 \in Offered /\ s4 \in Nat /\ s7 \in BOOLEAN /\ s8 \in Seq(Nat)
      /\ s3.source \in {"data", "magic"} => s4 = 0
  BY ReadIs
<1>3. s7' = s7 /\ s8' = s8
  OBVIOUS
<1>4. /\ OneStart(q1) /\ o1.refused = o.refused /\ o1.header = o.header
      /\ ~s21 => SoundedBy(o1, q1, bg, b)
  BY <1>1 DEF HoldsBack, LaterGave
<1>5. ASSUME ~s21, s3.source = "magic" => s7, LiveIn(q1) PROVE FlowsOn(q1)
  <2>1. s3.source = "magic" => bg
    BY <1>5
  <2> QED BY <1>1, <1>2, <1>4, <1>5, <2>1, FlowsAre
<1>6. ~s21 => FirstOnly(q1) /\ HeaderKnown(o1, q1)
  BY <1>4 DEF SoundedBy
<1>7. LastGave(o1, q1, s7)
  BY <1>1, <1>2, <1>4, <1>5, <1>6 DEF LastGave
<1>8. ~s21 /\ s3.source # "magic" => s8' = <<>>
  BY <1>3, ReadSounds
<1> QED BY <1>0, <1>2, <1>3, <1>7, <1>8, GaveLast DEF q1

\* A piece that is not the last leaves as much of the tag as there is behind it.
LEMMA PieceInTag ==
  ASSUME Data!DataInv, s5 = "read", NEW b \in Nat, s6 <= b, ~s10.refused, s7 \/ s4 <= b,
         s7 \/ s6 = s4, NEW o1, o1 = Data!Out(s10, Data!NextPos, Data!Piece(s6, b))
  PROVE  InTag(o1, TRUE, b)
<1> DEFINE w == Data!Piece(s6, b)
<1>1. /\ s3 \in Offered /\ s4 \in Nat /\ s6 \in Nat /\ s7 \in BOOLEAN
      /\ s10 \in Outs /\ s10.sent = <<>> /\ InTag(s10, s7, s6)
  BY ReadIs
<1>2. /\ w \in Seq(Nat) /\ Len(w) = b - s6
      /\ Len(w) > 0 => Head(w) = s6 + 1
  <2>1. w \in Seq(Nat) /\ Len(w) = b - s6 /\ \A k \in 1 .. b - s6 : w[k] = s6 + k
    BY <1>1, PieceIs
  <2> HIDE DEF w
  <2>2. Len(w) > 0 => Head(w) = w[1]
    BY <2>1
  <2> QED BY <1>1, <2>1, <2>2
<1>3. s10.skip \in Nat \cup {-1} /\ s3.front \in Nat
  BY <1>1, MediumIs DEF Outs
<1>4. o1 = Data!Out(s10, Data!NextPos, w)
  OBVIOUS
<1> HIDE DEF w
<1>5. CASE s7
  <2>1. o1 = Data!Out(s10, "MID", w) /\ "MID" \in {"MID", "LAST"}
    BY <1>4, <1>5 DEF Data!NextPos
  <2>2. /\ o1.refused = s10.refused
        /\ s10.skip >= Len(w) => o1.skip = s10.skip - Len(w)
        /\ s10.skip >= 0 /\ s10.skip < Len(w) => o1.skip = -1
        /\ s10.skip = -1 => o1.skip = -1
    BY ONLY <1>1, <1>2, <2>1, OutLater
  <2>3. s10.skip >= 0 => s4 = 0 /\ s6 + s10.skip = s3.front
    BY <1>1, <1>5 DEF InTag
  <2>4. o1.skip >= 0 => s10.skip >= 0 /\ o1.skip = s10.skip - (b - s6)
    BY ONLY <1>1, <1>2, <1>3, <2>2, b \in Nat, s6 <= b
  <2>5. o1.skip >= 0 => s4 = 0 /\ b + o1.skip = s3.front
    BY ONLY <1>1, <1>3, <2>3, <2>4, b \in Nat
  <2> QED BY <2>5 DEF InTag
<1>6. CASE ~s7
  <2>1. o1 = Data!Out(s10, "FIRST", w) /\ s6 = s4
    BY <1>1, <1>4, <1>6 DEF Data!NextPos
  <2>2. \/ o1.refused
        \/ Len(w) > MIN_ID3V2_LENGTH /\ Head(w) = 1 /\ o1.skip = s3.front - Len(w)
        \/ o1.skip = -1
    BY ONLY <1>1, <1>2, <2>1, OutFirst
  <2>3. MIN_ID3V2_LENGTH \in Nat
    BY MediaAssumption
  <2>4. ASSUME ~o1.refused, o1.skip >= 0 PROVE s4 = 0 /\ b + o1.skip = s3.front
    <3>1. Len(w) > 0 /\ Head(w) = 1 /\ o1.skip = s3.front - (b - s6)
      BY ONLY <1>1, <1>2, <2>2, <2>3, <2>4, b \in Nat, s6 <= b
    <3>2. s6 = 0
      BY ONLY <1>1, <1>2, <3>1
    <3> QED BY ONLY <1>1, <1>3, <2>1, <3>1, <3>2, b \in Nat
  <2> QED BY <2>4 DEF InTag
<1> QED BY <1>1, <1>5, <1>6

\* What a piece that is not the last gives.
LEMMA PieceGives ==
  ASSUME Data!DataInv, s5 = "read", s3.source # "magic", NEW b \in Nat, s6 <= b, ~s10.refused,
         s7 \/ s4 <= b, NEW o1, o1 = Data!Out(s10, Data!NextPos, Data!Piece(s6, b))
  PROVE  /\ o1 \in Outs /\ s11 \o o1.sent \in Seq(Msgs) /\ StartedBy(o1, s11 \o o1.sent, TRUE)
         /\ InTag(o1, TRUE, b)
         /\ o1.refused => s3.source # "data"
         /\ ~Data!Headed(s3) => o1.header = s10.header
         /\ ~s21 => SoundedBy(o1, s11 \o o1.sent, TRUE, b)
                      /\ (o1.refused => s11 \o o1.sent = <<>>)
<1> DEFINE w == Data!Piece(s6, b)
           q1 == s11 \o o1.sent
<1>1. /\ s3 \in Offered /\ s4 \in Nat /\ s6 \in Nat /\ s7 \in BOOLEAN
      /\ s10 \in Outs /\ s11 \o s10.sent = s11 /\ s8 \in Seq(Nat)
      /\ StartedBy(s10, s11 \o s10.sent, s7)
      /\ ~s7 => s6 = s4
  BY ReadIs
<1>2. w \in Seq(Nat) /\ o1 = Data!Out(s10, Data!NextPos, w)
  BY <1>1, PieceIs
<1>3. ~s21 => SoundedBy(s10, s11 \o s10.sent, s7, s6) /\ w = Data!Piece(s6, b)
  BY ReadSounds
<1> HIDE DEF w, q1
<1>6. InTag(o1, TRUE, b)
  BY <1>1, PieceInTag
<1>4. CASE s7
  <2>1. Data!NextPos = "MID" /\ s7 = TRUE /\ "MID" \in {"MID", "LAST"}
    BY <1>1, <1>4 DEF Data!NextPos
  <2>2. o1 = Data!Out(s10, "MID", w)
    BY <1>2, <2>1
  <2>3. LaterBytes(s10, s11 \o s10.sent, TRUE, w, s6, b)
    BY <1>1, <1>2, <1>3, <2>1 DEF LaterBytes
  <2>4. o1 \in Outs /\ s11 \o o1.sent \in Seq(Msgs) /\ LaterGave(s10, o1, s11 \o o1.sent, TRUE, b)
    BY <1>1, <2>1, <2>2, <2>3, GiveLater
  <2> QED BY <1>6, <2>4 DEF LaterGave
<1>5. CASE ~s7
  <2>1. Data!NextPos = "FIRST" /\ s6 = s4 /\ s4 <= b
    BY <1>1, <1>5 DEF Data!NextPos
  <2>2. o1 = Data!Out(s10, "FIRST", w)
    BY <1>2, <2>1
  <2>3. w = Data!Piece(s4, b)
    BY <2>1 DEF w
  <2>4. /\ o1 \in Outs /\ s11 \o o1.sent \in Seq(Msgs) /\ StartedBy(o1, s11 \o o1.sent, TRUE)
        /\ ~s21 => SoundedBy(o1, s11 \o o1.sent, TRUE, b)
                     /\ (o1.refused => s11 \o o1.sent = <<>>)
        /\ o1.refused => ~Data!SupportsFormat(w, Data!MediaType(s3))
        /\ ~Data!Headed(s3) => o1.header = s10.header
    BY <1>2, <1>5, <2>1, <2>2, <2>3, GiveFirst
  <2>5. s3.source = "data" => Data!SupportsFormat(w, Data!MediaType(s3))
    BY <1>1, MediumIs DEF Data!SupportsFormat
  <2> QED BY <1>6, <2>4, <2>5
<1> QED BY <1>1, <1>4, <1>5, <1>6

\* A piece of the medium is taken.
LEMMA PieceIsTaken ==
  ASSUME Data!DataInv, s5 = "read", s3.source # "magic", NEW b \in Nat, s6 <= b, ~s10.refused,
         s7 \/ s4 <= b, Data!HandOver(Data!Out(s10, Data!NextPos, Data!Piece(s6, b))), Data!Goes,
         s6' = b, s7' = TRUE, UNCHANGED <<s5, s8>>
  PROVE  Data!DataInv'
<1> DEFINE o1 == Data!Out(s10, Data!NextPos, Data!Piece(s6, b))
           q1 == s11 \o o1.sent
<1>0. Data!HandOver(o1) /\ o1 = Data!Out(s10, Data!NextPos, Data!Piece(s6, b))
  OBVIOUS
<1> HIDE DEF o1
<1>1. s3 \in Offered /\ s8 \in Seq(Nat)
  BY ReadIs
<1>2. /\ o1 \in Outs /\ q1 \in Seq(Msgs) /\ StartedBy(o1, q1, TRUE)
      /\ InTag(o1, TRUE, s6')
      /\ o1.refused => s3.source # "data"
      /\ ~Data!Headed(s3) => o1.header = s10.header
      /\ ~s21 => SoundedBy(o1, q1, TRUE, b) /\ (o1.refused => q1 = <<>>)
  BY <1>0, PieceGives
<1>3. s3.source = "data" => ~Data!Headed(s3)
  BY <1>1, MediumIs
<1>4. ~s21 =>
         /\ SoundedBy(o1, q1, TRUE, Data!Edge') /\ s8' = <<>>
         /\ Len(s8') <= s6' /\ s8' = Data!Piece(Data!Edge', s6')
  <2> SUFFICES ASSUME ~s21
               PROVE  /\ SoundedBy(o1, q1, TRUE, Data!Edge') /\ s8' = <<>>
                      /\ Len(s8') <= s6' /\ s8' = Data!Piece(Data!Edge', s6')
    OBVIOUS
  <2>1. s8' = <<>> /\ Data!Edge' = b /\ Len(s8') = 0
    BY ReadSounds DEF Data!Edge
  <2>2. Data!Piece(b, b) = <<>>
    BY NoPiece
  <2>3. SoundedBy(o1, q1, TRUE, Data!Edge')
    BY <1>2, <2>1
  <2>4. s8' = Data!Piece(Data!Edge', s6')
    <3>1. s6' = b
      OBVIOUS
    <3> QED BY ONLY <2>1, <2>2, <3>1
  <2>5. Len(s8') <= s6'
    BY <2>1
  <2> QED BY <2>1, <2>3, <2>4, <2>5
<1> QED BY <1>0, <1>1, <1>2, <1>3, <1>4, GaveOn

\* A piece comes through HTTP.
LEMMA StepUrlPiece == ASSUME Data!DataInv, NEW n \in UrlPieces, Data!UrlPiece(n) PROVE Data!DataInv'
<1>1. /\ s5 = "read" /\ s3.source = "url" /\ ~s9
      /\ Data!HandOver(Data!Out(s10, Data!NextPos, Data!Piece(s6, s6 + n))) /\ Data!Goes
      /\ s6' = s6 + n /\ s7' = TRUE /\ UNCHANGED <<s5, s8>>
  BY DEF Data!UrlPiece, Data!Reading, Data!Take
<1>2. ~s10.refused /\ s6 \in Nat /\ (~s7 => s6 = s4)
  BY <1>1, ReadIs
<1>3. n \in Nat
  BY MediaAssumption
<1>4. s6 + n \in Nat /\ s6 <= s6 + n /\ (s7 \/ s4 <= s6 + n)
  BY <1>2, <1>3
<1> QED BY <1>1, <1>2, <1>4, PieceIsTaken

\* The connection ends.
LEMMA NothingIsLast ==
  ASSUME Data!DataInv, s5 = "read", Data!HandOver(Data!Out(s10, "LAST", <<>>)), Data!Finish(0), Data!Goes
  PROVE  Data!DataInv'
<1>1. /\ s10 \in Outs /\ s7 \in BOOLEAN /\ s6 \in Nat /\ s11 \o s10.sent = s11
      /\ StartedBy(s10, s11 \o s10.sent, s7)
  BY ReadIs
<1>2. s5' = "wait" /\ UNCHANGED <<s7, s8>> /\ s6' \in Nat
  BY <1>1 DEF Data!Finish
<1>3. <<>> \in Seq(Nat) /\ ~(s10.skip >= 0 /\ s10.skip < Len(<<>>))
  BY <1>1 DEF Outs
<1>4. CASE s21
  <2>1. LaterBytes(s10, s11 \o s10.sent, s7, <<>>, 0, 0)
    BY <1>1, <1>3, <1>4 DEF LaterBytes
  <2> QED BY <1>1, <1>2, <1>3, <2>1, LastIs
<1>5. CASE ~s21
  <2>1. Data!Edge \in Nat /\ SoundedBy(s10, s11 \o s10.sent, s7, Data!Edge)
        /\ (~s7 \/ s10.refused => s11 = <<>>)
    BY <1>5, ReadSounds
  <2>2. Data!Piece(Data!Edge, Data!Edge) = <<>> /\ Data!Edge <= Data!Edge
    BY <2>1, NoPiece
  <2>3. LaterBytes(s10, s11 \o s10.sent, s7, <<>>, Data!Edge, Data!Edge)
    BY <1>1, <1>3, <2>1, <2>2 DEF LaterBytes
  <2> QED BY <1>1, <1>2, <1>3, <2>3, LastIs
<1> QED BY <1>4, <1>5

\* A last piece of at most one frame in which the tag ends.
LEMMA LateTag ==
  ASSUME Data!DataInv, s5 = "read", s7, s3.source # "url", NEW n \in Nat, n <= FRAME_SIZE,
         s3.len - s6 = n, s10.skip >= 0, s10.skip < n, ~s10.refused
  PROVE  Data!TagEndsLate
<1>1. s3 \in Offered /\ s6 \in Nat /\ s10 \in Outs /\ StartedBy(s10, s11 \o s10.sent, s7) /\ InTag(s10, s7, s6)
  BY ReadIs
<1>2. s3.len \in Nat /\ s3.front \in Nat /\ s10.skip \in Nat \cup {-1} /\ FRAME_SIZE \in Nat
  BY <1>1, MediumIs, MediaAssumption DEF Outs
<1>3. Data!Tagged(s3) /\ s4 = 0 /\ s6 + s10.skip = s3.front
  BY <1>1 DEF StartedBy, InTag
<1>4. s3.len - FRAME_SIZE <= s3.front /\ s3.front < s3.len
  BY <1>1, <1>2, <1>3
<1> QED BY <1>3, <1>4 DEF Data!TagEndsLate

\* A piece of a file is read.
LEMMA StepFilePiece == ASSUME Data!DataInv, Data!FilePiece PROVE Data!DataInv'
<1>1. s5 = "read" /\ s3.source = "file" /\ Data!Goes
  BY DEF Data!FilePiece, Data!Reading
<1>2. /\ s3 \in Offered /\ s4 \in Nat /\ s6 \in Nat /\ s7 \in BOOLEAN
      /\ s10 \in Outs /\ s11 \o s10.sent = s11 /\ s8 \in Seq(Nat)
      /\ StartedBy(s10, s11 \o s10.sent, s7) /\ InTag(s10, s7, s6)
      /\ s10.refused => s9
      /\ ~s7 => s6 = s4
  BY <1>1, ReadIs
<1>3. s3.len \in Nat /\ FRAME_SIZE \in Nat /\ FRAME_SIZE >= 1
  BY <1>2, MediumIs, MediaAssumption
<1>4. Data!Rest \in Nat /\ Data!Frame \in Nat /\ (Data!Frame = 0 <=> s6 >= s3.len) /\ s6 + Data!Frame \in Nat
  BY <1>2, <1>3 DEF Data!Rest, Data!Frame
<1>5. CASE s9
  <2>1. Data!HandOver(Data!Out(s10, "LAST", <<>>)) /\ Data!Finish(0)
    BY <1>5 DEF Data!FilePiece
  <2> QED BY <1>1, <2>1, NothingIsLast
<1>6. CASE ~s9 /\ s7 /\ Data!Frame < FRAME_SIZE
  <2>1. Data!HandOver(Data!Out(s10, "LAST", Data!Piece(s6, s6 + Data!Frame))) /\ Data!Finish(Data!Frame)
    BY <1>6 DEF Data!FilePiece
  <2> DEFINE b == s6 + Data!Frame
             w == Data!Piece(s6, b)
  <2>2. b \in Nat /\ s6 <= b
    BY <1>2, <1>4
  <2>3. w \in Seq(Nat)
    BY <1>2, <2>2, PieceIs
  <2>4. s5' = "wait" /\ UNCHANGED <<s7, s8>> /\ s6' \in Nat
    BY <1>4, <2>1 DEF Data!Finish
  <2>5. ~s21 => SoundedBy(s10, s11 \o s10.sent, s7, s6)
    BY <1>1, ReadSounds
  <2>6. Data!HandOver(Data!Out(s10, "LAST", w))
    BY <2>1
  <2>7. ~s21 => w = Data!Piece(s6, b)
    OBVIOUS
  <2>10. Len(w) = Data!Frame
    <3>1. Len(w) = b - s6
      BY <1>2, <2>2, PieceIs
    <3> QED BY <1>2, <1>4, <3>1
  <2> HIDE DEF w, b
  <2>11. ASSUME s10.skip >= 0, s10.skip < Len(w), ~s10.refused PROVE Data!TagEndsLate
    <3>1. Data!Frame <= FRAME_SIZE /\ Data!Frame # 0
      BY <1>2, <1>3, <1>4, <1>6, <2>10, <2>11 DEF Outs
    <3>2. s3.len - s6 = Data!Frame
      BY <1>2, <1>3, <1>4, <1>6, <3>1 DEF Data!Frame, Data!Rest
    <3> QED BY <1>1, <1>4, <1>6, <2>10, <2>11, <3>1, <3>2, LateTag
  <2>8. LaterBytes(s10, s11 \o s10.sent, s7, w, s6, b)
    BY <1>2, <1>6, <2>2, <2>3, <2>5, <2>7 DEF LaterBytes
  <2>9. s3.source # "data"
    BY <1>1
  <2> QED BY <1>1, <1>2, <2>4, <2>6, <2>8, <2>9, <2>11, LastIs
<1>7. CASE ~s9 /\ ~(s7 /\ Data!Frame < FRAME_SIZE) /\ Data!Frame # 0
  <2>1. Data!HandOver(Data!Out(s10, Data!NextPos, Data!Piece(s6, s6 + Data!Frame))) /\ Data!Take(Data!Frame)
    BY <1>7 DEF Data!FilePiece
  <2>2. s6 <= s6 + Data!Frame /\ (s7 \/ s4 <= s6 + Data!Frame) /\ ~s10.refused
    BY <1>2, <1>4, <1>7
  <2>3. s6' = s6 + Data!Frame /\ s7' = TRUE /\ UNCHANGED <<s5, s8>>
    BY <2>1 DEF Data!Take
  <2>4. s3.source # "magic"
    BY <1>1
  <2> QED BY <1>1, <1>4, <2>1, <2>2, <2>3, <2>4, PieceIsTaken
<1>8. CASE ~s9 /\ ~s7 /\ Data!Frame = 0
  <2>1. Data!HandOver(Data!Out(s10, Data!NextPos, Data!Piece(s6, s6 + Data!Frame))) /\ Data!Finish(0)
    BY <1>3, <1>8 DEF Data!FilePiece
  <2> DEFINE w == Data!Piece(s6, s6 + Data!Frame)
             o1 == Data!Out(s10, "FIRST", w)
             q1 == s11 \o o1.sent
  <2>2. s6 + Data!Frame = s6 /\ s6 = s4 /\ s4 >= s3.len /\ s6 + Data!Frame \in Nat
        /\ s6 <= s6 + Data!Frame
    BY <1>2, <1>4, <1>8
  <2>3. w \in Seq(Nat) /\ w = Data!Piece(s4, s4)
    BY <1>2, <2>2, PieceIs
  <2>4. Data!NextPos = "FIRST"
    BY <1>8 DEF Data!NextPos
  <2>5. Data!HandOver(o1) /\ o1 = Data!Out(s10, "FIRST", w)
    BY <2>1, <2>4
  <2>6. s5' = "wait" /\ s7' = s7 /\ s8' = s8 /\ s6' \in Nat
    BY <1>2, <2>1 DEF Data!Finish
  <2> HIDE DEF w, o1
  <2>7. /\ o1 \in Outs /\ q1 \in Seq(Msgs) /\ StartedBy(o1, q1, TRUE)
        /\ ~s21 => SoundedBy(o1, q1, TRUE, s4)
        /\ o1.refused => s12 = "IDLE"
    <3>1. s4 <= s4
      BY <1>2
    <3> QED BY <1>1, <1>2, <1>8, <2>3, <2>5, <3>1, GiveFirst
  <2> HIDE DEF q1
  <2>8. OneStart(q1)
    BY <2>7 DEF StartedBy, HoldsBack
  <2>9. ~s21 => FirstOnly(q1) /\ HeaderKnown(o1, q1)
    BY <2>7 DEF SoundedBy
  <2>10. ASSUME ~s21, LiveIn(q1) PROVE FlowsOn(q1)
    <3>1. s3.source # "magic"
      BY <1>1
    <3> QED BY <1>2, <2>7, <2>10, <3>1, FlowsAre
  <2>11. LastGave(o1, q1, s7)
    BY <1>1, <1>2, <2>2, <2>7, <2>8, <2>9, <2>10 DEF LastGave
  <2>12. ~s21 /\ s3.source # "magic" => s8' = <<>>
    BY <1>1, <2>6, ReadSounds
  <2>13. s8' \in Seq(Nat)
    BY <1>2, <2>6
  <2> QED BY <1>1, <2>5, <2>6, <2>11, <2>12, <2>13, GaveLast DEF q1
<1> QED BY <1>2, <1>5, <1>6, <1>7, <1>8, <1>3, <1>4

\* A piece of a tone is given.
LEMMA StepDataPiece == ASSUME Data!DataInv, Data!DataPiece PROVE Data!DataInv'
<1> DEFINE b == s6 + Data!Frame
           w == Data!Piece(s6, b)
           pos == IF s7 /\ Data!Rest <= FRAME_SIZE THEN "LAST" ELSE Data!NextPos
           o == Data!Out(s10, pos, w)
           q == s11 \o o.sent
<1>1. s5 = "read" /\ s3.source = "data" /\ Data!Goes
  BY DEF Data!DataPiece, Data!Reading
<1>2. /\ s3 \in Offered /\ s4 \in Nat /\ s6 \in Nat /\ s7 \in BOOLEAN
      /\ s10 \in Outs /\ s11 \o s10.sent = s11 /\ s8 \in Seq(Nat)
      /\ StartedBy(s10, s11 \o s10.sent, s7)
      /\ ~s10.refused /\ s4 = 0
      /\ ~s7 => s6 = s4
  BY <1>1, ReadIs
<1>3. s3.len \in Nat /\ FRAME_SIZE \in Nat /\ FRAME_SIZE >= 1 /\ ~Data!Headed(s3)
  BY <1>1, <1>2, MediumIs, MediaAssumption
<1>4. /\ Data!Rest \in Nat /\ Data!Frame \in Nat /\ (Data!Rest <= FRAME_SIZE <=> Data!Frame = Data!Rest)
      /\ b \in Nat /\ s6 <= b /\ s4 <= b
      /\ ~s7 /\ Data!Frame = Data!Rest => s3.len <= FRAME_SIZE
  BY <1>2, <1>3 DEF Data!Rest, Data!Frame
<1>5. \/ /\ ~s9 /\ Data!HandOver(o) /\ IF Data!Frame = Data!Rest THEN Data!Finish(Data!Frame) ELSE Data!Take(Data!Frame)
      \/ /\ s9 /\ Data!Finish(Data!Frame)
         /\ Data!HandOver(IF pos = "LAST" THEN o ELSE Data!Out(o, "LAST", <<>>))
  BY DEF Data!DataPiece
<1>6. w \in Seq(Nat) /\ (~s21 => w = Data!Piece(s6, b))
  BY <1>2, <1>4, PieceIs
<1>7. ~s21 => SoundedBy(s10, s11 \o s10.sent, s7, s6) /\ s8 = <<>>
  BY <1>1, ReadSounds
<1>8. s3.source # "magic"
  BY <1>1
<1>9. b = s6 + Data!Frame /\ w = Data!Piece(s6, b) /\ o = Data!Out(s10, pos, w) /\ q = s11 \o o.sent
  OBVIOUS
<1>10. pos = IF s7 /\ Data!Rest <= FRAME_SIZE THEN "LAST" ELSE Data!NextPos
  OBVIOUS
<1>11. Data!NextPos # "LAST"
  BY DEF Data!NextPos
<1> HIDE DEF b, w, pos, o, q
<1>12. ASSUME Data!Finish(Data!Frame) PROVE s5' = "wait" /\ s7' = s7 /\ s8' = s8 /\ s6' \in Nat
  BY <1>2, <1>4, <1>9, <1>12 DEF Data!Finish
<1>13. CASE s7 /\ Data!Rest <= FRAME_SIZE
  <2>1. pos = "LAST" /\ Data!Frame = Data!Rest
    BY <1>4, <1>10, <1>13
  <2>2. Data!HandOver(Data!Out(s10, "LAST", w)) /\ Data!Finish(Data!Frame)
    BY <1>5, <1>9, <2>1
  <2>3. LaterBytes(s10, s11 \o s10.sent, s7, w, s6, b)
    BY <1>2, <1>4, <1>6, <1>7, <1>13 DEF LaterBytes
  <2>4. ASSUME s10.skip >= 0, s10.skip < Len(w), ~s10.refused PROVE Data!TagEndsLate
    <3>1. Len(w) = Data!Frame
      BY <1>2, <1>4, <1>9, PieceIs
    <3>2. Data!Frame # 0
      BY <1>2, <1>4, <2>4, <3>1 DEF Outs
    <3>3. s3.len - s6 = Data!Frame
      BY <1>2, <1>3, <1>4, <2>1, <3>2 DEF Data!Rest
    <3> QED BY <1>1, <1>4, <1>13, <2>1, <2>4, <3>1, <3>3, LateTag
  <2> QED BY <1>1, <1>2, <1>12, <2>2, <2>3, <2>4, LastIs
<1>14. CASE ~(s7 /\ Data!Rest <= FRAME_SIZE)
  <2>1. pos = Data!NextPos /\ pos # "LAST" /\ o = Data!Out(s10, Data!NextPos, Data!Piece(s6, b))
    BY <1>9, <1>10, <1>11, <1>14
  <2>2. /\ o \in Outs /\ q \in Seq(Msgs) /\ StartedBy(o, q, TRUE)
        /\ ~o.refused /\ o.header = s10.header
        /\ ~s21 => SoundedBy(o, q, TRUE, b)
    BY <1>1, <1>2, <1>3, <1>4, <1>8, <1>9, <2>1, PieceGives
  <2>3. CASE s9
    <3>1. Data!Finish(Data!Frame) /\ Data!HandOver(Data!Out(o, "LAST", <<>>))
      BY <1>5, <2>1, <2>3
    <3>2. <<>> \in Seq(Nat) /\ Data!Piece(b, b) = <<>> /\ b <= b
          /\ ~(o.skip >= 0 /\ o.skip < Len(<<>>))
      BY <1>4, <2>2, NoPiece DEF Outs
    <3>3. LaterBytes(o, s11 \o o.sent, TRUE, <<>>, b, b)
      BY <1>4, <1>9, <2>2, <3>2 DEF LaterBytes
    <3> QED BY <1>1, <1>12, <2>2, <3>1, <3>2, <3>3, LastIs
  <2>4. CASE ~s9 /\ Data!Frame # Data!Rest
    <3>1. Data!HandOver(Data!Out(s10, Data!NextPos, Data!Piece(s6, b))) /\ Data!Take(Data!Frame)
      BY <1>5, <2>1, <2>4
    <3>2. s6' = b /\ s7' = TRUE /\ UNCHANGED <<s5, s8>>
      BY <1>9, <3>1 DEF Data!Take
    <3> QED BY <1>1, <1>2, <1>4, <1>8, <3>1, <3>2, PieceIsTaken
  <2>5. CASE ~s9 /\ Data!Frame = Data!Rest
    <3>1. Data!HandOver(o) /\ Data!Finish(Data!Frame) /\ ~s7
      BY <1>4, <1>5, <1>14, <2>5
    <3>2. OneStart(q)
      BY <2>2 DEF StartedBy, HoldsBack
    <3>3. ~s21 => FirstOnly(q) /\ HeaderKnown(o, q)
      BY <2>2 DEF SoundedBy
    <3>4. ASSUME ~s21, LiveIn(q) PROVE FlowsOn(q)
      BY <1>2, <1>8, <2>2, <3>4, FlowsAre
    <3>5. LastGave(o, q, s7)
      BY <1>1, <1>2, <1>4, <2>2, <2>5, <3>1, <3>2, <3>3, <3>4 DEF LastGave
    <3>6. /\ ~s21 /\ s3.source # "magic" => s8' = <<>>
          /\ s5' = "wait" /\ s7' = s7 /\ s6' \in Nat /\ s8' \in Seq(Nat)
      BY <1>2, <1>7, <1>12, <3>1
    <3> QED BY <1>1, <1>9, <3>1, <3>5, <3>6, GaveLast
  <2> QED BY <2>3, <2>4, <2>5
<1> QED BY <1>13, <1>14

\* The connection ends, or the medium was stopped.
LEMMA StepUrlEnds == ASSUME Data!DataInv, Data!UrlEnds PROVE Data!DataInv'
<1>1. s5 = "read" /\ s3.source = "url" /\ Data!Finish(0) /\ Data!Goes
  BY DEF Data!UrlEnds, Data!Reading
<1>2. CASE s7
  BY <1>1, <1>2, NothingIsLast DEF Data!UrlEnds
<1>3. CASE ~s7
  <2>1. /\ s10 \in Outs /\ s6 \in Nat /\ s11 \o s10.sent = s11 /\ s11 \in Seq(Msgs) /\ s8 \in Seq(Nat)
        /\ s7 \in BOOLEAN
        /\ StartedBy(s10, s11 \o s10.sent, s7)
    BY <1>1, ReadIs
  <2>2. Data!HandOver(s10)
    BY <1>3 DEF Data!UrlEnds
  <2>3. s5' = "wait" /\ s7' = s7 /\ s8' = s8 /\ s6' \in Nat
    BY <1>1, <2>1 DEF Data!Finish
  <2>4. OneStart(s11) /\ Unst(s11)
    BY <1>3, <2>1 DEF StartedBy, HoldsBack
  <2>5. ~s21 => s11 = <<>> /\ SoundedBy(s10, s11, s7, Data!Edge) /\ s8 = <<>>
    BY <1>1, <1>3, <2>1, ReadSounds
  <2>6. ~s21 => FirstOnly(s11) /\ HeaderKnown(s10, s11) /\ ~LiveIn(s11)
    BY <2>4, <2>5 DEF SoundedBy, LiveIn, Unst
  <2>8. LastGave(s10, s11, s7)
    BY <1>3, <2>1, <2>4, <2>6 DEF LastGave
  <2>7. LastGave(s10, s11 \o s10.sent, s7)
    BY ONLY <2>1, <2>8
  <2> QED BY <1>1, <1>3, <2>1, <2>2, <2>3, <2>5, <2>7, GaveLast
<1> QED BY <1>2, <1>3

\* A changed voice is stopped.
LEMMA StepMagicStops == ASSUME Data!DataInv, Data!MagicStops PROVE Data!DataInv'
BY NothingIsLast DEF Data!MagicStops, Data!Reading

\* What the state is made of, for the steps of the other threads.
LEMMA MediaStateIs ==
  ASSUME Data!DataInv
  PROVE  /\ s3 \in Offered \cup {Data!None} /\ s16 \in Offered \cup {Data!None}
         /\ s4 \in Nat /\ s6 \in Nat /\ s19 \in Nat /\ s13 \in Nat /\ s15 \in Nat
         /\ s17 \in Nat /\ s18 \in Seq(Nat) /\ s11 \in Seq(Msgs) /\ s8 \in Seq(Nat)
         /\ s20.heard \in Seq(Nat) /\ s20.again \in Nat
         /\ s5 \in {"rest", "read", "wait"} /\ s21 \in BOOLEAN
         /\ Data!StartInv /\ (~s21 => Data!SoundInv)
BY DEF Data!DataInv, Data!MediaDataTypeOK, Msgs

\* Nothing of the data changes.
LEMMA MediaStays ==
  ASSUME Data!DataInv,
         UNCHANGED <<s1, s2, s3, s4, s5, s6, s7, s8, s9, s10, s11,
                     s12, s13, s14, s15, s16, s17, s18, s19, s20, s21>>
  PROVE  Data!DataInv'
<1>1. UNCHANGED <<s1, s2, s3, s4, s5, s6, s7, s8, s9, s10, s11, s12,
                  s13, s14, s15, s18, s16, s17, s19, s20, s21>>
  OBVIOUS
<1>2. Data!MediaDataTypeOK'
  BY <1>1 DEF Data!DataInv, Data!MediaDataTypeOK
<1>3. Data!StartInv'
  BY <1>1 DEF Data!DataInv, Data!StartInv, Data!MayStart, Data!Unstarted, Data!Starts, Data!Stops,
     Data!EndsBadly, Data!TagEndsLate, Data!ShortVoice
<1>4. ~s21' => Data!SoundInv'
  BY <1>1 DEF Data!DataInv, Data!SoundInv, Data!MayStart, Data!Live, Data!ShortVoice, Data!FlowIs,
     Data!Fits, Data!Edge, Data!AgainOf, Data!KeptIs
<1> QED BY <1>2, <1>3, <1>4 DEF Data!DataInv

\* The medium that plays is stopped.
LEMMA StepStop == ASSUME Data!DataInv, Data!Stop PROVE Data!DataInv'
<1>1. /\ s9' = TRUE /\ s12' = "IDLE" /\ s2' = s2 + 1
      /\ UNCHANGED <<s1, s3, s4, s5, s6, s7, s8, s10, s11,
                     s13, s14, s15, s18, s16, s17, s19, s20, s21>>
  BY DEF Data!Stop, Data!source
<1>2. Data!MediaDataTypeOK'
  BY <1>1 DEF Data!DataInv, Data!MediaDataTypeOK
<1>3. Data!StartInv'
  <2>0. Data!StartInv
    BY DEF Data!DataInv
  <2>1. Data!Unstarted => Data!Unstarted'
    BY <1>1 DEF Data!Unstarted, Data!Starts
  <2>2. Data!MayStart' => Data!Unstarted'
    BY <1>1, <2>0, <2>1 DEF Data!StartInv, Data!MayStart
  <2>3. \A i \in 1..Len(s11') : s11'[i].cmd = "START" =>
          /\ s13' = 0 /\ s12' = "IDLE"
          /\ \A j \in 1..Len(s11') : s11'[j].cmd = "START" => j = i
    BY <1>1, <2>0 DEF Data!StartInv
  <2>4. (s5 = "wait" /\ ~Data!Unstarted => s15 > 0 \/ Data!Stops(s11) \/ Data!EndsBadly)'
    BY <1>1, <2>0, <2>1 DEF Data!StartInv, Data!Stops, Data!EndsBadly, Data!TagEndsLate, Data!ShortVoice
  <2> QED BY <1>1, <2>0, <2>2, <2>3, <2>4 DEF Data!StartInv, Data!Starts
<1>4. ASSUME ~s21 PROVE Data!SoundInv'
  <2>0. Data!SoundInv
    BY <1>4 DEF Data!DataInv
  <2>1. Data!Live' => Data!Live
    BY <1>1 DEF Data!Live
  <2>2. (Data!Live /\ ~Data!ShortVoice =>
          \E h \in Seq(Nat), f \in Nat :
              Data!FlowIs(h, f) /\ \E l \in [0..Len(s11) -> 0..Len(h)] : Data!Laid(s11, s18, h, l))'
    BY <1>1, <2>0, <2>1 DEF Data!SoundInv, Data!ShortVoice, Data!FlowIs, Data!Fits, Data!Edge,
       Data!AgainOf
  <2>3. (\A i \in 1..Len(s11) : s11[i].cmd = "START" => i = 1)'
    BY <1>1, <2>0 DEF Data!SoundInv
  <2>4. (s5 = "rest" \/ Data!MayStart => s11 = <<>>)'
    BY <1>1, <2>0 DEF Data!SoundInv, Data!MayStart
  <2>5. (~Data!ShortVoice => \E f \in Nat : Data!Fits(f) /\ Data!KindOf(s3, s18, s4, s19, f))'
    BY <1>1, <2>0 DEF Data!SoundInv, Data!ShortVoice, Data!Fits
  <2>6. (Data!Headed(s3) /\ s3.source # "magic" /\ s5 # "rest"
          /\ (s4 > 0 \/ s13 > 0 \/ Data!Live) => s10.header \in {0, s3.front})'
    BY <1>1, <2>0, <2>1 DEF Data!SoundInv
  <2>7. ((s5 = "rest" \/ s3.source = "data") /\ s16.source \in {"url", "file"} => Data!KeptIs)'
    BY <1>1, <2>0 DEF Data!SoundInv, Data!KeptIs
  <2>8. (/\ Len(s18) = s4 + s13
         /\ s5 = "read" => s4 <= Data!Edge /\ (~s7 => Data!Edge = s4)
         /\ s3.source # "magic" => s8 = <<>>
         /\ s5 = "read" => Len(s8) <= s6 /\ s8 = Data!Piece(Data!Edge, s6))'
    BY <1>1, <2>0 DEF Data!SoundInv, Data!Edge
  <2> QED BY <2>2, <2>3, <2>4, <2>5, <2>6, <2>7, <2>8 DEF Data!SoundInv
<1> QED BY <1>1, <1>2, <1>3, <1>4 DEF Data!DataInv

\* Nothing was asked for yet.
LEMMA MediaBegins == ASSUME Data!Init PROVE Data!DataInv
<1>1. /\ s1 = 0 /\ s2 = 0 /\ s3 = Data!None /\ s4 = 0 /\ s5 = "rest"
      /\ s6 = 0 /\ s7 = FALSE /\ s8 = <<>> /\ s9 = FALSE /\ s10 = Data!Fresh
      /\ s11 = <<>> /\ s12 = "IDLE" /\ s13 = 0 /\ s14 = FALSE /\ s15 = 0
      /\ s16 = Data!None /\ s17 = 0 /\ s18 = <<>> /\ s19 = 0 /\ s21 = FALSE
      /\ s20 = [heard |-> <<>>, again |-> 0]
  BY DEF Data!Init
<1>2. Len(<<>>) = 0 /\ (\A i \in 1..0 : FALSE)
  OBVIOUS
<1>3. Data!MediaDataTypeOK
  <2>1. s10 \in [skip: Nat \cup {-1}, header: {0} \cup {m.front : m \in Offered},
                 refused: BOOLEAN, sent: {<<>>}]
    BY <1>1 DEF Data!Fresh
  <2>2. <<>> \in Seq(Nat) /\ <<>> \in Seq([cmd: {"START", "CONTINUE", "STOP"}, bytes: Seq(Nat)])
    OBVIOUS
  <2>3. s20 \in [heard: Seq(Nat), again: Nat]
    BY <1>1, <2>2
  <2>4. /\ s3 \in Offered \cup {Data!None} /\ s16 \in Offered \cup {Data!None}
        /\ s11 \in Seq([cmd: {"START", "CONTINUE", "STOP"}, bytes: Seq(Nat)])
        /\ s18 \in Seq(Nat) /\ s8 \in Seq(Nat)
    BY <1>1, <2>2
  <2> QED BY <1>1, <2>1, <2>3, <2>4 DEF Data!MediaDataTypeOK
<1>4. Data!StartInv
  BY <1>1, <1>2 DEF Data!StartInv, Data!MayStart, Data!Starts, Data!None
<1>5. Data!SoundInv
  <2>1. Data!KindOf(s3, s18, s4, s19, 0) /\ Data!Fits(0)
    BY <1>1, SilenceIs DEF Data!Fits
  <2>2. ~Data!Live /\ ~Data!MayStart
    BY <1>1 DEF Data!Live, Data!MayStart
  <2>3. s16.source = "none"
    BY <1>1 DEF Data!None
  <2> QED BY <1>1, <1>2, <2>1, <2>2, <2>3 DEF Data!SoundInv
<1> QED BY <1>3, <1>4, <1>5 DEF Data!DataInv

\* A medium is asked for.
LEMMA StepSend == ASSUME Data!DataInv, NEW m \in Offered, Data!Send(m) PROVE Data!DataInv'
<1>1. /\ s5 = "rest" /\ s1' = s1 + 1 /\ s3' = m /\ s4' = 0
      /\ s6' = (IF m.source = "magic" THEN WAV_HEADER ELSE 0)
      /\ s5' = "read" /\ s7' = FALSE /\ s9' = FALSE /\ s13' = 0
      /\ s10' = [s10 EXCEPT !.refused = FALSE]
      /\ s8' = (IF m.source = "magic" THEN Data!Piece(0, WAV_HEADER) ELSE <<>>)
      /\ s12' = "IDLE" /\ s18' = <<>> /\ s19' = 0
      /\ UNCHANGED <<s2, s11, s14, s15, s16, s17, s20, s21>>
  BY DEF Data!Send, Data!Begin
<1>2. /\ s11 \in Seq(Msgs) /\ Data!StartInv /\ (~s21 => Data!SoundInv)
  BY MediaStateIs
<1>3. WAV_HEADER \in Nat /\ 0 <= WAV_HEADER /\ WAV_HEADER - 0 = WAV_HEADER
  BY MediaAssumption
<1>4. Data!Piece(0, WAV_HEADER) \in Seq(Nat) /\ Len(Data!Piece(0, WAV_HEADER)) = WAV_HEADER
  BY <1>3, PieceIs
<1>5. s10 \in [skip: Nat \cup {-1}, header: {0} \cup {y.front : y \in Offered},
               refused: BOOLEAN, sent: {<<>>}]
  BY DEF Data!DataInv, Data!MediaDataTypeOK
<1>6. Data!MediaDataTypeOK'
  <2>1. s6' \in Nat /\ s8' \in Seq(Nat)
    BY <1>1, <1>3, <1>4
  <2>2. /\ s10' \in [skip: Nat \cup {-1}, header: {0} \cup {y.front : y \in Offered},
                     refused: BOOLEAN, sent: {<<>>}]
    BY <1>1, <1>5
  <2>3. s18' \in Seq(Nat) /\ s3' \in Offered \cup {Data!None} /\ s4' \in Nat
        /\ s19' \in Nat /\ s13' \in Nat
    BY <1>1
  <2> QED BY <1>1, <2>1, <2>2, <2>3 DEF Data!DataInv, Data!MediaDataTypeOK
<1>7. s10'.refused = FALSE /\ s10'.header = s10.header
  BY <1>1, <1>5
<1>8. Data!Unstarted'
  BY <1>1, <1>2 DEF Data!StartInv, Data!Unstarted, Data!Starts
<1>9. Data!StartInv'
  <2>1. \A i \in 1..Len(s11') : s11'[i].cmd # "START"
    BY <1>8 DEF Data!Unstarted, Data!Starts
  <2> QED BY <1>1, <1>7, <1>8, <2>1 DEF Data!StartInv
<1>10. ASSUME ~s21 PROVE Data!SoundInv'
  <2>1. Data!SoundInv /\ s11 = <<>>
    BY <1>1, <1>2, <1>10 DEF Data!SoundInv
  <2>2. Len(<<>>) = 0 /\ (\A i \in 1..0 : FALSE)
    OBVIOUS
  <2>3. (\E f \in Nat : Data!Fits(f) /\ Data!KindOf(s3, s18, s4, s19, f))'
    <3>1. Data!KindOf(m, <<>>, 0, 0, 0) /\ Data!Fits(0)'
      BY SilenceIs DEF Data!Fits
    <3> QED BY <1>1, <3>1
  <2>4. ~Data!Live'
    BY <1>1, <2>1 DEF Data!Live
  <2>5. Data!Edge' = 0 /\ Len(s8') <= s6' /\ s8' = Data!Piece(Data!Edge', s6')
    <3>1. CASE m.source = "magic"
      <4>1. s6' = WAV_HEADER /\ s8' = Data!Piece(0, WAV_HEADER)
        BY <1>1, <3>1
      <4>2. Data!Edge' = 0
        BY <1>3, <1>4, <4>1 DEF Data!Edge
      <4> QED BY <1>3, <1>4, <4>1, <4>2
    <3>2. CASE m.source # "magic"
      <4>1. s6' = 0 /\ s8' = <<>>
        BY <1>1, <3>2
      <4>2. Data!Edge' = 0
        <5>1. Len(s8') = 0
          BY <4>1
        <5>2. s6' = 0
          BY <4>1
        <5>3. s6' - Len(s8') = 0
          BY ONLY <5>1, <5>2
        <5> QED BY <5>3 DEF Data!Edge
      <4>3. Data!Piece(0, 0) = <<>>
        BY NoPiece
      <4> QED BY <2>2, <4>1, <4>2, <4>3
    <3> QED BY <3>1, <3>2
  <2>6. ((s5 = "rest" \/ s3.source = "data") /\ s16.source \in {"url", "file"} => Data!KeptIs)'
    BY <1>1, <1>7, <2>1 DEF Data!SoundInv, Data!KeptIs
  <2>7. s3'.source # "magic" => s8' = <<>>
    BY <1>1
  <2>8. (Len(s18) = s4 + s13 /\ ~(s4 > 0 \/ s13 > 0) /\ s4 <= Data!Edge)'
    BY <1>1, <2>2, <2>5
  <2> QED BY <1>1, <2>1, <2>2, <2>3, <2>4, <2>5, <2>6, <2>7, <2>8 DEF Data!SoundInv
<1> QED BY <1>1, <1>6, <1>9, <1>10 DEF Data!DataInv

\* The medium that was stored goes on.
LEMMA StepGoOn == ASSUME Data!DataInv, Data!GoOn PROVE Data!DataInv'
<1>1. /\ s5 = "rest" /\ s12 = "IDLE" /\ s16.source \in {"url", "file"}
      /\ s3' = s16 /\ s4' = s17
      /\ s6' = (IF s16.source = "magic" THEN WAV_HEADER ELSE s17)
      /\ s5' = "read" /\ s7' = FALSE /\ s9' = FALSE /\ s13' = 0
      /\ s10' = [s10 EXCEPT !.refused = FALSE]
      /\ s8' = (IF s16.source = "magic" THEN Data!Piece(0, WAV_HEADER) ELSE <<>>)
      /\ s16' = Data!None /\ s19' = s20.again + 1 /\ s18' = s20.heard
      /\ UNCHANGED <<s1, s2, s11, s12, s14, s15, s17, s20, s21>>
  BY DEF Data!GoOn, Data!Begin
<1>2. /\ s11 \in Seq(Msgs) /\ Data!StartInv /\ (~s21 => Data!SoundInv) /\ s17 \in Nat
      /\ s16 \in Offered \cup {Data!None} /\ s20.heard \in Seq(Nat) /\ s20.again \in Nat
  BY MediaStateIs
<1>3. s6' = s17 /\ s8' = <<>> /\ s16.source # "magic" /\ s16.source # "data"
  BY <1>1
<1>4. s16 \in Offered /\ Data!None.source = "none"
  BY <1>1, <1>2 DEF Data!None
<1>5. s10 \in [skip: Nat \cup {-1}, header: {0} \cup {y.front : y \in Offered},
               refused: BOOLEAN, sent: {<<>>}]
  BY DEF Data!DataInv, Data!MediaDataTypeOK
<1>6. Data!MediaDataTypeOK'
  <2>1. s6' \in Nat /\ s8' \in Seq(Nat) /\ s19' \in Nat
    BY <1>1, <1>2, <1>3
  <2>2. /\ s10' \in [skip: Nat \cup {-1}, header: {0} \cup {y.front : y \in Offered},
                     refused: BOOLEAN, sent: {<<>>}]
    BY <1>1, <1>5
  <2> QED BY <1>1, <1>2, <2>1, <2>2 DEF Data!DataInv, Data!MediaDataTypeOK
<1>7. s10'.refused = FALSE /\ s10'.header = s10.header
  BY <1>1, <1>5
<1>8. Data!Unstarted'
  BY <1>1, <1>2 DEF Data!StartInv, Data!Unstarted, Data!Starts
<1>9. Data!StartInv'
  <2>1. \A i \in 1..Len(s11') : s11'[i].cmd # "START"
    BY <1>8 DEF Data!Unstarted, Data!Starts
  <2>2. s19' # 0
    BY <1>1, <1>2
  <2> QED BY <1>1, <1>3, <1>4, <1>7, <1>8, <2>1, <2>2 DEF Data!StartInv
<1>10. ASSUME ~s21 PROVE Data!SoundInv'
  <2>1. Data!SoundInv /\ s11 = <<>> /\ Data!KeptIs
    BY <1>1, <1>2, <1>10 DEF Data!SoundInv
  <2>2. Len(<<>>) = 0 /\ (\A i \in 1..0 : FALSE)
    OBVIOUS
  <2>3. (\E f \in Nat : Data!Fits(f) /\ Data!KindOf(s3, s18, s4, s19, f))'
    <3>1. Data!KindOf(s16, s20.heard, s17, s20.again + 1, 0) /\ Data!Fits(0)'
      BY <2>1 DEF Data!Fits, Data!KeptIs
    <3> QED BY <1>1, <3>1
  <2>4. ~Data!Live'
    BY <1>1, <2>1 DEF Data!Live
  <2>5. Data!Edge' = s17 /\ Len(s8') <= s6' /\ s8' = Data!Piece(Data!Edge', s6')
    <3>1. Data!Edge' = s17
      BY <1>2, <1>3, <2>2 DEF Data!Edge
    <3>2. Data!Piece(s17, s17) = <<>>
      BY <1>2, NoPiece
    <3> QED BY <1>2, <1>3, <2>2, <3>1, <3>2
  <2>6. s16'.source = "none"
    BY <1>1, <1>4
  <2>7. (Len(s18) = s4 + s13)'
    BY <1>1, <1>2, <2>1 DEF Data!KeptIs
  <2>8. (Data!Headed(s3) /\ s3.source # "magic" /\ s5 # "rest"
          /\ (s4 > 0 \/ s13 > 0 \/ Data!Live) => s10.header \in {0, s3.front})'
    <3>1. Data!Headed(s16) /\ s17 > 0 => s10.header \in {0, s16.front}
      BY <2>1 DEF Data!KeptIs
    <3>2. s13' = 0 /\ ~Data!Live'
      BY <1>1, <2>4
    <3> QED BY <1>1, <1>7, <3>1, <3>2
  <2> QED BY <1>1, <1>2, <1>3, <2>1, <2>2, <2>3, <2>4, <2>5, <2>6, <2>7, <2>8 DEF Data!SoundInv
<1> QED BY <1>1, <1>6, <1>9, <1>10 DEF Data!DataInv

\* The thread has waited for the player.
LEMMA StepSettle == ASSUME Data!DataInv, Data!Settle PROVE Data!DataInv'
<1>1. /\ s5 = "wait" /\ (s13 = 0 => s11 = <<>>) /\ Data!PutAway
      /\ s21' = (s21 \/ s11 # <<>>)
      /\ UNCHANGED <<s1, s2, s3, s4, s6, s7, s8, s9, s11, s12,
                     s13, s14, s18, s19>>
  BY DEF Data!Settle
<1>2. /\ s3 \in Offered \cup {Data!None} /\ s16 \in Offered \cup {Data!None}
      /\ s4 \in Nat /\ s19 \in Nat /\ s13 \in Nat /\ s15 \in Nat
      /\ s17 \in Nat /\ s18 \in Seq(Nat) /\ s11 \in Seq(Msgs)
      /\ s20.heard \in Seq(Nat) /\ s20.again \in Nat /\ s21 \in BOOLEAN
      /\ Data!StartInv /\ (~s21 => Data!SoundInv)
  BY MediaStateIs
<1>3. s15' \in Nat
  <2>1. IF s13 > 0 THEN s15 > 0 /\ s15' = s15 - 1 ELSE s15' = s15
    BY DEF Data!Settle
  <2> QED BY <1>2, <2>1
<1>4. s5' = "rest"
      /\ s20' = IF s3.source = "data" THEN s20 ELSE [heard |-> s18, again |-> s19]
  BY <1>1 DEF Data!PutAway
<1>5. \/ s3.source = "data" /\ UNCHANGED <<s16, s17, s10>>
      \/ s3.source # "data" /\ s16' = s3 /\ s17' = s4 + s13 /\ UNCHANGED s10
      \/ s16' = Data!None /\ s17' = 0 /\ s10' = [s10 EXCEPT !.header = 0]
  BY <1>1 DEF Data!PutAway, Data!Reached
<1>6. Data!MediaDataTypeOK'
  <2>1. s10 \in [skip: Nat \cup {-1}, header: {0} \cup {y.front : y \in Offered},
                 refused: BOOLEAN, sent: {<<>>}]
    BY DEF Data!DataInv, Data!MediaDataTypeOK
  <2>2. /\ s10' \in [skip: Nat \cup {-1}, header: {0} \cup {y.front : y \in Offered},
                     refused: BOOLEAN, sent: {<<>>}]
        /\ s16' \in Offered \cup {Data!None} /\ s17' \in Nat
    <3>1. CASE UNCHANGED <<s16, s17, s10>>
      BY <1>2, <2>1, <3>1
    <3>2. CASE s16' = s3 /\ s17' = s4 + s13 /\ UNCHANGED s10
      BY <1>2, <2>1, <3>2
    <3>3. CASE s16' = Data!None /\ s17' = 0 /\ s10' = [s10 EXCEPT !.header = 0]
      BY <2>1, <3>3
    <3> QED BY <1>5, <3>1, <3>2, <3>3
  <2>3. s20' \in [heard: Seq(Nat), again: Nat]
    BY <1>2, <1>4 DEF Data!DataInv, Data!MediaDataTypeOK
  <2> QED BY <1>1, <1>2, <1>3, <1>4, <2>2, <2>3 DEF Data!DataInv, Data!MediaDataTypeOK
<1>7. Data!StartInv'
  <2>1. ~Data!Starts(s11)
    <3>1. s11 = <<>> => Len(s11) = 0
      OBVIOUS
    <3> QED BY <1>1, <1>2, <3>1 DEF Data!StartInv, Data!Starts
  <2>2. \A i \in 1..Len(s11) : s11[i].cmd # "START"
    BY <2>1 DEF Data!Starts
  <2> QED BY <1>1, <1>2, <1>4, <2>1, <2>2 DEF Data!StartInv, Data!MayStart, Data!Starts
<1>8. ASSUME ~s21' PROVE Data!SoundInv'
  <2>1. Data!SoundInv /\ s11 = <<>> /\ ~s21
    BY <1>1, <1>2, <1>8
  <2>2. Len(<<>>) = 0 /\ (\A i \in 1..0 : FALSE)
    OBVIOUS
  <2>3. (~Data!ShortVoice => \E f \in Nat : Data!Fits(f) /\ Data!KindOf(s3, s18, s4, s19, f))'
    BY <1>1, <2>1 DEF Data!SoundInv, Data!ShortVoice, Data!Fits
  <2>4. (Data!Live /\ ~Data!ShortVoice =>
          \E h \in Seq(Nat), f \in Nat :
              Data!FlowIs(h, f) /\ \E l \in [0..Len(s11) -> 0..Len(h)] : Data!Laid(s11, s18, h, l))'
    BY <1>1, <1>4, <2>1 DEF Data!SoundInv, Data!ShortVoice, Data!FlowIs, Data!Fits, Data!Live
  <2>5. ((s5 = "rest" \/ s3.source = "data") /\ s16.source \in {"url", "file"} => Data!KeptIs)'
    <3> SUFFICES ASSUME s16'.source \in {"url", "file"} PROVE Data!KeptIs'
      OBVIOUS
    <3>1. CASE s3.source = "data" /\ UNCHANGED <<s16, s17, s10>>
      <4>1. s20' = s20 /\ Data!KeptIs
        BY <1>4, <2>1, <3>1 DEF Data!SoundInv
      <4> QED BY <3>1, <4>1 DEF Data!KeptIs
    <3>2. CASE s3.source # "data" /\ s16' = s3 /\ s17' = s4 + s13
               /\ UNCHANGED s10
      <4>1. s3.source # "magic" /\ s20'.heard = s18 /\ s20'.again = s19
        BY <1>4, <3>2
      <4>2. PICK f \in Nat : Data!Fits(f) /\ Data!KindOf(s3, s18, s4, s19, f)
        BY <2>1, <4>1 DEF Data!SoundInv, Data!ShortVoice
      <4>3. s19 = 0 => s4 = 0
        BY <1>2 DEF Data!StartInv
      <4>4. f # 0 => Data!Headed(s3) /\ s4 > 0
        BY <4>2 DEF Data!Fits
      <4>5. Data!KindOf(s3, s18, Len(s18), s19 + 1, 0)
        BY <1>2, <4>2, <4>3, <4>4, KindIsKept
      <4>6. Len(s18) = s4 + s13
        BY <2>1 DEF Data!SoundInv
      <4>7. Data!Headed(s3) /\ s4 + s13 > 0 => s10.header \in {0, s3.front}
        <5>1. s4 + s13 > 0 => s4 > 0 \/ s13 > 0
          BY <1>2
        <5> QED BY <1>1, <2>1, <4>1, <5>1 DEF Data!SoundInv
      <4>8. Data!KindOf(s16', s20'.heard, s17', s20'.again + 1, 0)
        BY <3>2, <4>1, <4>5, <4>6
      <4>9. Data!Headed(s16)' /\ s17' > 0 => s10'.header \in {0, s16'.front}
        BY <3>2, <4>7
      <4> QED BY <3>2, <4>1, <4>6, <4>8, <4>9 DEF Data!KeptIs
    <3>3. s16' # Data!None
      BY DEF Data!None
    <3> QED BY <1>5, <3>1, <3>2, <3>3
  <2>6. (/\ Len(s18) = s4 + s13
         /\ s3.source # "magic" => s8 = <<>>)'
    BY <1>1, <2>1 DEF Data!SoundInv
  <2> QED BY <1>1, <1>4, <2>1, <2>2, <2>3, <2>4, <2>5, <2>6 DEF Data!SoundInv
<1> QED BY <1>6, <1>7, <1>8 DEF Data!DataInv

\* What the player does with the first message.
LEMMA PlayIs ==
  ASSUME Data!DataInv, Data!PlayMessage
  PROVE  \E x \in Msgs : \E played \in BOOLEAN :
           /\ x = s11[1] /\ s11 # <<>> /\ (played <=> s12 = "PLAYING" \/ x.cmd = "START")
           /\ s18' = (IF played THEN s18 \o x.bytes ELSE s18)
           /\ x.cmd = "START" => s13' = Len(x.bytes) /\ s12' = "PLAYING"
           /\ x.cmd # "START" => s13' = (IF played THEN s13 + Len(x.bytes) ELSE s13)
           /\ x.cmd = "STOP" => s12' = "IDLE" /\ s15' = s15 + 1
           /\ x.cmd = "CONTINUE" => s12' = s12
           /\ x.cmd # "STOP" => s15' = s15
           /\ s14' \in BOOLEAN
           /\ s11' = Tail(s11) /\ s11' \in Seq(Msgs) /\ Len(s11) \in Nat /\ Len(s11) >= 1
           /\ Len(s11') = Len(s11) - 1
           /\ \A i \in 1 .. Len(s11) - 1 : s11'[i] = s11[i + 1]
           /\ \A i \in 1 .. Len(s11) : s11[i] \in Msgs
<1>1. s11 # <<>> /\ s11' = Tail(s11)
  BY DEF Data!PlayMessage
<1>2. s11 \in Seq(Msgs) /\ s14 \in BOOLEAN
  BY DEF Data!DataInv, Data!MediaDataTypeOK, Msgs
<1>3. /\ s11' \in Seq(Msgs) /\ Len(s11) \in Nat /\ Len(s11) >= 1
      /\ Len(s11') = Len(s11) - 1 /\ \A i \in 1 .. Len(s11) - 1 : s11'[i] = s11[i + 1]
  BY <1>1, <1>2, EmptySeq, HeadTailProperties
<1>4. \A i \in 1 .. Len(s11) : s11[i] \in Msgs
  BY <1>2, ElementOfSeq, LenProperties
<1> DEFINE x == Head(s11)
           played == s12 = "PLAYING" \/ x.cmd = "START"
<1>5. x \in Msgs /\ x = s11[1]
  BY <1>1, <1>2, <1>3, <1>4
<1>6. x.cmd \in {"START", "CONTINUE", "STOP"}
  BY <1>5 DEF Msgs
<1>7. /\ s18' = IF played THEN s18 \o x.bytes ELSE s18
      /\ s13' = CASE x.cmd = "START" -> Len(x.bytes)
                      [] x.cmd # "START" /\ played -> s13 + Len(x.bytes)
                      [] OTHER -> s13
      /\ s12' = CASE x.cmd = "START" -> "PLAYING" [] x.cmd = "STOP" -> "IDLE"
                     [] OTHER -> s12
      /\ s14' = CASE x.cmd = "START" -> FALSE
                       [] x.cmd = "STOP" /\ played -> TRUE
                       [] OTHER -> s14
      /\ s15' = IF x.cmd = "STOP" THEN s15 + 1 ELSE s15
  BY DEF Data!PlayMessage, Data!EndsAfter
<1> HIDE DEF x
<1>8. s14' \in BOOLEAN
  BY <1>2, <1>6, <1>7
<1>9. /\ x.cmd = "START" => s13' = Len(x.bytes) /\ s12' = "PLAYING"
      /\ x.cmd # "START" => s13' = (IF played THEN s13 + Len(x.bytes) ELSE s13)
      /\ x.cmd = "STOP" => s12' = "IDLE" /\ s15' = s15 + 1
      /\ x.cmd = "CONTINUE" => s12' = s12
      /\ x.cmd # "STOP" => s15' = s15
  BY <1>6, <1>7
<1>10. played \in BOOLEAN /\ (played <=> s12 = "PLAYING" \/ x.cmd = "START")
       /\ s18' = (IF played THEN s18 \o x.bytes ELSE s18)
  BY <1>7
<1> HIDE DEF played
<1> QED BY <1>1, <1>3, <1>4, <1>5, <1>8, <1>9, <1>10

\* The player handles a message.
LEMMA StepPlayMessage == ASSUME Data!DataInv, Data!PlayMessage PROVE Data!DataInv'
<1>1. PICK x \in Msgs, played \in BOOLEAN :
           /\ x = s11[1] /\ s11 # <<>> /\ (played <=> s12 = "PLAYING" \/ x.cmd = "START")
           /\ s18' = (IF played THEN s18 \o x.bytes ELSE s18)
           /\ x.cmd = "START" => s13' = Len(x.bytes) /\ s12' = "PLAYING"
           /\ x.cmd # "START" => s13' = (IF played THEN s13 + Len(x.bytes) ELSE s13)
           /\ x.cmd = "STOP" => s12' = "IDLE" /\ s15' = s15 + 1
           /\ x.cmd = "CONTINUE" => s12' = s12
           /\ x.cmd # "STOP" => s15' = s15
           /\ s14' \in BOOLEAN
           /\ s11' = Tail(s11) /\ s11' \in Seq(Msgs) /\ Len(s11) \in Nat /\ Len(s11) >= 1
           /\ Len(s11') = Len(s11) - 1
           /\ \A i \in 1 .. Len(s11) - 1 : s11'[i] = s11[i + 1]
           /\ \A i \in 1 .. Len(s11) : s11[i] \in Msgs
  BY PlayIs
<1>2. UNCHANGED <<s1, s2, s3, s4, s5, s6, s7, s8, s9, s10,
                  s16, s17, s19, s20, s21>>
  BY DEF Data!PlayMessage, Data!source
<1>3. /\ s3 \in Offered \cup {Data!None} /\ s4 \in Nat /\ s13 \in Nat /\ s15 \in Nat
      /\ s18 \in Seq(Nat) /\ s11 \in Seq(Msgs) /\ Data!StartInv /\ (~s21 => Data!SoundInv)
  BY MediaStateIs
<1>4. x.cmd \in {"START", "CONTINUE", "STOP"} /\ x.bytes \in Seq(Nat) /\ Len(x.bytes) \in Nat
  BY DEF Msgs
<1>5. s18 \o x.bytes \in Seq(Nat) /\ Len(s18 \o x.bytes) = Len(s18) + Len(x.bytes)
      /\ Len(s18) \in Nat
  BY <1>3, <1>4, ConcatProperties
<1>6. 1 \in 1 .. Len(s11) /\ \A i \in 1 .. Len(s11') : i + 1 \in 1 .. Len(s11) /\ i + 1 # 1
                                                     /\ s11'[i] = s11[i + 1]
  BY <1>1
<1>7. \A i \in 1 .. Len(s11) : s11[i].cmd = "START" =>
          /\ s13 = 0 /\ s12 = "IDLE"
          /\ \A j \in 1 .. Len(s11) : s11[j].cmd = "START" => j = i
  BY <1>3 DEF Data!StartInv
<1>8. Data!MediaDataTypeOK'
  <2>1. s18' \in Seq(Nat)
    BY <1>1, <1>3, <1>5
  <2>2. s13' \in Nat /\ s15' \in Nat
    BY <1>1, <1>3, <1>4
  <2>3. s12' \in {"IDLE", "PLAYING"}
    BY <1>1, <1>4 DEF Data!DataInv, Data!MediaDataTypeOK
  <2>4. s14' \in BOOLEAN
    BY <1>1
  <2>5. s11' \in Seq([cmd: {"START", "CONTINUE", "STOP"}, bytes: Seq(Nat)])
    BY <1>1 DEF Msgs
  <2> QED BY <1>2, <2>1, <2>2, <2>3, <2>4, <2>5 DEF Data!DataInv, Data!MediaDataTypeOK
<1>9. Data!Unstarted => Data!Unstarted' /\ s15' >= s15
  <2> SUFFICES ASSUME Data!Unstarted PROVE Data!Unstarted' /\ s15' >= s15
    OBVIOUS
  <2>1. s13 = 0 /\ s12 = "IDLE" /\ \A i \in 1 .. Len(s11) : s11[i].cmd # "START"
    BY DEF Data!Unstarted, Data!Starts
  <2>2. x.cmd # "START" /\ ~played
    BY <1>1, <1>6, <2>1
  <2>3. s13' = 0 /\ s12' = "IDLE" /\ s15' >= s15
    BY <1>1, <1>3, <1>4, <2>1, <2>2
  <2>4. \A i \in 1 .. Len(s11') : s11'[i].cmd # "START"
    BY <1>6, <2>1
  <2> QED BY <2>3, <2>4 DEF Data!Unstarted, Data!Starts
<1>10. Data!StartInv'
  <2>1. Data!MayStart' => Data!Unstarted'
    BY <1>2, <1>3, <1>9 DEF Data!StartInv, Data!MayStart
  <2>2. s5' = "rest" => ~Data!Starts(s11')
    BY <1>2, <1>3, <1>6 DEF Data!StartInv, Data!Starts
  <2>3. \A i \in 1..Len(s11') : s11'[i].cmd = "START" =>
          /\ s13' = 0 /\ s12' = "IDLE"
          /\ \A j \in 1..Len(s11') : s11'[j].cmd = "START" => j = i
    <3> SUFFICES ASSUME NEW i \in 1..Len(s11'), s11'[i].cmd = "START"
                 PROVE  /\ s13' = 0 /\ s12' = "IDLE"
                        /\ \A j \in 1..Len(s11') : s11'[j].cmd = "START" => j = i
      OBVIOUS
    <3>1. i + 1 \in 1 .. Len(s11) /\ i + 1 # 1 /\ s11[i + 1].cmd = "START"
      BY <1>6
    <3>2. s13 = 0 /\ s12 = "IDLE"
          /\ \A j \in 1 .. Len(s11) : s11[j].cmd = "START" => j = i + 1
      BY <1>7, <3>1
    <3>3. x.cmd # "START" /\ ~played
      BY <1>1, <1>6, <3>1, <3>2
    <3>4. s13' = 0 /\ s12' = "IDLE"
      BY <1>1, <1>4, <3>2, <3>3
    <3>5. \A j \in 1..Len(s11') : s11'[j].cmd = "START" => j + 1 = i + 1
      BY <1>6, <3>2
    <3>6. Len(s11') \in Nat
      BY <1>1
    <3> QED BY <3>4, <3>5, <3>6
  <2>4. (s5 = "wait" /\ ~Data!Unstarted => s15 > 0 \/ Data!Stops(s11) \/ Data!EndsBadly)'
    <3> SUFFICES ASSUME s5 = "wait", ~Data!Unstarted', ~Data!EndsBadly' PROVE s15' > 0 \/ Data!Stops(s11')
      BY <1>2
    <3>1. ~Data!Unstarted /\ ~Data!EndsBadly
      BY <1>2, <1>9 DEF Data!EndsBadly, Data!TagEndsLate, Data!ShortVoice
    <3>2. s15 > 0 \/ Data!Stops(s11)
      BY <1>3, <3>1 DEF Data!StartInv
    <3>3. CASE s15 > 0
      BY <1>1, <1>3, <1>4, <3>3
    <3>4. CASE x.cmd = "STOP"
      BY <1>1, <1>3, <3>4
    <3>5. CASE Data!Stops(s11) /\ x.cmd # "STOP"
      <4>1. PICK i \in 1 .. Len(s11) : s11[i].cmd = "STOP"
        BY <3>5 DEF Data!Stops
      <4>2. i # 1
        BY <1>1, <3>5, <4>1
      <4>3. i - 1 \in 1 .. Len(s11') /\ (i - 1) + 1 = i
        BY <1>1, <4>2
      <4>4. s11'[i - 1].cmd = "STOP"
        BY <1>6, <4>1, <4>3
      <4> QED BY <4>3, <4>4 DEF Data!Stops
    <3> QED BY <3>2, <3>3, <3>4, <3>5
  <2>5. /\ (s5 = "read" /\ s10.refused => s9 /\ s3.source \notin {"magic", "data"})'
        /\ (s5 = "read" /\ ~s7 => ~s10.refused)'
        /\ (s5 = "read" /\ s7 /\ ~s10.refused /\ s10.skip >= 0 =>
               Data!Tagged(s3) /\ s4 = 0 /\ s6 + s10.skip = s3.front)'
        /\ (s5 = "read" /\ ~s7 /\ s3.source # "magic" => s6 = s4)'
        /\ (s3.source \in {"data", "magic"} => s4 = 0)'
        /\ (s5 # "rest" => s3 \in Offered)'
        /\ (s19 = 0 => s4 = 0)'
    BY <1>2, <1>3 DEF Data!StartInv
  <2> QED BY <2>1, <2>2, <2>3, <2>4, <2>5 DEF Data!StartInv
<1>11. ASSUME ~s21 PROVE Data!SoundInv'
  <2>1. Data!SoundInv
    BY <1>3, <1>11
  <2>2. ~(s5 = "rest" \/ Data!MayStart)
    BY <1>1, <2>1 DEF Data!SoundInv
  <2>3. ~(s5 = "rest" \/ Data!MayStart)'
    BY <1>2, <2>2 DEF Data!MayStart
  <2>4. \A i \in 1..Len(s11') : s11'[i].cmd # "START"
    <3>1. \A i \in 1..Len(s11) : s11[i].cmd = "START" => i = 1
      BY <2>1 DEF Data!SoundInv
    <3> QED BY <1>6, <3>1
  <2>5. Len(s18') = s4 + s13'
    <3>1. Len(s18) = s4 + s13
      BY <2>1 DEF Data!SoundInv
    <3>2. x.cmd = "START" => s13 = 0 /\ played
      BY <1>1, <1>6, <1>7
    <3>3. CASE ~played
      BY <1>1, <3>1, <3>2, <3>3
    <3>4. CASE played /\ x.cmd = "START"
      <4>1. s18' = s18 \o x.bytes /\ s13' = Len(x.bytes) /\ s13 = 0
        BY <1>1, <3>2, <3>4
      <4>2. Len(s18') = Len(s18) + Len(x.bytes)
        BY <1>5, <4>1
      <4>3. Len(s18) = s4
        BY <1>3, <3>1, <4>1
      <4> QED BY <4>1, <4>2, <4>3
    <3>5. CASE played /\ x.cmd # "START"
      <4>1. s18' = s18 \o x.bytes /\ s13' = s13 + Len(x.bytes)
        BY <1>1, <3>5
      <4>2. Len(s18') = Len(s18) + Len(x.bytes)
        BY <1>5, <4>1
      <4>3. Len(x.bytes) \in Nat
        BY <1>4
      <4>4. s4 \in Nat /\ s13 \in Nat /\ s13' = s13 + Len(x.bytes)
        BY <1>3, <4>1
      <4>5. Len(s18) = s4 + s13
        BY <3>1
      <4>6. Len(s18') = (s4 + s13) + Len(x.bytes)
        BY <4>2, <4>5
      <4>7. (s4 + s13) + Len(x.bytes) = s4 + (s13 + Len(x.bytes))
        <5>1. \A n \in Nat : (s4 + s13) + n = s4 + (s13 + n)
          BY <1>3
        <5> QED BY <4>3, <5>1
      <4> QED BY <4>4, <4>6, <4>7
    <3> QED BY <3>3, <3>4, <3>5
  <2>6. played => Data!Live
    BY <1>1 DEF Data!Live
  <2>7. Data!Live' => played
    <3>1. s11' # <<>> => 1 \in 1 .. Len(s11')
      BY <1>1, EmptySeq
    <3>2. Data!Live' => s12' = "PLAYING"
      BY <2>4, <3>1 DEF Data!Live
    <3> QED BY <1>1, <1>4, <3>2
  <2>8. ASSUME played, ~Data!ShortVoice
        PROVE  \E h \in Seq(Nat), f \in Nat :
                 /\ Data!FlowIs(h, f) /\ Data!KindOf(s3, s18', s4, s19, f)
                 /\ \E l \in [0..Len(s11') -> 0..Len(h)] : Data!Laid(s11', s18', h, l)
    <3>1. PICK h \in Seq(Nat), f \in Nat :
             Data!FlowIs(h, f) /\ \E l \in [0..Len(s11) -> 0..Len(h)] : Data!Laid(s11, s18, h, l)
      BY <2>1, <2>6, <2>8 DEF Data!SoundInv
    <3>2. s18' = s18 \o x.bytes
      BY <1>1, <2>8
    <3>3. PICK l : Data!Laid(s11, s18, h, l)
      BY <3>1
    <3>4. /\ Len(s18') <= Len(h) /\ \A i \in 1 .. Len(s18') : h[i] = s18'[i]
          /\ \E l1 \in [0..Len(s11') -> 0..Len(h)] : Data!Laid(s11', s18', h, l1)
      <4>1. s18' = s18 \o s11[1].bytes /\ s11' = Tail(s11) /\ s11 # <<>>
        BY <1>1, <3>2
      <4>2. s18 \in Seq(Nat) /\ s11 \in Seq(Msgs)
        BY <1>3
      <4>3. /\ Len(s18 \o s11[1].bytes) <= Len(h)
            /\ \A i \in 1 .. Len(s18 \o s11[1].bytes) : h[i] = (s18 \o s11[1].bytes)[i]
            /\ \E l1 \in [0 .. Len(Tail(s11)) -> 0 .. Len(h)] :
                  Data!Laid(Tail(s11), s18 \o s11[1].bytes, h, l1)
        BY ONLY h \in Seq(Nat), <3>3, <4>1, <4>2, LaidPlays
      <4> QED BY ONLY <4>1, <4>3
    <3>5. Data!KindOf(s3, h, s4, s19, f)
      BY <3>1 DEF Data!FlowIs
    <3>6. s18' \in Seq(Nat)
      BY <1>5, <3>2
    <3>7. Data!KindOf(s3, s18', s4, s19, f)
      BY <3>4, <3>5, <3>6, KindBefore
    <3> QED BY <3>1, <3>4, <3>7
  <2>9. (~Data!ShortVoice => \E f \in Nat : Data!Fits(f) /\ Data!KindOf(s3, s18, s4, s19, f))'
    <3> SUFFICES ASSUME ~Data!ShortVoice'
                 PROVE  \E f \in Nat : Data!Fits(f)' /\ Data!KindOf(s3, s18', s4, s19, f)
      BY <1>2
    <3>1. ~Data!ShortVoice
      BY <1>2 DEF Data!ShortVoice
    <3>2. CASE played
      <4>1. PICK f \in Nat : Data!Fits(f) /\ Data!KindOf(s3, s18', s4, s19, f)
        BY <2>8, <3>1, <3>2 DEF Data!FlowIs
      <4>2. Data!Fits(f)'
        BY <1>2, <4>1 DEF Data!Fits
      <4> QED BY <4>1, <4>2
    <3>3. CASE ~played
      <4>1. PICK f \in Nat : Data!Fits(f) /\ Data!KindOf(s3, s18, s4, s19, f)
        BY <2>1, <3>1 DEF Data!SoundInv
      <4>2. Data!Fits(f)' /\ s18' = s18
        BY <1>1, <1>2, <3>3, <4>1 DEF Data!Fits
      <4> QED BY <4>1, <4>2
    <3> QED BY <3>2, <3>3
  <2>10. (Data!Live /\ ~Data!ShortVoice =>
          \E h \in Seq(Nat), f \in Nat :
              Data!FlowIs(h, f) /\ \E l \in [0..Len(s11) -> 0..Len(h)] : Data!Laid(s11, s18, h, l))'
    <3> SUFFICES ASSUME Data!Live', ~Data!ShortVoice'
                 PROVE  \E h \in Seq(Nat), f \in Nat :
                           /\ Data!FlowIs(h, f)'
                           /\ \E l \in [0..Len(s11') -> 0..Len(h)] : Data!Laid(s11', s18', h, l)
      OBVIOUS
    <3>1. ~Data!ShortVoice /\ played
      BY <1>2, <2>7 DEF Data!ShortVoice
    <3>2. PICK h \in Seq(Nat), f \in Nat :
                 /\ Data!FlowIs(h, f)
                 /\ \E l \in [0..Len(s11') -> 0..Len(h)] : Data!Laid(s11', s18', h, l)
      BY <2>8, <3>1
    <3>3. Data!FlowIs(h, f)'
      BY <1>2, <3>2 DEF Data!FlowIs, Data!Fits, Data!Edge, Data!AgainOf
    <3> QED BY <3>2, <3>3
  <2>11. (Data!Headed(s3) /\ s3.source # "magic" /\ s5 # "rest"
          /\ (s4 > 0 \/ s13 > 0 \/ Data!Live) => s10.header \in {0, s3.front})'
    <3>1. s13' > 0 \/ Data!Live' => s13 > 0 \/ Data!Live
      BY <1>1, <1>4, <2>6, <2>7
    <3> QED BY <1>2, <2>1, <3>1 DEF Data!SoundInv
  <2>12. (/\ s5 = "read" => s4 <= Data!Edge /\ (~s7 => Data!Edge = s4)
          /\ s3.source # "magic" => s8 = <<>>
          /\ s5 = "read" => Len(s8) <= s6 /\ s8 = Data!Piece(Data!Edge, s6))'
    BY <1>2, <2>1 DEF Data!SoundInv, Data!Edge
  <2>13. ((s5 = "rest" \/ s3.source = "data") /\ s16.source \in {"url", "file"} => Data!KeptIs)'
    BY <1>2, <2>1 DEF Data!SoundInv, Data!KeptIs
  <2> QED BY <1>2, <2>3, <2>4, <2>5, <2>9, <2>10, <2>11, <2>12, <2>13 DEF Data!SoundInv
<1> QED BY <1>2, <1>8, <1>10, <1>11 DEF Data!DataInv

\* Two parts of a sequence, behind one another.
LEMMA SplitIs ==
  ASSUME NEW x \in Seq(Nat), NEW n \in Nat, n <= Len(x)
  PROVE  /\ SubSeq(x, 1, n) \in Seq(Nat) /\ SubSeq(x, n + 1, Len(x)) \in Seq(Nat)
         /\ SubSeq(x, 1, n) \o SubSeq(x, n + 1, Len(x)) = x
<1> DEFINE y == SubSeq(x, 1, n)
           z == SubSeq(x, n + 1, Len(x))
           v == y \o z
           l == Len(x)
<1>1. y \in Seq(Nat) /\ Len(y) = n /\ \A i \in 1 .. n : y[i] = x[i]
  BY PushFront
<1>2. z \in Seq(Nat) /\ Len(z) = l - n /\ \A i \in 1 .. l - n : z[i] = x[i + n]
  BY PushBehind
<1>3. l \in Nat /\ n <= l
  BY LenProperties
<1> HIDE DEF y, z, l
<1>4. /\ v \in Seq(Nat) /\ Len(v) = Len(y) + Len(z)
      /\ \A i \in 1 .. Len(y) : v[i] = y[i]
      /\ \A i \in 1 .. Len(z) : v[Len(y) + i] = z[i]
  <2>1. y \in Seq(Nat) /\ z \in Seq(Nat)
    BY <1>1, <1>2
  <2> QED BY ONLY <2>1, JoinIs
<1> HIDE DEF v
<1>5. Len(v) = l
  BY <1>1, <1>2, <1>3, <1>4
<1>6. \A i \in 1 .. l : v[i] = x[i]
  <2> SUFFICES ASSUME NEW i \in 1 .. l PROVE v[i] = x[i]
    OBVIOUS
  <2>1. CASE i <= n
    <3>1. i \in 1 .. n
      BY <1>3, <2>1
    <3> QED BY <1>1, <1>4, <3>1
  <2>2. CASE i > n
    <3>1. i - n \in 1 .. l - n /\ n + (i - n) = i /\ (i - n) + n = i
      BY <1>3, <2>2
    <3>2. v[n + (i - n)] = z[i - n] /\ z[i - n] = x[(i - n) + n]
      BY <1>1, <1>2, <1>4, <3>1
    <3> QED BY <3>1, <3>2
  <2> QED BY <1>3, <2>1, <2>2
<1>7. v = x
  <2>1. Len(v) = Len(x) /\ \A i \in 1 .. Len(v) : v[i] = x[i]
    BY <1>5, <1>6 DEF l
  <2> QED BY <1>4, <2>1, SameBytes
<1> QED BY <1>1, <1>2, <1>7 DEF y, z, v, l

\* What a full frame of a voice gives.
LEMMA VoiceFrame ==
  ASSUME Data!DataInv, s5 = "read", s3.source = "magic", NEW w \in Seq(Nat), Len(w) = FRAME_SIZE,
         ~s21 => w = Data!Piece(Data!Edge, Data!Edge + FRAME_SIZE), NEW o, o = Data!Out(s10, Data!NextPos, w)
  PROVE  /\ o \in Outs /\ s11 \o o.sent \in Seq(Msgs) /\ StartedBy(o, s11 \o o.sent, TRUE)
         /\ ~o.refused
         /\ ~s21 => SoundedBy(o, s11 \o o.sent, TRUE, Data!Edge + FRAME_SIZE)
<1>1. /\ s3 \in Offered /\ s4 = 0 /\ s7 \in BOOLEAN
      /\ s10 \in Outs /\ StartedBy(s10, s11 \o s10.sent, s7) /\ ~s10.refused
  BY ReadIs
<1>2. FRAME_SIZE \in Nat /\ FRAME_SIZE >= WAV_HEADER /\ 0 <= FRAME_SIZE /\ WAV_HEADER \in Nat
  BY MediaAssumption
<1>3. CASE s7
  <2>1. Data!NextPos = "MID" /\ s7 = TRUE /\ "MID" \in {"MID", "LAST"}
    BY <1>1, <1>3 DEF Data!NextPos
  <2>2. o = Data!Out(s10, "MID", w)
    BY <2>1
  <2>3. CASE s21
    <3>0. 0 \in Nat /\ 0 <= 0 /\ TRUE \in BOOLEAN
      OBVIOUS
    <3>3. StartedBy(s10, s11 \o s10.sent, TRUE) /\ ~s10.refused
      BY <1>1, <2>1
    <3>1. LaterBytes(s10, s11 \o s10.sent, TRUE, w, 0, 0)
      BY <2>3, <3>0, <3>3 DEF LaterBytes
    <3>2. o \in Outs /\ s11 \o o.sent \in Seq(Msgs) /\ LaterGave(s10, o, s11 \o o.sent, TRUE, 0)
      BY <1>1, <2>1, <2>2, <3>1, GiveLater
    <3> QED BY <1>1, <2>3, <3>2 DEF LaterGave
  <2>4. CASE ~s21
    <3> DEFINE e == Data!Edge
               b == Data!Edge + FRAME_SIZE
    <3>1. e \in Nat /\ SoundedBy(s10, s11 \o s10.sent, s7, e) /\ w = Data!Piece(e, b)
      BY <2>4, ReadSounds
    <3>2. b \in Nat /\ e <= b
      BY <1>2, <3>1
    <3> HIDE DEF e, b
    <3>3. LaterBytes(s10, s11 \o s10.sent, TRUE, w, e, b)
      BY <1>1, <2>1, <2>4, <3>1, <3>2 DEF LaterBytes
    <3>4. o \in Outs /\ s11 \o o.sent \in Seq(Msgs) /\ LaterGave(s10, o, s11 \o o.sent, TRUE, b)
      BY <1>1, <2>1, <2>2, <3>3, GiveLater
    <3> QED BY <1>1, <2>4, <3>4 DEF LaterGave, b
  <2> QED BY <2>3, <2>4
<1>4. CASE ~s7
  <2>1. Data!NextPos = "FIRST" /\ s4 <= FRAME_SIZE
    BY <1>1, <1>2, <1>4 DEF Data!NextPos
  <2>2. o = Data!Out(s10, "FIRST", w)
    BY <2>1
  <2>3. ~s21 => Data!Edge = 0 /\ Data!Edge + FRAME_SIZE = FRAME_SIZE
    <3>1. ~s21 => Data!Edge = s4
      BY <1>4, ReadSounds
    <3> QED BY <1>1, <1>2, <3>1
  <2>4. ~s21 => w = Data!Piece(s4, FRAME_SIZE)
    BY <1>1, <2>3
  <2>5. /\ o \in Outs /\ s11 \o o.sent \in Seq(Msgs) /\ StartedBy(o, s11 \o o.sent, TRUE)
        /\ ~s21 => SoundedBy(o, s11 \o o.sent, TRUE, FRAME_SIZE)
        /\ o.refused => ~Data!SupportsFormat(w, Data!MediaType(s3))
    BY <1>2, <1>4, <2>1, <2>2, <2>4, GiveFirst
  <2>6. Data!SupportsFormat(w, Data!MediaType(s3))
    BY <1>1, <1>2, MediumIs DEF Data!SupportsFormat, Data!SupportsWav, Data!Headed
  <2> QED BY <2>3, <2>5, <2>6
<1> QED BY <1>1, <1>3, <1>4

\* What is given of a voice, and what is left of it up to c.
VoiceGave(o, q, bg, left, e, c) ==
  /\ o \in Outs /\ q \in Seq(Msgs) /\ StartedBy(o, q, bg) /\ ~o.refused /\ left \in Seq(Nat)
  /\ ~s21 =>
        /\ SoundedBy(o, q, bg, e) /\ e \in Nat /\ e <= c /\ left = Data!Piece(e, c)
        /\ ~bg => q = <<>> /\ e = s4

\* A decoded piece of a voice fills a frame, or is added to what is carried.
LEMMA VoicePiece ==
  ASSUME Data!DataInv, s5 = "read", s3.source = "magic", NEW c, c = s6 + VOICE_FRAME,
         NEW had, had = s8 \o Data!Piece(s6, c)
  PROVE  /\ Len(had) >= FRAME_SIZE =>
              VoiceGave(Data!Out(s10, Data!NextPos, SubSeq(had, 1, FRAME_SIZE)),
                        s11 \o Data!Out(s10, Data!NextPos, SubSeq(had, 1, FRAME_SIZE)).sent, TRUE,
                        SubSeq(had, FRAME_SIZE + 1, Len(had)), Data!Edge + FRAME_SIZE, c)
         /\ Len(had) < FRAME_SIZE => VoiceGave(s10, s11 \o s10.sent, s7, had, Data!Edge, c)
<1>1. /\ s3 \in Offered /\ s4 = 0 /\ s7 \in BOOLEAN /\ s6 \in Nat /\ s8 \in Seq(Nat)
      /\ s10 \in Outs /\ s11 \o s10.sent \in Seq(Msgs) /\ StartedBy(s10, s11 \o s10.sent, s7)
      /\ ~s10.refused /\ s11 \o s10.sent = s11
  BY ReadIs
<1>2. FRAME_SIZE \in Nat /\ VOICE_FRAME \in Nat
  BY MediaAssumption
<1>3. c \in Nat /\ s6 <= c
  BY <1>1, <1>2
<1>4. Data!Piece(s6, c) \in Seq(Nat) /\ had \in Seq(Nat) /\ Len(had) \in Nat
  <2>1. Data!Piece(s6, c) \in Seq(Nat)
    BY <1>1, <1>3, PieceIs
  <2> QED BY <1>1, <2>1, JoinIs
<1>5. ASSUME ~s21
      PROVE  /\ Data!Edge \in Nat /\ Data!Edge <= c /\ had = Data!Piece(Data!Edge, c) /\ Len(had) = c - Data!Edge
             /\ SoundedBy(s10, s11 \o s10.sent, s7, Data!Edge)
             /\ ~s7 => s11 = <<>> /\ Data!Edge = s4
  <2>1. /\ Data!Edge \in Nat /\ Len(s8) <= s6 /\ s8 = Data!Piece(Data!Edge, s6)
        /\ SoundedBy(s10, s11 \o s10.sent, s7, Data!Edge)
        /\ ~s7 => s11 = <<>> /\ Data!Edge = s4
    BY <1>5, ReadSounds
  <2>2. Data!Edge <= s6 /\ Data!Edge <= c
    <3>1. Data!Edge = s6 - Len(s8) /\ Len(s8) \in Nat
      BY <1>1 DEF Data!Edge
    <3> QED BY <1>1, <1>3, <3>1
  <2>3. had = Data!Piece(Data!Edge, c)
    BY <1>1, <1>3, <2>1, <2>2, PiecesJoin
  <2>4. Len(had) = c - Data!Edge
    BY <1>3, <2>1, <2>2, <2>3, PieceIs
  <2> QED BY <2>1, <2>2, <2>3, <2>4
<1>6. ASSUME Len(had) >= FRAME_SIZE
      PROVE  VoiceGave(Data!Out(s10, Data!NextPos, SubSeq(had, 1, FRAME_SIZE)),
                        s11 \o Data!Out(s10, Data!NextPos, SubSeq(had, 1, FRAME_SIZE)).sent, TRUE,
                        SubSeq(had, FRAME_SIZE + 1, Len(had)), Data!Edge + FRAME_SIZE, c)
  <2> DEFINE w == SubSeq(had, 1, FRAME_SIZE)
             left == SubSeq(had, FRAME_SIZE + 1, Len(had))
             o == Data!Out(s10, Data!NextPos, w)
  <2>1. w \in Seq(Nat) /\ Len(w) = FRAME_SIZE
    BY <1>2, <1>4, <1>6, PushFront
  <2>2. left \in Seq(Nat)
    BY <1>2, <1>4, <1>6, PushBehind
  <2>3. ASSUME ~s21
        PROVE  /\ w = Data!Piece(Data!Edge, Data!Edge + FRAME_SIZE) /\ left = Data!Piece(Data!Edge + FRAME_SIZE, c)
               /\ Data!Edge + FRAME_SIZE \in Nat /\ Data!Edge + FRAME_SIZE <= c
    <3>1. Data!Edge \in Nat /\ Data!Edge <= c /\ had = Data!Piece(Data!Edge, c) /\ Len(had) = c - Data!Edge
      BY <1>5, <2>3
    <3>2. Data!Edge + FRAME_SIZE \in Nat /\ Data!Edge + FRAME_SIZE <= c
      BY <1>2, <1>3, <1>6, <3>1
    <3>3. SubSeq(Data!Piece(Data!Edge, c), 1, FRAME_SIZE) = Data!Piece(Data!Edge, Data!Edge + FRAME_SIZE)
      BY <1>2, <1>3, <3>1, <3>2, PieceFront
    <3>4. SubSeq(Data!Piece(Data!Edge, c), FRAME_SIZE + 1, Len(Data!Piece(Data!Edge, c))) = Data!Piece(Data!Edge + FRAME_SIZE, c)
      BY <1>2, <1>3, <3>1, <3>2, PieceBehind
    <3> QED BY <3>1, <3>2, <3>3, <3>4
  <2>4. o = Data!Out(s10, Data!NextPos, w)
    OBVIOUS
  <2> HIDE DEF w, left, o
  <2>5. /\ o \in Outs /\ s11 \o o.sent \in Seq(Msgs) /\ StartedBy(o, s11 \o o.sent, TRUE)
        /\ ~o.refused
        /\ ~s21 => SoundedBy(o, s11 \o o.sent, TRUE, Data!Edge + FRAME_SIZE)
    BY <2>1, <2>3, <2>4, VoiceFrame
  <2>6. VoiceGave(o, s11 \o o.sent, TRUE, left, Data!Edge + FRAME_SIZE, c)
    BY <2>2, <2>3, <2>5 DEF VoiceGave
  <2> QED BY <2>6 DEF w, left, o
<1>7. ASSUME Len(had) < FRAME_SIZE PROVE VoiceGave(s10, s11 \o s10.sent, s7, had, Data!Edge, c)
  BY <1>1, <1>4, <1>5 DEF VoiceGave
<1> QED BY <1>6, <1>7

\* The thread goes on to decode.
LEMMA VoiceGoesOn ==
  ASSUME Data!DataInv, s5 = "read", s3.source = "magic", NEW c \in Nat, NEW o, NEW left, NEW e,
         NEW bg \in BOOLEAN, VoiceGave(o, s11 \o o.sent, bg, left, e, c), Data!HandOver(o), Data!Goes,
         s5' = "read", s7' = bg, s6' = c, s8' = left
  PROVE  Data!DataInv'
<1>1. /\ o \in Outs /\ s11 \o o.sent \in Seq(Msgs) /\ ~o.refused
      /\ StartedBy(o, s11 \o o.sent, bg) /\ left \in Seq(Nat)
  BY DEF VoiceGave
<1>5. InTag(o, bg, s6')
  <2>1. ~Data!Tagged(s3)
    BY ReadIs, MediumIs
  <2> QED BY <1>1, <2>1 DEF StartedBy, InTag
<1>2. ~s21 =>
        /\ SoundedBy(o, s11 \o o.sent, bg, Data!Edge')
        /\ ~bg \/ o.refused => s11 \o o.sent = <<>>
        /\ ~bg => Data!Edge' = s4
        /\ Len(s8') <= s6' /\ s8' = Data!Piece(Data!Edge', s6')
  <2> SUFFICES ASSUME ~s21
               PROVE  /\ SoundedBy(o, s11 \o o.sent, bg, Data!Edge')
                      /\ ~bg \/ o.refused => s11 \o o.sent = <<>>
                      /\ ~bg => Data!Edge' = s4
                      /\ Len(s8') <= s6' /\ s8' = Data!Piece(Data!Edge', s6')
    OBVIOUS
  <2>1. /\ SoundedBy(o, s11 \o o.sent, bg, e) /\ e \in Nat /\ e <= c /\ left = Data!Piece(e, c)
        /\ ~bg => s11 \o o.sent = <<>> /\ e = s4
    BY DEF VoiceGave
  <2>2. Len(left) = c - e
    BY <2>1, PieceIs
  <2>3. c - Len(left) = e /\ Len(left) <= c
    BY ONLY <2>1, <2>2, c \in Nat
  <2>4. Data!Edge' = e
    BY <2>3 DEF Data!Edge
  <2> QED BY <1>1, <2>1, <2>3, <2>4
<1>3. CASE bg = TRUE
  <2>1. SoundedBy(o, s11 \o o.sent, TRUE, Data!Edge') \/ s21
    BY <1>2, <1>3
  <2> QED BY <1>1, <1>2, <1>3, <1>5, <2>1, GaveOn
<1>4. CASE bg = FALSE
  <2>1. SoundedBy(o, s11 \o o.sent, FALSE, Data!Edge') \/ s21
    BY <1>2, <1>4
  <2> QED BY <1>1, <1>2, <1>4, <1>5, <2>1, GaveOn
<1> QED BY <1>3, <1>4

\* What holds when the last pieces of a voice are given.
VoiceEnd(o, q) ==
  /\ o \in Outs /\ q \in Seq(Msgs) /\ HoldsBack(o, q) /\ ~o.refused
  /\ ~s21 => FirstOnly(q) /\ (o.skip >= 0 => q = <<>>)

\* One of them is given.
LEMMA VoiceLast ==
  ASSUME NEW o, VoiceEnd(o, s11 \o o.sent), s11 \in Seq(Msgs), NEW w \in Seq(Nat),
         NEW o1, o1 = Data!Out(o, "LAST", w)
  PROVE  /\ VoiceEnd(o1, s11 \o o1.sent) /\ Data!Message("STOP", w) \in Msgs
         /\ o.skip = -1 =>
              /\ o1.skip = -1 /\ Data!Stops(s11 \o o1.sent)
              /\ s11 \o o1.sent = Append(s11 \o o.sent, Data!Message("STOP", w))
<1> DEFINE q == s11 \o o.sent
           q1 == s11 \o o1.sent
           t == SubSeq(w, o.skip + 1, Len(w))
           z == Data!Message("START", t)
           y == Data!Message("STOP", w)
<1>1. o \in Outs /\ q \in Seq(Msgs) /\ HoldsBack(o, q) /\ ~o.refused
      /\ (~s21 => FirstOnly(q) /\ (o.skip >= 0 => q = <<>>))
  BY DEF VoiceEnd
<1>2. /\ o1 \in Outs /\ q1 \in Seq(Msgs) /\ o1.refused = o.refused /\ HoldsBack(o1, q1)
  <2>1. "LAST" \in {"MID", "LAST"}
    OBVIOUS
  <2> QED BY <1>1, <2>1, StartLater
<1>3. /\ o.skip >= Len(w) => o1.skip = o.skip - Len(w) /\ o1.sent = o.sent
      /\ o.skip >= 0 /\ o.skip < Len(w) =>
            o1.skip = -1 /\ o1.sent = Append(o.sent, z) /\ z \in Msgs
      /\ o.skip = -1 => o1.skip = -1 /\ o1.sent = Append(o.sent, y)
  <2>1. "LAST" \in {"MID", "LAST"} /\ (IF "LAST" = "MID" THEN "CONTINUE" ELSE "STOP") = "STOP"
    OBVIOUS
  <2> QED BY <1>1, <2>1, OutLater
<1>4. y \in Msgs /\ y.cmd = "STOP" /\ z.cmd = "START"
  BY DEF Msgs, Data!Message
<1>5. o.skip \in Nat \cup {-1} /\ o.sent \in Seq(Msgs) /\ Len(w) \in Nat
  BY <1>1 DEF Outs
<1>6. \A v \in Msgs : o1.sent = Append(o.sent, v) => q1 = Append(q, v)
  BY <1>5, MessageBehind
<1> HIDE DEF q, q1, z, y
<1>7. CASE o.skip >= Len(w)
  <2>1. o1.sent = o.sent
    BY <1>3, <1>7
  <2>2. q1 = q
    BY <2>1 DEF q, q1
  <2>3. o.skip >= 0 /\ o.skip # -1
    BY <1>5, <1>7
  <2>4. VoiceEnd(o1, q1)
    BY <1>1, <1>2, <2>2, <2>3 DEF VoiceEnd
  <2> QED BY <1>4, <2>3, <2>4 DEF q, q1, y
<1>8. CASE o.skip >= 0 /\ o.skip < Len(w)
  <2>1. o1.skip = -1 /\ q1 = Append(q, z) /\ z \in Msgs /\ o.skip # -1 /\ ~(o1.skip >= 0)
    BY <1>3, <1>6, <1>8
  <2>2. ~s21 => FirstOnly(q1)
    BY <1>1, <1>8, <2>1, LiveMore
  <2>3. VoiceEnd(o1, q1)
    BY <1>1, <1>2, <2>1, <2>2 DEF VoiceEnd
  <2> QED BY <1>4, <2>1, <2>3 DEF q, q1, y
<1>9. CASE o.skip = -1
  <2>1. o1.skip = -1 /\ q1 = Append(q, y) /\ ~(o1.skip >= 0)
    BY <1>3, <1>4, <1>6, <1>9
  <2>2. ~s21 => FirstOnly(q1)
    BY <1>1, <1>4, <2>1, LiveMore
  <2>3. VoiceEnd(o1, q1)
    BY <1>1, <1>2, <2>1, <2>2 DEF VoiceEnd
  <2>4. Data!Stops(q1)
    BY <1>1, <1>4, <2>1, MoreIs
  <2> QED BY <1>4, <2>1, <2>3, <2>4 DEF q, q1, y
<1> QED BY <1>5, <1>7, <1>8, <1>9

\* The first piece that is given last is added behind what plays.
LEMMA VoiceSounds ==
  ASSUME NEW q \in Seq(Msgs), NEW x \in Seq(Nat), Data!Message("STOP", x) \in Msgs, NEW h \in Seq(Nat),
         s18 \in Seq(Nat),
         \E l \in [0 .. Len(q) -> 0 .. Len(h)] : Data!Laid(q, s18, h, l)
  PROVE  /\ Append(q, Data!Message("STOP", x)) \in Seq(Msgs) /\ h \o x \in Seq(Nat)
         /\ \E l \in [0 .. Len(Append(q, Data!Message("STOP", x))) -> 0 .. Len(h \o x)] :
               Data!Laid(Append(q, Data!Message("STOP", x)), s18, h \o x, l)
         /\ LiveIn(Append(q, Data!Message("STOP", x))) <=> LiveIn(q)
<1> DEFINE y == Data!Message("STOP", x)
<1>1. y \in Msgs /\ y.bytes = x /\ y.cmd # "START"
  BY DEF Data!Message
<1> HIDE DEF y
<1>2. Append(q, y) \in Seq(Msgs)
  BY <1>1, AppendProperties
<1>3. /\ h \o y.bytes \in Seq(Nat)
      /\ \E l \in [0 .. Len(Append(q, y)) -> 0 .. Len(h \o y.bytes)] :
            Data!Laid(Append(q, y), s18, h \o y.bytes, l)
  BY <1>1, FlowMore
<1>4. LiveIn(Append(q, y)) <=> LiveIn(q)
  BY <1>1, LiveMore
<1> QED BY <1>1, <1>2, <1>3, <1>4 DEF y

\* The last pieces of a voice.
LEMMA VoiceIsLast ==
  ASSUME Data!DataInv, s5 = "read", s3.source = "magic", NEW c, c = s6 + VOICE_FRAME,
         NEW o, NEW left, NEW e, NEW bg \in BOOLEAN, VoiceGave(o, s11 \o o.sent, bg, left, e, c),
         bg => o.skip = -1,
         NEW tail, tail = left \o Data!Piece(s6, c), NEW o2,
         o2 = IF Len(tail) >= FRAME_SIZE
                THEN Data!Out(Data!Out(o, "LAST", SubSeq(tail, 1, FRAME_SIZE)),
                         "LAST", SubSeq(tail, FRAME_SIZE + 1, Len(tail)))
              ELSE IF Len(tail) > WAV_HEADER THEN Data!Out(o, "LAST", tail) ELSE o
  PROVE  LastGave(o2, s11 \o o2.sent, bg)
<1> DEFINE q == s11 \o o.sent
           q2 == s11 \o o2.sent
<1>1. /\ s3 \in Offered /\ s4 = 0 /\ s6 \in Nat /\ s19 \in Nat
      /\ s11 \in Seq(Msgs) /\ s18 \in Seq(Nat)
  BY ReadIs
<1>2. /\ FRAME_SIZE \in Nat /\ VOICE_FRAME \in Nat /\ WAV_HEADER \in Nat /\ VOICE_FRAME > WAV_HEADER
  BY MediaAssumption
<1>3. c \in Nat /\ s6 <= c /\ c - s6 > WAV_HEADER
  BY <1>1, <1>2
<1>4. /\ o \in Outs /\ q \in Seq(Msgs) /\ StartedBy(o, q, bg) /\ ~o.refused /\ left \in Seq(Nat)
      /\ ~s21 =>
            /\ SoundedBy(o, q, bg, e) /\ e \in Nat /\ e <= c /\ left = Data!Piece(e, c)
            /\ ~bg => q = <<>> /\ e = s4
  BY DEF VoiceGave
<1>5. tail \in Seq(Nat) /\ Len(tail) \in Nat /\ Len(tail) > WAV_HEADER
  <2>1. Data!Piece(s6, c) \in Seq(Nat) /\ Len(Data!Piece(s6, c)) = c - s6
    BY <1>1, <1>3, PieceIs
  <2>2. tail \in Seq(Nat) /\ Len(tail) = Len(left) + Len(Data!Piece(s6, c)) /\ Len(left) \in Nat
    BY <1>4, <2>1, JoinIs
  <2> QED BY <1>2, <1>3, <2>1, <2>2
<1>6. VoiceEnd(o, q)
  <2>1. HoldsBack(o, q)
    BY <1>4 DEF StartedBy
  <2>2. ~s21 => FirstOnly(q) /\ (o.skip >= 0 => q = <<>>)
    <3>1. ~s21 => FirstOnly(q)
      BY <1>4 DEF SoundedBy
    <3>2. o.skip >= 0 => bg = FALSE
      OBVIOUS
    <3> QED BY <1>4, <3>1, <3>2
  <2> QED BY <1>4, <2>1, <2>2 DEF VoiceEnd
<1> HIDE DEF q, q2
<1>7. ASSUME ~s21, bg, LiveIn(q)
      PROVE  \E h \in Seq(Nat) :
               /\ Data!KindOf(s3, h \o tail, s4, s19, 0)
               /\ \E l \in [0 .. Len(q) -> 0 .. Len(h)] : Data!Laid(q, s18, h, l)
  <2>1. SoundedBy(o, q, bg, e) /\ e \in Nat /\ e <= c /\ left = Data!Piece(e, c)
    BY <1>4, <1>7
  <2>2. HeaderOf(o) = 0 /\ s4 <= e /\ s4 <= s6 /\ 0 \in Nat
    BY <1>1, <2>1 DEF HeaderOf
  <2>3. Flows(q, HeaderOf(o), e)
    BY <1>7, <2>1 DEF SoundedBy
  <2>4. PICK h \in Seq(Nat) :
           /\ Data!KindOf(s3, h, s4, s19, 0) /\ Data!EndOf(s3, h, 0, e)
           /\ \E l \in [0 .. Len(q) -> 0 .. Len(h)] : Data!Laid(q, s18, h, l)
    BY <2>2, <2>3 DEF Flows
  <2>5. Data!KindOf(s3, h \o (Data!Piece(e, c) \o Data!Piece(s6, c)), s4, s19, 0)
    BY <1>1, <1>3, <2>1, <2>2, <2>4, VoiceEnds
  <2>6. tail = Data!Piece(e, c) \o Data!Piece(s6, c)
    BY <2>1
  <2> QED BY <2>4, <2>5, <2>6
<1>8. CASE Len(tail) >= FRAME_SIZE
  <2> DEFINE x1 == SubSeq(tail, 1, FRAME_SIZE)
             x2 == SubSeq(tail, FRAME_SIZE + 1, Len(tail))
             o1 == Data!Out(o, "LAST", x1)
             q1 == s11 \o o1.sent
             y1 == Data!Message("STOP", x1)
             y2 == Data!Message("STOP", x2)
  <2>1. x1 \in Seq(Nat) /\ x2 \in Seq(Nat) /\ x1 \o x2 = tail
    BY <1>2, <1>5, <1>8, SplitIs
  <2>2. o2 = Data!Out(o1, "LAST", x2) /\ o1 = Data!Out(o, "LAST", x1) /\ q1 = s11 \o o1.sent
    BY <1>8
  <2> HIDE DEF x1, x2, o1, q1
  <2>3. /\ VoiceEnd(o1, q1) /\ y1 \in Msgs
        /\ o.skip = -1 => o1.skip = -1 /\ Data!Stops(q1) /\ q1 = Append(q, y1)
    BY <1>1, <1>6, <2>1, <2>2, VoiceLast DEF q
  <2>4. /\ VoiceEnd(o2, q2) /\ y2 \in Msgs
        /\ o1.skip = -1 => Data!Stops(q2) /\ q2 = Append(q1, y2)
    BY <1>1, <2>1, <2>2, <2>3, VoiceLast DEF q2
  <2>5. ASSUME ~s21, bg, LiveIn(q2) PROVE FlowsOn(q2)
    <3>1. q1 = Append(q, y1) /\ q2 = Append(q1, y2)
      BY <2>3, <2>4, <2>5
    <3>2. q1 \in Seq(Msgs)
      BY <2>3 DEF VoiceEnd
    <3>3. LiveIn(q1) /\ LiveIn(q)
      <4>1. y1.cmd # "START" /\ y2.cmd # "START"
        BY DEF Data!Message
      <4>2. LiveIn(q2) <=> LiveIn(q1)
        BY <2>4, <3>1, <3>2, <4>1, LiveMore
      <4>3. LiveIn(q1) <=> LiveIn(q)
        BY <1>4, <2>3, <3>1, <4>1, LiveMore
      <4> QED BY <2>5, <4>2, <4>3
    <3>4. PICK h \in Seq(Nat) :
             /\ Data!KindOf(s3, h \o tail, s4, s19, 0)
             /\ \E l \in [0 .. Len(q) -> 0 .. Len(h)] : Data!Laid(q, s18, h, l)
      BY <1>7, <2>5, <3>3
    <3> DEFINE h1 == h \o x1
               h2 == h1 \o x2
    <3>5. h1 \in Seq(Nat) /\ \E l \in [0 .. Len(q1) -> 0 .. Len(h1)] : Data!Laid(q1, s18, h1, l)
      BY <1>1, <1>4, <2>1, <2>3, <3>1, <3>4, VoiceSounds
    <3> HIDE DEF h1
    <3>6. h2 \in Seq(Nat) /\ \E l \in [0 .. Len(q2) -> 0 .. Len(h2)] : Data!Laid(q2, s18, h2, l)
      BY <1>1, <2>1, <2>4, <3>1, <3>2, <3>5, VoiceSounds
    <3>7. h2 = h \o tail
      <4>0. x1 \in Seq(Nat) /\ x2 \in Seq(Nat)
        BY <2>1
      <4>1. (h \o x1) \o x2 = h \o (x1 \o x2)
        BY ONLY h \in Seq(Nat), <4>0, ConcatAssociative
      <4> QED BY <2>1, <4>1 DEF h1
    <3> HIDE DEF h2
    <3>8. Data!Fits(0) /\ 0 \in Nat
      BY DEF Data!Fits
    <3> QED BY <3>4, <3>6, <3>7, <3>8 DEF FlowsOn
  <2>6. bg => Data!Stops(q2)
    BY <2>3, <2>4
  <2>7. OneStart(q2) /\ o2 \in Outs /\ q2 \in Seq(Msgs) /\ ~o2.refused /\ (~s21 => FirstOnly(q2))
    BY <2>4 DEF VoiceEnd, HoldsBack
  <2>8. HeaderKnown(o2, q2)
    BY DEF HeaderKnown
  <2> QED BY <2>5, <2>6, <2>7, <2>8 DEF LastGave, q2
<1>9. CASE Len(tail) < FRAME_SIZE
  <2> DEFINE y == Data!Message("STOP", tail)
  <2>1. o2 = Data!Out(o, "LAST", tail)
    BY <1>2, <1>5, <1>9
  <2>2. /\ VoiceEnd(o2, q2) /\ y \in Msgs
        /\ o.skip = -1 => Data!Stops(q2) /\ q2 = Append(q, y)
    BY <1>1, <1>5, <1>6, <2>1, VoiceLast DEF q, q2
  <2>3. ASSUME ~s21, bg, LiveIn(q2) PROVE FlowsOn(q2)
    <3>1. q2 = Append(q, y)
      BY <2>2, <2>3
    <3>2. LiveIn(q)
      <4>1. y.cmd # "START"
        BY DEF Data!Message
      <4> QED BY <1>4, <2>2, <2>3, <3>1, <4>1, LiveMore
    <3>3. PICK h \in Seq(Nat) :
             /\ Data!KindOf(s3, h \o tail, s4, s19, 0)
             /\ \E l \in [0 .. Len(q) -> 0 .. Len(h)] : Data!Laid(q, s18, h, l)
      BY <1>7, <2>3, <3>2
    <3>4. h \o tail \in Seq(Nat)
          /\ \E l \in [0 .. Len(q2) -> 0 .. Len(h \o tail)] : Data!Laid(q2, s18, h \o tail, l)
      BY <1>1, <1>4, <1>5, <2>2, <3>1, <3>3, VoiceSounds
    <3>5. Data!Fits(0) /\ 0 \in Nat
      BY DEF Data!Fits
    <3> QED BY <3>3, <3>4, <3>5 DEF FlowsOn
  <2>4. bg => Data!Stops(q2)
    BY <2>2
  <2>5. OneStart(q2) /\ o2 \in Outs /\ q2 \in Seq(Msgs) /\ ~o2.refused /\ (~s21 => FirstOnly(q2))
    BY <2>2 DEF VoiceEnd, HoldsBack
  <2>6. HeaderKnown(o2, q2)
    BY DEF HeaderKnown
  <2> QED BY <2>3, <2>4, <2>5, <2>6 DEF LastGave, q2
<1> QED BY <1>2, <1>5, <1>8, <1>9

\* A piece of a changed voice is decoded.
LEMMA StepMagicPiece == ASSUME Data!DataInv, Data!MagicPiece PROVE Data!DataInv'
<1> DEFINE n == VOICE_FRAME
           c == s6 + n
           had == s8 \o Data!Piece(s6, c)
           full == Len(had) >= FRAME_SIZE
           o == IF full THEN Data!Out(s10, Data!NextPos, SubSeq(had, 1, FRAME_SIZE)) ELSE s10
           left == IF full THEN SubSeq(had, FRAME_SIZE + 1, Len(had)) ELSE had
           tail == left \o Data!Piece(s6, c)
           o2 == IF Len(tail) >= FRAME_SIZE
                   THEN Data!Out(Data!Out(o, "LAST", SubSeq(tail, 1, FRAME_SIZE)),
                            "LAST", SubSeq(tail, FRAME_SIZE + 1, Len(tail)))
                 ELSE IF Len(tail) > WAV_HEADER THEN Data!Out(o, "LAST", tail) ELSE o
           e == IF full THEN Data!Edge + FRAME_SIZE ELSE Data!Edge
<1>1. s5 = "read" /\ s3.source = "magic" /\ Data!Goes
  BY DEF Data!MagicPiece, Data!Reading
<1>2. /\ s3 \in Offered /\ s6 \in Nat /\ s7 \in BOOLEAN /\ s8 \in Seq(Nat)
      /\ ~s10.refused /\ s4 = 0
  BY <1>1, ReadIs
<1>3. FRAME_SIZE \in Nat /\ n \in Nat
  BY MediaAssumption
<1>4. c \in Nat /\ s6 <= c
  BY <1>2, <1>3
<1>5. had \in Seq(Nat) /\ Len(had) \in Nat
  <2>1. Data!Piece(s6, c) \in Seq(Nat)
    BY <1>2, <1>4, PieceIs
  <2> QED BY <1>2, <2>1, JoinIs
<1>6. \/ /\ n < Data!Rest /\ Data!HandOver(o) /\ s8' = left /\ s6' = c
         /\ s7' = (s7 \/ full) /\ s5' = "read"
      \/ /\ Data!HandOver(o2) /\ s8' = <<>> /\ s6' = c /\ s5' = "wait"
         /\ s7' = (s7 \/ full)
  BY <1>1 DEF Data!MagicPiece
<1>7. /\ full => VoiceGave(o, s11 \o o.sent, TRUE, left, e, c)
      /\ ~full => VoiceGave(o, s11 \o o.sent, s7, left, e, c)
  <2>1. /\ Len(had) >= FRAME_SIZE =>
              VoiceGave(Data!Out(s10, Data!NextPos, SubSeq(had, 1, FRAME_SIZE)),
                        s11 \o Data!Out(s10, Data!NextPos, SubSeq(had, 1, FRAME_SIZE)).sent, TRUE,
                        SubSeq(had, FRAME_SIZE + 1, Len(had)), Data!Edge + FRAME_SIZE, c)
        /\ Len(had) < FRAME_SIZE => VoiceGave(s10, s11 \o s10.sent, s7, had, Data!Edge, c)
    BY <1>1, VoicePiece
  <2>2. ~full => Len(had) < FRAME_SIZE
    BY <1>3, <1>5
  <2> QED BY <2>1, <2>2
<1>8. c = s6 + VOICE_FRAME /\ tail = left \o Data!Piece(s6, c)
      /\ o2 = IF Len(tail) >= FRAME_SIZE
                THEN Data!Out(Data!Out(o, "LAST", SubSeq(tail, 1, FRAME_SIZE)),
                         "LAST", SubSeq(tail, FRAME_SIZE + 1, Len(tail)))
              ELSE IF Len(tail) > WAV_HEADER THEN Data!Out(o, "LAST", tail) ELSE o
  OBVIOUS
<1> HIDE DEF n, c, had, full, o, left, tail, o2, e
<1>9. ASSUME NEW bg \in BOOLEAN, s7' = bg, VoiceGave(o, s11 \o o.sent, bg, left, e, c)
      PROVE  Data!DataInv'
  <2>1. /\ o \in Outs /\ left \in Seq(Nat) /\ StartedBy(o, s11 \o o.sent, bg) /\ ~o.refused
    BY <1>9 DEF VoiceGave
  <2>2. bg => o.skip = -1
    <3>1. ~Data!Tagged(s3)
      BY <1>1, <1>2, MediumIs
    <3>2. bg => ~(o.skip >= 0)
      BY <2>1, <3>1 DEF StartedBy
    <3>3. o.skip \in Nat \cup {-1}
      BY <2>1 DEF Outs
    <3> QED BY <3>2, <3>3
  <2>3. CASE Data!HandOver(o) /\ s8' = left /\ s6' = c /\ s5' = "read"
    BY <1>1, <1>4, <1>9, <2>3, VoiceGoesOn
  <2>4. CASE Data!HandOver(o2) /\ s8' = <<>> /\ s6' = c /\ s5' = "wait"
    <3>1. LastGave(o2, s11 \o o2.sent, bg)
      BY <1>1, <1>8, <1>9, <2>2, VoiceIsLast
    <3>2. s8' \in Seq(Nat) /\ s6' \in Nat
      BY <1>4, <2>4
    <3> QED BY <1>1, <1>9, <2>4, <3>1, <3>2, GaveLast
  <2> QED BY <1>6, <2>3, <2>4
<1>10. CASE full
  <2>1. s7' = TRUE
    BY <1>6, <1>10
  <2> QED BY <1>7, <1>9, <1>10, <2>1
<1>11. CASE ~full
  <2>1. s7' = s7
    BY <1>2, <1>6, <1>11
  <2> QED BY <1>2, <1>7, <1>9, <1>11, <2>1
<1> QED BY <1>10, <1>11

\* Every step keeps it.
LEMMA MediaStep == ASSUME Data!DataInv, Data!Next PROVE Data!DataInv'
<1>2. ASSUME NEW m \in Offered, Data!Send(m) PROVE Data!DataInv'
  BY <1>2, StepSend
<1>3. ASSUME NEW n \in UrlPieces, Data!UrlPiece(n) PROVE Data!DataInv'
  BY <1>3, StepUrlPiece
<1>4. CASE Data!MagicPiece
  BY <1>4, StepMagicPiece
<1>5. CASE Data!UrlEnds
  BY <1>5, StepUrlEnds
<1>6. CASE Data!FilePiece
  BY <1>6, StepFilePiece
<1>7. CASE Data!DataPiece
  BY <1>7, StepDataPiece
<1>8. CASE Data!MagicStops
  BY <1>8, StepMagicStops
<1>9. CASE Data!PlayMessage
  BY <1>9, StepPlayMessage
<1>10. CASE Data!Stop
  BY <1>10, StepStop
<1>11. CASE Data!GoOn
  BY <1>11, StepGoOn
<1>12. CASE Data!Settle
  BY <1>12, StepSettle
<1> QED BY <1>2, <1>3, <1>4, <1>5, <1>6, <1>7, <1>8, <1>9, <1>10, <1>11, <1>12 DEF Data!Next

\* What it promises.
LEMMA MediaKeepsPromise ==
  ASSUME Data!DataInv
  PROVE  Data!MediaDataTypeOK /\ Data!GoesOnWhereItWasCut /\ Data!EveryMediumEnds
<1>1. /\ s3 \in Offered \cup {Data!None} /\ s4 \in Nat /\ s19 \in Nat /\ s18 \in Seq(Nat)
      /\ Data!StartInv /\ (~s21 => Data!SoundInv)
  BY MediaStateIs
<1>2. Data!MediaDataTypeOK
  BY DEF Data!DataInv
<1>3. Data!GoesOnWhereItWasCut
  <2> SUFFICES ASSUME ~s21, ~Data!ShortVoice, NEW i \in 1..Len(s18), NEW j \in 0..Len(s18),
                      Data!Follows(s18, s3.front, j, i)
               PROVE  /\ s19 <= 1 \/ ~Data!Headed(s3) => s18[i] <= Data!Sound(s18, s3.front, j) + 1
                      /\ ~Data!Tagged(s3) /\ s3.source # "magic" =>
                             s18[i] > Data!Sound(s18, s3.front, j)
    BY DEF Data!GoesOnWhereItWasCut
  <2>1. PICK f \in Nat : Data!Fits(f) /\ Data!KindOf(s3, s18, s4, s19, f)
    BY <1>1 DEF Data!SoundInv
  <2>2. f \in {0, s3.front}
    BY <2>1 DEF Data!Fits
  <2> QED BY <1>1, <2>1, <2>2, KindKeepsPromise
<1>4. Data!EveryMediumEnds
  <2> SUFFICES ASSUME s5 = "wait", s11 = <<>>, s13 > 0 PROVE s15 > 0 \/ Data!EndsBadly
    BY DEF Data!EveryMediumEnds
  <2>1. ~Data!Unstarted
    BY DEF Data!Unstarted
  <2>2. ~Data!Stops(s11)
    <3>1. Len(s11) = 0
      OBVIOUS
    <3> QED BY <3>1 DEF Data!Stops
  <2> QED BY <1>1, <2>1, <2>2 DEF Data!StartInv
<1> QED BY <1>2, <1>3, <1>4
=============================================================================
