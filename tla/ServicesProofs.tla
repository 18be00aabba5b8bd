---------------------------- MODULE ServicesProofs ----------------------------
(***************************************************************************)
(* All parts together: each keeps its inductive invariant, so what the     *)
(* runs check of them holds for every value of the constants.              *)
(***************************************************************************)
EXTENDS Services, DataServicesProofs, ChildServicesProofs

\* What each of the parts proved one by one keeps: those that bring data,
DataPartsInv ==
  /\ part = "cloud" => Cloud!CloudInv
  /\ part = "speech" => Speech!AsrInv
  /\ part = "authorize" => Auth!AuthInv
  /\ part = "http" => Http!HttpInv
  /\ part = "ota" => Ota!OtaInv
  /\ part = "lan" => Lan!LanInv
  /\ part = "push" => Push!PushInv
  /\ part = "media data" => Data!DataInv
  /\ part = "start" => Starting!StartInv
\* and those that the child meets.
ChildPartsInv ==
  /\ part = "songs" => Songs!SongInv
  /\ part = "keys" => TheKeys!KeysInv
  /\ part = "volume" => Vol!VolumeInv
  /\ part = "progress" => Progress!ProgressInv
  /\ part = "toy" => TheToy!ToyInv
  /\ part = "codec" => TheCodec!CodecInv
  /\ part = "memos" => Memos!MemoInv
  /\ part = "battery" => Vbat!VbatInv
  /\ part = "events" => Events!EventInv
  /\ part = "m4a" => Song!SongInv
\* All of them.
PartsInv == DataPartsInv /\ ChildPartsInv

\* Whichever part runs, it begins as it would alone.
LEMMA PartsBegin == ServicesInit => PartsInv
BY CloudBegins, SpeechBegins, AuthBegins, HttpBegins, OtaBegins, LanBegins, PushBegins,
   MediaBegins, StartBegins, SongsBegin, KeysBegin, VolumeBegins, ProgressBegins, ToyBegins, CodecBegins, MemosBegin,
   BatteryBegins, EventsBegin, WholeBegins
   DEF ServicesInit, PartsInv, DataPartsInv, ChildPartsInv

\* The part that runs takes a step of its own, the others do not run.
LEMMA PartsStep == PartsInv /\ [ServicesNext]_<<part, vars, flashVars, rest0>> => PartsInv'
<1> SUFFICES ASSUME PartsInv, [ServicesNext]_<<part, vars, flashVars, rest0>> PROVE PartsInv'
  OBVIOUS
<1>1. CASE UNCHANGED <<part, vars, flashVars, rest0>>
  <2>1. UNCHANGED <<part, s1, s2, s3, s4, s5, s6, s7, s8, s9, s10, s11, s12, s13, s14, s15,
                    s16, s17, s18, s19, s20, s21>>
    BY <1>1 DEF rest0, rest5, rest6, rest7, rest8, rest9, rest10, rest11, rest12, rest13,
       rest14, rest15, rest18, rest20
  <2>2. DataPartsInv'
    BY <2>1, CloudStays, SpeechStays, AuthStays, HttpStays, OtaStays, LanStays, PushStays,
       MediaStays, StartStays DEF PartsInv, DataPartsInv
  <2>3. ChildPartsInv'
    BY <2>1, SongsStay, KeysStay, VolumeStays, ProgressStays, ToyStays, CodecStays, MemosStay,
       BatteryStays, EventsStay, WholeStays DEF PartsInv, ChildPartsInv
  <2> QED BY <2>2, <2>3 DEF PartsInv
<1>2. CASE ServicesNext
  <2>1. part' = part
    BY <1>2 DEF ServicesNext
  <2>2. part = "cloud" => Cloud!CloudInv'
    BY <1>2, CloudStep DEF ServicesNext, PartsInv, DataPartsInv
  <2>3. part = "speech" => Speech!AsrInv'
    BY <1>2, SpeechStep DEF ServicesNext, PartsInv, DataPartsInv
  <2>4. part = "authorize" => Auth!AuthInv'
    BY <1>2, AuthStep DEF ServicesNext, PartsInv, DataPartsInv
  <2>5. part = "http" => Http!HttpInv'
    BY <1>2, HttpStep DEF ServicesNext, PartsInv, DataPartsInv
  <2>6. part = "ota" => Ota!OtaInv'
    BY <1>2, OtaStep DEF ServicesNext, PartsInv, DataPartsInv
  <2>7. part = "lan" => Lan!LanInv'
    BY <1>2, LanStep DEF ServicesNext, PartsInv, DataPartsInv
  <2>8. part = "start" => Starting!StartInv'
    BY <1>2, StartStep DEF ServicesNext, PartsInv, DataPartsInv
  <2>9. part = "push" => Push!PushInv'
    BY <1>2, PushStep DEF ServicesNext, PartsInv, DataPartsInv
  <2>10. part = "media data" => Data!DataInv'
    BY <1>2, MediaStep DEF ServicesNext, PartsInv, DataPartsInv
  <2>11. part = "songs" => Songs!SongInv'
    BY <1>2, SongsStep DEF ServicesNext, PartsInv, ChildPartsInv
  <2>12. part = "keys" => TheKeys!KeysInv'
    BY <1>2, KeysStep DEF ServicesNext, PartsInv, ChildPartsInv
  <2>13. part = "volume" => Vol!VolumeInv'
    BY <1>2, VolumeStep DEF ServicesNext, PartsInv, ChildPartsInv
  <2>14. part = "progress" => Progress!ProgressInv'
    BY <1>2, ProgressStep DEF ServicesNext, PartsInv, ChildPartsInv
  <2>15. part = "toy" => TheToy!ToyInv'
    BY <1>2, ToyStep DEF ServicesNext, PartsInv, ChildPartsInv
  <2>16. part = "codec" => TheCodec!CodecInv'
    BY <1>2, CodecStep DEF ServicesNext, PartsInv, ChildPartsInv
  <2>17. part = "memos" => Memos!MemoInv'
    BY <1>2, MemosStep DEF ServicesNext, PartsInv, ChildPartsInv
  <2>18. part = "battery" => Vbat!VbatInv'
    BY <1>2, BatteryStep DEF ServicesNext, PartsInv, ChildPartsInv
  <2>19. part = "events" => Events!EventInv'
    BY <1>2, EventsStep DEF ServicesNext, PartsInv, ChildPartsInv
  <2>20. part = "m4a" => Song!SongInv'
    BY <1>2, WholeStep DEF ServicesNext, PartsInv, ChildPartsInv
  <2>21. DataPartsInv'
    BY <2>1, <2>2, <2>3, <2>4, <2>5, <2>6, <2>7, <2>8, <2>9, <2>10 DEF DataPartsInv
  <2>22. ChildPartsInv'
    BY <2>1, <2>11, <2>12, <2>13, <2>14, <2>15, <2>16, <2>17, <2>18, <2>19, <2>20
       DEF ChildPartsInv
  <2> QED BY <2>21, <2>22 DEF PartsInv
<1> QED BY <1>1, <1>2

\* On every path out of a call that failed half way, with any number of
\* addresses, packets, retries, pages and failures, the services give back the
\* sockets, the memory, the timer and the flash they took.
THEOREM AllIsGivenBack == ServicesSpec => []WhatWasTakenIsGivenBack
<1>1. PartsInv => WhatWasTakenIsGivenBack
  BY CloudKeepsPromise, SpeechKeepsPromise, AuthKeepsPromise, HttpKeepsPromise, OtaKeepsPromise,
     StartKeepsPromise
     DEF PartsInv, DataPartsInv, WhatWasTakenIsGivenBack, Lan!LanInv
<1> QED
  BY PartsBegin, PartsStep, <1>1, PTL DEF ServicesSpec

\* The answers of the cloud, the speech, the firmware, the bodies of HTTP, what
\* parents push and the samples of a song are what was sent, piece by piece, a
\* code that says so is true, and a medium goes on where it was cut.
THEOREM AnswersAreWhole == ServicesSpec => []AnswersAreTrue
<1>1. PartsInv => AnswersAreTrue
  BY CloudKeepsPromise, SpeechKeepsPromise, HttpKeepsPromise, OtaKeepsPromise, PushKeepsPromise,
     WholeKeepsPromise, MediaKeepsPromise
     DEF PartsInv, DataPartsInv, ChildPartsInv, AnswersAreTrue
<1> QED
  BY PartsBegin, PartsStep, <1>1, PTL DEF ServicesSpec

\* What the child says, presses, hears and asks to be reminded of has its
\* effect once, and each medium comes to its end, with the exceptions that the
\* single properties name: an answer that raced its timer or another with its
\* number, a song that was taken out, an overwritten key message, a status that
\* the codec overtook, and media that end badly.
THEOREM ChildIsAnswered == ServicesSpec => []ChildIsServed
<1>1. PartsInv => ChildIsServed
  BY MemosKeepPromise, ToyKeepsPromise, SongsKeepPromise, KeysKeepPromise, VolumeKeepsPromise,
     CodecKeepsPromise, ProgressKeepsPromise, BatteryKeepsPromise, EventsKeepPromise, MediaKeepsPromise
     DEF PartsInv, DataPartsInv, ChildPartsInv, ChildIsServed
<1> QED
  BY PartsBegin, PartsStep, <1>1, PTL DEF ServicesSpec
-----------------------------------------------------------------------------
\* Beside the other parts the play buffer and the parameters in flash are what
\* they are alone.
THEOREM BufferAndFlashRunAlone == ServicesSpec => Spec /\ FlashSpec
<1>1. ServicesInit => Init /\ FlashInit
  BY DEF ServicesInit
<1>2. [ServicesNext]_<<part, vars, flashVars, rest0>> => [Next]_vars /\ [FlashNext]_flashVars
  BY DEF ServicesNext
<1> QED
  BY <1>1, <1>2, PTL DEF ServicesSpec, Spec, FlashSpec

\* Also there the bytes keep their order, whoever waits is woken, and what a
\* service set is found in flash.
THEOREM BufferAndFlashKeepTheirs == ServicesSpec => [](BytesInOrder /\ WakeupIsOwed /\ ParametersAreKept)
BY BufferAndFlashRunAlone, BytesKeepOrder, WakeupsAreOwed, ParametersStay, PTL

\* Every part keeps its types, for all sizes and bounds.
THEOREM TypesAreKept == ServicesSpec => []ServicesTypeOK
<1>1. DataPartsInv =>
        /\ part = "cloud" => Cloud!CloudTypeOK
        /\ part = "speech" => Speech!AsrTypeOK
        /\ part = "authorize" => Auth!AuthTypeOK
        /\ part = "http" => Http!HttpTypeOK
        /\ part = "ota" => Ota!OtaTypeOK
        /\ part = "push" => Push!PushTypeOK
        /\ part = "media data" => Data!MediaDataTypeOK
        /\ part = "start" => Starting!StartTypeOK
  BY CloudKeepsPromise, SpeechKeepsPromise, AuthKeepsPromise, HttpKeepsPromise, OtaKeepsPromise,
     PushKeepsPromise, MediaKeepsPromise, StartKeepsPromise DEF DataPartsInv
<1>2. ChildPartsInv =>
        /\ part = "memos" => Memos!MemoTypeOK
        /\ part = "toy" => TheToy!ToyTypeOK
        /\ part = "codec" => TheCodec!CodecTypeOK
        /\ part = "m4a" => Song!M4ATypeOK
        /\ part = "progress" => Progress!ProgressTypeOK
        /\ part = "events" => Events!EventTypeOK
  BY MemosKeepPromise, ToyKeepsPromise, CodecKeepsPromise, WholeKeepsPromise, ProgressKeepsPromise,
     EventsKeepPromise DEF ChildPartsInv
<1>3. PartsInv /\ TypeOK /\ FlashTypeOK => ServicesTypeOK
  BY <1>1, <1>2 DEF PartsInv, ServicesTypeOK
<1> QED
  BY PartsBegin, PartsStep, BufferAndFlashRunAlone, BufferTypeCorrect, FlashTypeCorrect, <1>3, PTL
     DEF ServicesSpec
===============================================================================
