------------------------------ MODULE Services ------------------------------
(***************************************************************************)
(* The modules of one service or device each, checked one at a time:       *)
(* "part" says which of them runs.  The variables of the parts that do not *)
(* run keep their first values.                                            *)
(***************************************************************************)
EXTENDS DataServices, ChildServices

VARIABLE part
-----------------------------------------------------------------------------
\* The shared variables behind the first ones, which a part does not use.
rest20 == <<s21>>
rest18 == <<s19, s20, rest20>>
rest15 == <<s16, s17, s18, rest18>>
rest14 == <<s15, rest15>>
rest13 == <<s14, rest14>>
rest12 == <<s13, rest13>>
rest11 == <<s12, rest12>>
rest10 == <<s11, rest11>>
rest9 == <<s10, rest10>>
rest8 == <<s9, rest9>>
rest7 == <<s8, rest8>>
rest6 == <<s7, rest7>>
rest5 == <<s6, rest6>>
rest0 == <<s1, s2, s3, s4, s5, rest5>>

Free20 == s21 = 0
Free18 == s19 = 0 /\ s20 = 0 /\ Free20
Free15 == s16 = 0 /\ s17 = 0 /\ s18 = 0 /\ Free18
Free14 == s15 = 0 /\ Free15
Free13 == s14 = 0 /\ Free14
Free12 == s13 = 0 /\ Free13
Free11 == s12 = 0 /\ Free12
Free10 == s11 = 0 /\ Free11
Free9 == s10 = 0 /\ Free10
Free8 == s9 = 0 /\ Free9
Free7 == s8 = 0 /\ Free8
Free6 == s7 = 0 /\ Free7
Free5 == s6 = 0 /\ Free6
Free0 == s1 = 0 /\ s2 = 0 /\ s3 = 0 /\ s4 = 0 /\ s5 = 0 /\ Free5

ServicesInit ==
  /\ Init /\ FlashInit
  /\ \/ part \in {"buffer", "flash"} /\ Free0
     \/ part = "cloud" /\ Cloud!Init /\ Free18
     \/ part = "speech" /\ Speech!Init /\ Free20
     \/ part = "memos" /\ Memos!Init /\ Free13
     \/ part = "authorize" /\ Auth!Init /\ Free15
     \/ part = "http" /\ Http!Init
     \/ part = "ota" /\ Ota!Init /\ Free15
     \/ part = "lan" /\ Lan!Init /\ Free10
     \/ part = "toy" /\ TheToy!Init /\ Free13
     \/ part = "songs" /\ Songs!SongInit /\ Free7
     \/ part = "keys" /\ TheKeys!KeysInit /\ Free9
     \/ part = "battery" /\ Vbat!VbatInit /\ Free11
     \/ part = "volume" /\ Vol!VolumeInit /\ Free7
     \/ part = "codec" /\ TheCodec!CodecInit /\ Free11
     \/ part = "push" /\ Push!Init /\ Free12
     \/ part = "media data" /\ Data!Init
     \/ part = "m4a" /\ Song!Init /\ Free8
     \/ part = "progress" /\ Progress!ProgressInit /\ Free15
     \/ part = "events" /\ Events!EventInit /\ Free7
     \/ part = "start" /\ Starting!StartInit /\ Free9
  /\ part # "flash" => flash = Torn

\* One step of the part that runs.
ServicesNext ==
  \/ part = "buffer" /\ Next /\ UNCHANGED <<part, flashVars, rest0>>
  \/ part = "flash" /\ FlashNext /\ UNCHANGED <<part, vars, rest0>>
  \/ part = "cloud" /\ Cloud!Next /\ UNCHANGED <<part, vars, flashVars, rest18>>
  \/ part = "speech" /\ Speech!Next /\ UNCHANGED <<part, vars, flashVars, rest20>>
  \/ part = "memos" /\ Memos!Next /\ UNCHANGED <<part, vars, flashVars, rest13>>
  \/ part = "authorize" /\ Auth!Next /\ UNCHANGED <<part, vars, flashVars, rest15>>
  \/ part = "http" /\ Http!Next /\ UNCHANGED <<part, vars, flashVars>>
  \/ part = "ota" /\ Ota!Next /\ UNCHANGED <<part, vars, flashVars, rest15>>
  \/ part = "lan" /\ Lan!Next /\ UNCHANGED <<part, vars, flashVars, rest10>>
  \/ part = "toy" /\ TheToy!Next /\ UNCHANGED <<part, vars, flashVars, rest13>>
  \/ part = "songs" /\ Songs!SongNext /\ UNCHANGED <<part, vars, flashVars, rest7>>
  \/ part = "keys" /\ TheKeys!KeysNext /\ UNCHANGED <<part, vars, flashVars, rest9>>
  \/ part = "battery" /\ Vbat!VbatNext /\ UNCHANGED <<part, vars, flashVars, rest11>>
  \/ part = "volume" /\ Vol!VolumeNext /\ UNCHANGED <<part, vars, flashVars, rest7>>
  \/ part = "codec" /\ TheCodec!CodecNext /\ UNCHANGED <<part, vars, flashVars, rest11>>
  \/ part = "push" /\ Push!Next /\ UNCHANGED <<part, vars, flashVars, rest12>>
  \/ part = "media data" /\ Data!Next /\ UNCHANGED <<part, vars, flashVars>>
  \/ part = "m4a" /\ Song!Next /\ UNCHANGED <<part, vars, flashVars, rest8>>
  \/ part = "progress" /\ Progress!ProgressNext /\ UNCHANGED <<part, vars, flashVars, rest15>>
  \/ part = "events" /\ Events!EventNext /\ UNCHANGED <<part, vars, flashVars, rest7>>
  \/ part = "start" /\ Starting!StartNext /\ UNCHANGED <<part, vars, flashVars, rest9>>

ServicesSpec == ServicesInit /\ [][ServicesNext]_<<part, vars, flashVars, rest0>>
-----------------------------------------------------------------------------
\* Each part keeps its types.
ServicesTypeOK ==
  /\ TypeOK /\ FlashTypeOK
  /\ part = "cloud" => Cloud!CloudTypeOK
  /\ part = "speech" => Speech!AsrTypeOK
  /\ part = "memos" => Memos!MemoTypeOK
  /\ part = "authorize" => Auth!AuthTypeOK
  /\ part = "http" => Http!HttpTypeOK
  /\ part = "ota" => Ota!OtaTypeOK
  /\ part = "toy" => TheToy!ToyTypeOK
  /\ part = "codec" => TheCodec!CodecTypeOK
  /\ part = "push" => Push!PushTypeOK
  /\ part = "media data" => Data!MediaDataTypeOK
  /\ part = "m4a" => Song!M4ATypeOK
  /\ part = "progress" => Progress!ProgressTypeOK
  /\ part = "events" => Events!EventTypeOK
  /\ part = "start" => Starting!StartTypeOK

\* Sockets, memory, timers and the flash: on every path out of a call that
\* failed half way the service is back where it was.
WhatWasTakenIsGivenBack ==
  /\ part = "cloud" => Cloud!SessionIsReleased
  /\ part = "speech" => Speech!SessionHasOneConnection
  /\ part = "authorize" => Auth!AuthorizationIsOrderly
  /\ part = "http" => Http!KeptIsTimed
  /\ part = "ota" => Ota!UpdateIsUndone
  /\ part = "lan" => Lan!LanHasOneSocket
  /\ part = "start" => Starting!StartIsOrderly

\* What comes through the network, in pieces and over broken connections, is
\* what was sent, and a code that says so is true.
AnswersAreTrue ==
  /\ part = "cloud" => Cloud!CodeTellsTheTruth
  /\ part = "speech" => Speech!SpeechIsHeardInOrder
  /\ part = "http" => Http!BodyComesInOrder /\ Http!OkIsWhole
  /\ part = "ota" => Ota!UpdateIsWhole
  /\ part = "push" => Push!PushesAreDoneOnce
  /\ part = "media data" => Data!GoesOnWhereItWasCut
  /\ part = "m4a" => Song!SamplesAreWhole

\* What the child does and asks for has its effect, once.
ChildIsServed ==
  /\ part = "memos" => Memos!MemosAreRemembered /\ Memos!MemosSpeakOnce
  /\ part = "toy" => TheToy!SilenceEndsDialogue /\ TheToy!OneReaction
  /\ part = "songs" => Songs!EverySongHasItsTurn
  /\ part = "keys" => TheKeys!PressIsAnsweredOnce
  /\ part = "battery" => Vbat!ShutdownIsEarned
  /\ part = "volume" => Vol!VolumeIsHeard
  /\ part = "codec" => TheCodec!PlayerAndCodecAgree /\ TheCodec!SleeperIsPaused
  /\ part = "media data" => Data!EveryMediumEnds
  /\ part = "progress" => Progress!TimeIsCountedOnce
  /\ part = "events" => Events!AcceptedEventsRun
=============================================================================
