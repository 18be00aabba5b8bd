--------------------------- MODULE ChildServices ---------------------------
(***************************************************************************)
(* What the child hears and meets of the toy: the client that fetches the  *)
(* media, the codec that plays, the samples of a song on their way to it,  *)
(* the time a medium was played, the songs, modes, keys, volume, battery,  *)
(* the memos it asked for, and the loop in which events run.               *)
(*                                                                         *)
(* Each is a module of its own; they share s1, s2, ...: Services lets one  *)
(* of them run at a time.                                                  *)
(***************************************************************************)
EXTENDS Integers, Sequences, Shared

CONSTANTS
    MaxLen, BodyLen, ChunkSizes, Hosts, RESUME_COUNT_MAX, REDIRECTION_MAX,
    MaxMemos, MEMO_EVENT_MAX, MaxTimers, MaxTime, MaxStarts,
    ToyQueue, ToyNumbers, ToyOwed,
    MaxLinks,
    FallKeys, LongKeys, NoMessage,
    Readings, Levels, Low, low_power_max_cnt, AlertTimes, Delay,
    MIN_VOLUME, DEFAULT_VOLUME, MAX_VOLUME, UNIT_VOLUME, MaxChanges,
    CodecMedia,
    EventMax, ProgressTime,
    Posters, LoopQueue,
    SongHeader, Samples, FileLen, MIN_LENGTH, FIRST_LENGTH, PieceSizes, SongPositions, SongCuts

\* A buffer has room for a line end, and a chunk of the body is not empty.
ASSUME HttpAssumption ==
    /\ MaxLen \in Nat /\ MaxLen >= 2 /\ BodyLen \in Nat \ {0} /\ ChunkSizes \subseteq Nat \ {0}
    /\ RESUME_COUNT_MAX \in Nat /\ REDIRECTION_MAX \in Nat
ASSUME MemosAssumption ==
    /\ MaxMemos \in Nat /\ MEMO_EVENT_MAX \in Nat \ {0} /\ MaxTimers \in Nat
    /\ MaxTime \in Nat /\ MaxStarts \in Nat
ASSUME SongsAssumption == MaxLinks \in Nat
\* A key answers when it is pressed or when it is let go, not both.
ASSUME KeysAssumption ==
    /\ FallKeys \cap LongKeys = {}
    /\ NoMessage \notin [evt : {"KEY_PRESS", "KEY_RELEASE"}, idx : FallKeys \cup LongKeys]
ASSUME VolumeAssumption ==
    /\ MIN_VOLUME \in Int /\ MAX_VOLUME \in Int /\ UNIT_VOLUME \in Nat
    /\ DEFAULT_VOLUME \in MIN_VOLUME .. MAX_VOLUME
ASSUME ProgressAssumption == EventMax \in Nat /\ ProgressTime \in Nat
ASSUME ToyAssumption == ToyQueue \in Nat \ {0} /\ ToyNumbers \in Nat /\ ToyOwed \in Nat
ASSUME CodecAssumption == CodecMedia \in Nat
\* The mean leaves out the largest and the smallest reading; the second low mean
\* warns, so more than two must be needed to go off.
ASSUME BatteryAssumption ==
    /\ Readings \in Nat /\ Readings > 2 /\ Levels \subseteq Nat /\ Low \in Nat
    /\ low_power_max_cnt \in Nat \ {0, 1} /\ AlertTimes \in Nat /\ Delay \in Nat \ {0}
\* The threads that post are none of the other names.
ASSUME EventsAssumption ==
    /\ {"destroyer", "get", "ended", "deleted"} \cap Posters = {}
    /\ LoopQueue \in Nat
\* The samples lie behind the header, one behind the other.
ASSUME SongAssumption ==
    /\ SongHeader \in Nat \ {0} /\ FileLen \in Nat
    /\ Samples \in Seq([offset : Nat, size : Nat])
    /\ \A i \in DOMAIN Samples :
         /\ Samples[i].offset >= SongHeader
         /\ Samples[i].offset + Samples[i].size <= FileLen
         /\ \A j \in DOMAIN Samples : i < j => Samples[i].offset + Samples[i].size <= Samples[j].offset
    /\ MIN_LENGTH \in Nat /\ FIRST_LENGTH \in Nat /\ SongCuts \in Nat
    /\ PieceSizes \subseteq Nat \ {0} /\ SongPositions \subseteq Nat

Http == INSTANCE HttpClient WITH
    at <- s1, retries <- s2, redirects <- s3, url <- s4, port <- s5,
    pos <- s6, recv_size <- s7, content_len <- s8, chunked <- s9,
    connection <- s10, keeping <- s11, stream <- s12, buf <- s13,
    chunk_buf <- s14, chunk_size <- s15, left <- s16, stop <- s17,
    ret <- s18, got <- s19, inOrder <- s20, excused <- s21
Memos == INSTANCE MemoService WITH
    status <- s1, event <- s2, cur_evt <- s3, saying <- s4, unsaved <- s5,
    running <- s6, timers <- s7, saved <- s8, starts <- s9, asked <- s10,
    fate <- s11, played <- s12, excused <- s13
TheToy == INSTANCE Toy WITH
    QueueSize <- ToyQueue, MaxNumber <- ToyNumbers, MaxOwed <- ToyOwed,
    queue <- s1, status <- s2, playing <- s3, asked <- s4, question <- s5,
    arming <- s6, timer <- s7, NO_ASR_TIMES <- s8, record_sn <- s9,
    owed <- s10, unheard <- s11, reactions <- s12, excused <- s13
Songs == INSTANCE SongQueue WITH
    songs <- s1, cur <- s2, asked <- s3, heard <- s4, turns <- s5,
    popped <- s6, clearing <- s7
TheKeys == INSTANCE Keys WITH
    down <- s1, s_key_msg <- s2, signalled <- s3, idx <- s4, timer <- s5,
    isLongPress <- s6, cleared <- s7, owed <- s8, overwritten <- s9
Vbat == INSTANCE Battery WITH
    _vbat_status <- s1, lowPowerCnt <- s2, alert_times <- s3,
    started <- s4, warned <- s5, lowReadings <- s6, reads <- s7, sum <- s8,
    ival_max <- s9, ival_min <- s10, lows <- s11
Vol == INSTANCE Volume WITH
    VOLUME <- s1, s_volume <- s2, told <- s3, status <- s4, call <- s5,
    changes <- s6, deaf <- s7
TheCodec == INSTANCE Codec WITH
    MaxMedia <- CodecMedia, status <- s1, codec <- s2, signal <- s3,
    thread <- s4, stream <- s5, media <- s6, asked <- s7, main <- s8,
    old <- s9, rec <- s10, overtaken <- s11
Progress == INSTANCE PlayProgress WITH
    MaxTime <- ProgressTime, now <- s1, last <- s2, played <- s3,
    kept <- s4, stucked <- s5, empty <- s6, goesOn <- s7, timer <- s8,
    events <- s9, status <- s10, waits <- s11, begun <- s12, base <- s13,
    stuckTime <- s14, left <- s15
Events == INSTANCE EventLoop WITH
    QueueMax <- LoopQueue, handler <- s1, pc <- s2, terminate <- s3,
    eventQueue <- s4, loop <- s5, accepted <- s6, handled <- s7
Song == INSTANCE PlayM4A WITH
    Header <- SongHeader, Positions <- SongPositions, MaxCuts <- SongCuts,
    m4a <- s1, previous <- s2, status <- s3, at <- s4, cuts <- s5,
    codec <- s6, from <- s7, short <- s8
=============================================================================
