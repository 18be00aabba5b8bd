---------------------------- MODULE MediaPlayBuffer ----------------------------
(***************************************************************************)
(* The byte buffer between the media data manager, which writes, and the   *)
(* media player, which reads (dueros/src/media-player).  A thread that     *)
(* finds too little room, or too few bytes, leaves the mutex, sets the     *)
(* flag _wait, which both threads share, and waits on the one semaphore.   *)
(*                                                                         *)
(* The stream is a sequence of chunks, a message header and then its data  *)
(* if it has any; the header says how much data follows, so the reader     *)
(* asks for exactly the chunks that are written.  A byte is represented by *)
(* its number in the stream.                                               *)
(***************************************************************************)
EXTENDS Integers, Sequences

CONSTANTS
  Size,         \* _BUFFER_SIZE
  HeaderSize,   \* sizeof(MediaPlayerMessage)
  DataSizes,    \* the sizes of the data after a header that has some
  MaxChunks,    \* bound: chunks in a behaviour
  WriterFirst   \* whether the writer preempts the reader, as its priority says

ASSUME SizeAssumption ==
  /\ Size \in Nat \ {0}
  /\ HeaderSize \in 1 .. Size /\ DataSizes \subseteq 1 .. Size
ASSUME ChoiceAssumption == MaxChunks \in Nat /\ WriterFirst \in BOOLEAN

VARIABLES
  start, end,   \* _start and _end, both -1 when the buffer is empty
  buf,          \* the bytes of _buffer
  wait,         \* _wait
  sem,          \* the count of _semaphore
  writer,       \* where the writer is: one of Places
  reader,       \* where the reader is: one of Places
  chunks,       \* history: the sizes of the chunks of all messages begun
  sent,         \* history: how many chunks were written
  readChunks,   \* history: how many chunks were read
  written,      \* history: how many bytes were written
  got           \* history: the bytes the reader got, in order

vars == <<start, end, buf, wait, sem, writer, reader, chunks, sent, readChunks, written, got>>
store == <<start, end, buf>>
histories == <<chunks, sent, readChunks, written, got>>

Slots == 0 .. Size - 1

\* A thread is outside, about to take the mutex, out of it with too little
\* room or data, out of it with _wait set, or blocked in _semaphore.wait().
Places == {"idle", "try", "short", "marked", "asleep"}

TypeOK ==
  /\ start \in -1 .. Size - 1 /\ end \in -1 .. Size - 1
  /\ buf \in [Slots -> Nat]
  /\ wait \in BOOLEAN /\ sem \in 0 .. 1
  /\ writer \in Places /\ reader \in Places
  /\ chunks \in Seq(1 .. Size) /\ sent \in 0 .. Len(chunks) /\ readChunks \in 0 .. sent
  /\ written \in Nat /\ got \in Seq(Nat)

Init ==
  /\ start = -1 /\ end = -1 /\ buf = [i \in Slots |-> 0]
  /\ wait = FALSE /\ sem = 0
  /\ writer = "idle" /\ reader = "idle"
  /\ chunks = <<>> /\ sent = 0 /\ readChunks = 0 /\ written = 0 /\ got = <<>>

\* Mutant: a full buffer, _start = _end, is taken for an empty one.
ValidEmptyWhenEqual == IF end >= start THEN end - start
                       ELSE IF start # -1 THEN Size - start + end ELSE 0

\* Mutant: the flag stays set after the release.
ReleaseOtherKeepsFlag(other) ==
  /\ sem' = IF wait /\ other # "asleep" THEN sem + 1 ELSE sem
  /\ UNCHANGED wait

\* The room and the bytes read() and write() compute under the mutex.
Free == IF start = -1 THEN Size
        ELSE IF end > start THEN Size - end + start ELSE start - end
Valid == IF end > start THEN end - start
         ELSE IF start # -1 THEN Size - start + end ELSE 0

\* Mutant: the token is released whether or not anybody set the flag.
ReleaseOtherAlways(other) ==
  /\ sem' = IF other # "asleep" THEN sem + 1 ELSE sem
  /\ wait' = FALSE

\* What a thread that moved its chunk does for the other one before it unlocks.
\* A semaphore with a blocked thread hands the token to it.
ReleaseOther(other) ==
  /\ sem' = IF wait /\ other # "asleep" THEN sem + 1 ELSE sem
  /\ wait' = FALSE

AfterRelease(other) == IF wait /\ other = "asleep" THEN "try" ELSE other

-----------------------------------------------------------------------------
\* A new message, or the data that the header just written announced.
WriteStart ==
  /\ writer = "idle"
  /\ IF sent < Len(chunks) THEN UNCHANGED chunks
     ELSE /\ Len(chunks) < MaxChunks
          /\ \E data \in {<<>>} \cup {<<n>> : n \in DataSizes} :
                chunks' = chunks \o <<HeaderSize>> \o data
  /\ writer' = "try"
  /\ UNCHANGED <<store, wait, sem, reader, sent, readChunks, written, got>>

\* The bytes of a chunk of n bytes that go around the end of the buffer.
Stored(from, n) ==
  [i \in Slots |->
     LET k == IF i >= from THEN i - from ELSE i + Size - from
     IN  IF k < n THEN written + k + 1 ELSE buf[i]]

\* The critical section of write().
WriteTry ==
  /\ writer = "try"
  /\ LET n == chunks[sent + 1]
         from == IF start = -1 THEN 0 ELSE end
     IN /\ start' = IF start = -1 THEN 0 ELSE start
        /\ IF Free >= n
             THEN /\ buf' = Stored(from, n)
                  /\ end' = (from + n) % Size
                  /\ ReleaseOther(reader)
                  /\ reader' = AfterRelease(reader)
                  /\ writer' = "idle"
                  /\ sent' = sent + 1 /\ written' = written + n
             ELSE /\ end' = from
                  /\ writer' = "short"
                  /\ UNCHANGED <<buf, wait, sem, reader, sent, written>>
  /\ UNCHANGED <<chunks, readChunks, got>>

\* _wait is set after the mutex was left.
WriteMark ==
  /\ writer = "short"
  /\ wait' = TRUE
  /\ writer' = "marked"
  /\ UNCHANGED <<store, sem, reader, histories>>

WriteWait ==
  /\ writer = "marked"
  /\ IF sem > 0 THEN sem' = sem - 1 /\ writer' = "try"
                ELSE writer' = "asleep" /\ UNCHANGED sem
  /\ UNCHANGED <<store, wait, reader, histories>>

-----------------------------------------------------------------------------
\* The writer's thread has the higher priority: while it can run, the reader
\* does not.
ReaderRuns ==
  WriterFirst => writer \in {"idle", "asleep"}

\* The reader asks for the next chunk, which need not be written yet: the size
\* of a header is fixed, that of the data was in the header.
Wanted == IF readChunks < Len(chunks) THEN chunks[readChunks + 1] ELSE HeaderSize

ReadStart ==
  /\ ReaderRuns /\ reader = "idle"
  /\ reader' = "try"
  /\ UNCHANGED <<store, wait, sem, writer, histories>>

\* Mutant: the position wraps to the wrong slot.
ReadPastEnd(n) == [i \in 1 .. n |-> buf[(start + i) % Size]]

ReadBytes(n) == [i \in 1 .. n |-> buf[(start + i - 1) % Size]]

\* The critical section of read().
ReadTry ==
  /\ ReaderRuns /\ reader = "try"
  /\ IF Valid >= Wanted
       THEN LET next == (start + Wanted) % Size
            IN /\ got' = got \o ReadBytes(Wanted)
               /\ start' = IF next = end THEN -1 ELSE next
               /\ end' = IF next = end THEN -1 ELSE end
               /\ ReleaseOther(writer)
               /\ writer' = AfterRelease(writer)
               /\ reader' = "idle"
               /\ readChunks' = readChunks + 1
       ELSE /\ reader' = "short"
            /\ UNCHANGED <<start, end, wait, sem, writer, readChunks, got>>
  /\ UNCHANGED <<buf, chunks, sent, written>>

\* Mutant: the reader forgets to set the flag.
ReadMarkForgotten ==
  /\ ReaderRuns /\ reader = "short"
  /\ reader' = "marked"
  /\ UNCHANGED <<store, wait, sem, writer, histories>>

ReadMark ==
  /\ ReaderRuns /\ reader = "short"
  /\ wait' = TRUE
  /\ reader' = "marked"
  /\ UNCHANGED <<store, sem, writer, histories>>

ReadWait ==
  /\ ReaderRuns /\ reader = "marked"
  /\ IF sem > 0 THEN sem' = sem - 1 /\ reader' = "try"
                ELSE reader' = "asleep" /\ UNCHANGED sem
  /\ UNCHANGED <<store, wait, writer, histories>>

Write == WriteStart \/ WriteTry \/ WriteMark \/ WriteWait
Read == ReadStart \/ ReadTry \/ ReadMark \/ ReadWait
Next == Write \/ Read

Spec == Init /\ [][Next]_vars

\* Both threads are scheduled as long as they can run.
FairSpec == Spec /\ WF_vars(WriteTry \/ WriteMark \/ WriteWait) /\ WF_vars(Read)

-----------------------------------------------------------------------------
\* The reader gets every byte that was written, once and in order, however
\* chunks wrap around the end of the buffer and whoever waits for whom; and
\* _start and _end always tell how many bytes are stored, what was written and
\* not yet read: equal positions are a full buffer and -1 an empty one.
BytesInOrder ==
  /\ \A i \in DOMAIN got : got[i] = i
  /\ Valid = written - Len(got) /\ Free + Valid = Size

\* A token of the semaphore is there for a thread on its way to wait: no thread
\* sleeps while there is one, and none is left over when nobody is going to wait.
TokenIsOwed == sem > 0 => "marked" \in {writer, reader} /\ "asleep" \notin {writer, reader}

\* A thread that sleeps is announced by the flag: the next chunk the other one
\* moves wakes it.
SleeperIsFlagged == "asleep" \in {writer, reader} => wait

\* Both: whoever waits in write() or read() is owed a wakeup, and nobody else.
WakeupIsOwed == TokenIsOwed /\ SleeperIsFlagged

\* baidu_media_play_buffer.h:34 "read buffer until buffer has enough data": a
\* reader whose chunk is in the buffer gets it in the end.
EnoughDataIsRead ==
  (reader = "asleep" /\ readChunks < sent /\ Valid >= Wanted) ~> reader = "idle"
=============================================================================
