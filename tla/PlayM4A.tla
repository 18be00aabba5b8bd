------------------------------- MODULE PlayM4A -------------------------------
(***************************************************************************)
(* A song in an M4A file on its way through the player                     *)
(* (baidu_media_play_m4a.cpp): the header is collected, a piece at a time, *)
(* until it can be parsed; then the samples are cut out of the pieces and  *)
(* go to the codec one by one.  MediaData says how the pieces are made and *)
(* when a song is cut and goes on; here the message is handled at once.    *)
(*                                                                         *)
(* A byte is its place in the file, and 0 what fills a piece of the header.*)
(***************************************************************************)
EXTENDS Integers, Sequences, FiniteSetsExt

CONSTANTS
    Header,        \* length of the boxes ftyp and moov
    Samples,       \* the samples of the track: [offset, size]
    FileLen,       \* length of the file
    MIN_LENGTH,    \* a piece of the header is written at this length
    FIRST_LENGTH,  \* the least first piece
    PieceSizes,    \* sizes of the pieces that come
    Positions,     \* where a seek goes
    MaxCuts        \* bound: cuts and seeks

NoSong == [pos |-> -1, left |-> 0, saved |-> 0, buffer |-> <<>>, data |-> <<>>,
           parsed |-> FALSE, sample |-> 1]

VARIABLES
    m4a,       \* s_media_m4a
    previous,  \* s_previous_m4a
    status,    \* of the player, and "failed" with s_error
    at,        \* bytes the manager has handed over
    cuts,      \* cuts so far
    codec,     \* history: the samples the codec got since the last seek
    from,      \* history: the sample it should begin with
    short      \* history: a piece of the header was short and not its last one
m4aVars == <<m4a, previous, status, at, cuts, codec, from, short>>
-----------------------------------------------------------------------------
Lesser(a, b) == IF a < b THEN a ELSE b
Bytes(a, b) == [k \in 1..b - a |-> a + k]
Count == Len(Samples)
Zeros(n) == [k \in 1..n |-> 0]

\* m4a_header_save: what belongs to the header goes into the buffer, and what is
\* behind it waits as _p_buff_data.
HeaderSave(o, piece) ==
    LET n == Lesser(Len(piece), o.left)
        padding == IF n < MIN_LENGTH THEN MIN_LENGTH - n ELSE 0
    IN [o EXCEPT !.buffer = @ \o SubSeq(piece, 1, n) \o Zeros(padding),
                 !.left = @ - n, !.saved = @ + n,
                 !.data = IF n < Len(piece) THEN SubSeq(piece, n + 1, Len(piece)) ELSE @]

\* m4a_header_parse: the unpacker reads the buffer.
Readable(o) == SubSeq(o.buffer, 1, Header) = Bytes(0, Header)
HeaderParse(o) == IF o.left = 0 /\ ~o.parsed THEN [o EXCEPT !.parsed = TRUE, !.sample = 1] ELSE o
Parses(o) == o.left = 0 /\ ~o.parsed => Readable(o)

\* The samples that end in the first pos bytes of the file, the first that does not,
\* and what is kept of it.
Unplayed(o) == {i \in o.sample..Count : Samples[i].offset + Samples[i].size > o.pos}
NextSample(o) == IF Unplayed(o) = {} THEN Count + 1 ELSE Min(Unplayed(o))
Cut(had, o, i) ==
    LET first == Len(had) - o.pos + Samples[i].offset
    IN [k \in 1..Samples[i].size |->
          IF first + k \in 1..Len(had) THEN had[first + k] ELSE 0]
\* A sample that is cut in the middle is forgotten.
DataDropped(o) == <<>>
DataKept(o) == SubSeq(o.data, Len(o.data) - (o.pos - Samples[o.sample].offset) + 1, Len(o.data))
Started(o) == o.sample <= Count /\ Samples[o.sample].offset < o.pos
\* m4a_frame_to_codec: the object afterwards and the samples it gave out.
FrameToCodec(o, piece) ==
    LET had == o.data \o piece
        next == NextSample(o)
        new == [o EXCEPT !.data = had, !.sample = next]
    IN IF ~o.parsed THEN [song |-> o, out |-> <<>>]
       ELSE [song |-> [new EXCEPT !.data = IF Started(new) THEN DataKept(new) ELSE <<>>],
             out |-> [k \in 1..next - o.sample |-> Cut(had, o, o.sample + k - 1)]]
-----------------------------------------------------------------------------
\* A piece of the header that is not its last one and leaves a gap.
Gap(o, n) == n < o.left /\ n < MIN_LENGTH
At(o, b) == [o EXCEPT !.pos = b]
Taken(o, piece) == At(o, o.pos + Len(piece))

\* Here the song ends: media_play_error() makes the manager stop, and the object
\* is deleted with what was stored of the song.
Fail == status' = "failed" /\ m4a' = NoSong /\ UNCHANGED codec
\* The step of the header, or of the samples.
Give(o, piece) ==
    IF o.left > 0
      THEN IF Parses(HeaderSave(o, piece))
             THEN m4a' = HeaderParse(HeaderSave(o, piece)) /\ UNCHANGED codec
                  /\ status' = "PLAYING"
             ELSE Fail
    ELSE LET r == FrameToCodec(o, piece)
         IN m4a' = r.song /\ codec' = codec \o r.out /\ status' = "PLAYING"
Moved(o, n) == at' = at + n /\ short' = (short \/ Gap(o, n))
Piece(n) == Bytes(at, Lesser(at + n, FileLen))

\* m4a_file_start, with the boxes where they should be.
FileStart(n) ==
    /\ status = "IDLE" /\ at = 0
    /\ LET new == [NoSong EXCEPT !.pos = 0, !.left = Header]
           piece == Piece(n)
       IN /\ previous' = NoSong
          /\ IF Len(piece) < FIRST_LENGTH THEN Fail ELSE Give(Taken(new, piece), piece)
          /\ Moved(new, Len(piece))
    /\ codec = <<>> /\ UNCHANGED <<cuts, from>>

\* m4a_file_play.
FilePlay(n) ==
    /\ status = "PLAYING" /\ at < FileLen
    /\ Give(Taken(m4a, Piece(n)), Piece(n))
    /\ Moved(m4a, Len(Piece(n))) /\ UNCHANGED <<previous, cuts, from>>

\* The first piece after a cut.
Continue(n) ==
    /\ status = "IDLE" /\ at > 0
    /\ IF previous.pos < 0 THEN Fail /\ UNCHANGED <<at, short>>
       ELSE IF at = FileLen THEN Fail /\ UNCHANGED <<at, short>>
       ELSE Give(Taken(previous, Piece(n)), Piece(n)) /\ Moved(previous, Len(Piece(n)))
    /\ previous' = NoSong /\ UNCHANGED <<cuts, from>>

\* m4a_file_end with the last piece, or with none.
FileEnd(n) ==
    /\ status = "PLAYING" /\ at + n >= FileLen
    /\ LET piece == Piece(n)
           o == Taken(m4a, piece)
       IN /\ IF piece # <<>> /\ o.left > 0
               THEN status' = (IF Parses(HeaderSave(o, piece)) THEN "ended" ELSE "failed")
                    /\ UNCHANGED codec
             ELSE codec' = codec \o (IF piece = <<>> THEN <<>> ELSE FrameToCodec(o, piece).out)
                  /\ status' = "ended"
          /\ Moved(m4a, Len(piece))
    /\ m4a' = NoSong /\ UNCHANGED <<previous, cuts, from>>

\* The player is stopped; the message STOP comes later and puts the song away.
Stop ==
    /\ status = "PLAYING" /\ cuts < MaxCuts /\ cuts' = cuts + 1
    /\ status' = "IDLE" /\ previous' = m4a /\ m4a' = NoSong
    /\ UNCHANGED <<at, codec, from, short>>
-----------------------------------------------------------------------------
\* m4a_file_seek, for the song that was cut by the seek: the object afterwards.
\* Forward to the first sample from there on, or back to the last one before.
SeekTo(o, to) ==
    LET ahead == {i \in o.sample..Count : Samples[i].offset >= to}
        behind == {i \in 1..o.sample : Samples[i].offset < to}
        sample == IF to > o.pos THEN IF ahead = {} THEN Count + 1 ELSE Min(ahead)
                  ELSE IF behind = {} THEN 0 ELSE Max(behind)
        there == IF sample = 0 THEN 1 ELSE Lesser(sample, Count)
    IN CASE to = o.pos -> o
         [] to # o.pos /\ (to <= o.saved \/ o.left > 0) -> [o EXCEPT !.pos = o.saved, !.sample = 1]
         [] to # o.pos /\ to > o.saved /\ o.left = 0 /\ o.sample > Count -> [o EXCEPT !.pos = 0]
         [] OTHER -> [o EXCEPT !.pos = Samples[there].offset, !.sample = sample]
\* Back to between the header and the first sample leaves the sample -1, with which
\* the tables of the unpacker are read: left out.
Seek(to) ==
    /\ status = "IDLE" /\ at > 0 /\ previous.pos > 0 /\ SeekTo(previous, to).sample > 0
    /\ cuts < MaxCuts /\ cuts' = cuts + 1
    /\ previous' = SeekTo(previous, to) /\ at' = previous'.pos
    /\ codec' = <<>> /\ from' = IF at' = 0 THEN 1 ELSE previous'.sample
    /\ UNCHANGED <<m4a, status, short>>
-----------------------------------------------------------------------------
Init ==
    /\ m4a = NoSong /\ previous = NoSong /\ status = "IDLE" /\ at = 0 /\ cuts = 0
    /\ codec = <<>> /\ from = 1 /\ short = FALSE
Next ==
    \/ \E n \in PieceSizes : FileStart(n) \/ FilePlay(n) \/ Continue(n)
    \/ \E n \in PieceSizes \cup {0} : FileEnd(n)
    \/ Stop \/ \E to \in Positions : Seek(to)
Spec == Init /\ [][Next]_m4aVars
-----------------------------------------------------------------------------
M4ATypeOK ==
    /\ status \in {"IDLE", "PLAYING", "ended", "failed"} /\ at \in 0..FileLen
    /\ m4a.sample \in 0..Count + 1 /\ (status = "PLAYING" => m4a.pos = at)

\* The codec gets every sample of the song whole and in order, however the pieces
\* cut it, when the song is cut and goes on, and from where a seek goes; a song
\* whose header came in full pieces is played to its end.  Not so one whose
\* header ends in its last piece, and one that goes on at the end of its file.
SamplesAreWhole ==
    /\ \A k \in DOMAIN codec :
         LET s == Samples[from + k - 1] IN codec[k] = Bytes(s.offset, s.offset + s.size)
    /\ status = "ended" => from + Len(codec) = Count + 1 \/ codec = <<>>
    /\ status = "failed" => short \/ at < FIRST_LENGTH \/ at = FileLen

\* What every step keeps of the song o that plays, or that was cut: as long as
\* the header has not come it is collected, and afterwards what has come of the
\* next sample is the end of _p_buff_data.
EndsWith(data, a, b) ==
    Len(data) >= b - a /\ \A k \in a + 1..b : data[Len(data) - b + k] = k
SongHolds(o) ==
    /\ o \in [pos : 0..FileLen, left : 0..Header, saved : 0..Header, buffer : Seq(Nat),
              data : Seq(Nat), parsed : BOOLEAN, sample : 1..Count + 1]
    /\ o.saved = Header - o.left /\ o.parsed = (o.left = 0)
    /\ o.left > 0 => o.pos = o.saved /\ o.data = <<>> /\ o.sample = 1
    /\ o.left > 0 /\ ~short => o.buffer = Bytes(0, o.saved)
    /\ o.left = 0 => o.pos >= Header
    /\ o.left = 0 /\ o.sample <= Count /\ Samples[o.sample].offset < o.pos =>
         EndsWith(o.data, Samples[o.sample].offset, o.pos)
\* All samples from there on up to the one that comes next have gone to the codec.
CodecHas(o) ==
    /\ o.pos = at /\ Len(codec) = o.sample - from
    /\ o.left > 0 => codec = <<>>
    /\ codec # <<>> /\ o.sample <= Count =>
         Samples[o.sample].offset + Samples[o.sample].size > at
WholeSamples ==
    \A k \in DOMAIN codec :
       LET s == Samples[from + k - 1] IN codec[k] = Bytes(s.offset, s.offset + s.size)
SongInv ==
    /\ at \in 0..FileLen /\ from \in 1..Count + 1 /\ codec \in Seq(Seq(Nat))
    /\ short \in BOOLEAN
    /\ status \in {"IDLE", "PLAYING", "ended", "failed"} /\ WholeSamples
    /\ status # "PLAYING" => m4a = NoSong
    /\ status = "PLAYING" => SongHolds(m4a) /\ CodecHas(m4a)
    /\ status = "IDLE" /\ at > 0 => SongHolds(previous) /\ CodecHas(previous)
    /\ status = "IDLE" /\ at = 0 => codec = <<>> /\ from = 1
    /\ status = "ended" => from + Len(codec) = Count + 1 \/ codec = <<>>
    /\ status = "failed" => short \/ at < FIRST_LENGTH \/ at = FileLen
=============================================================================
