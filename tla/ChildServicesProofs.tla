------------------------- MODULE ChildServicesProofs --------------------------
(***************************************************************************)
(* What the child hears and meets of the toy, for every medium, buffer and *)
(* number of memos, keys, steps of the volume, readings and threads: the   *)
(* inductive invariant of the client that fetches the media, of each       *)
(* service of ChildServices, and of the recorder, and what it promises.    *)
(* ServicesProofs puts the services together.                              *)
(***************************************************************************)
EXTENDS ChildServices, Recorder, FiniteSetTheorems, SequenceTheorems,
        WellFoundedInduction, TLAPS

(* HTTP: the medium is what is written, in order.                         *)

\* What is behind the first e elements of a sequence.
LEMMA HttpBehind ==
  ASSUME NEW S, NEW s \in Seq(S), NEW e \in Nat, e <= Len(s)
  PROVE  /\ SubSeq(s, e + 1, Len(s)) \in Seq(S)
         /\ Len(SubSeq(s, e + 1, Len(s))) = Len(s) - e
         /\ \A i \in 1 .. Len(s) - e : SubSeq(s, e + 1, Len(s))[i] = s[i + e]
<1>1. Len(s) \in Nat /\ \A i \in e + 1 .. Len(s) : s[i] \in S
  BY ElementOfSeq, LenProperties
<1>2. e + 1 \in Int /\ Len(s) \in Int
  BY <1>1
<1> DEFINE l == Len(s)  b == e + 1
<1> HIDE DEF l, b
<1>3. /\ SubSeq(s, b, l) \in Seq(S)
      /\ Len(SubSeq(s, b, l)) = IF b <= l THEN l - b + 1 ELSE 0
      /\ \A i \in 1 .. l - b + 1 : SubSeq(s, b, l)[i] = s[b + i - 1]
  BY <1>1, <1>2, SubSeqProperties DEF l, b
<1>4. l \in Nat /\ e <= l /\ b = e + 1
  BY <1>1 DEF l, b
<1>5. (IF b <= l THEN l - b + 1 ELSE 0) = l - e /\ l - b + 1 = l - e
  BY ONLY <1>4, e \in Nat
<1>6. \A i \in 1 .. l - e : b + i - 1 = i + e
  BY ONLY <1>4, e \in Nat
<1> QED BY <1>3, <1>5, <1>6 DEF l, b

\* The first n elements of a sequence.
LEMMA HttpFront ==
  ASSUME NEW S, NEW s \in Seq(S), NEW n \in Nat, n <= Len(s)
  PROVE  /\ SubSeq(s, 1, n) \in Seq(S) /\ Len(SubSeq(s, 1, n)) = n
         /\ \A i \in 1 .. n : SubSeq(s, 1, n)[i] = s[i]
<1>1. \A i \in 1 .. n : s[i] \in S
  BY ElementOfSeq, LenProperties
<1>2. /\ SubSeq(s, 1, n) \in Seq(S)
      /\ Len(SubSeq(s, 1, n)) = IF 1 <= n THEN n - 1 + 1 ELSE 0
      /\ \A i \in 1 .. n - 1 + 1 : SubSeq(s, 1, n)[i] = s[1 + i - 1]
  BY <1>1, SubSeqProperties
<1>3. (IF 1 <= n THEN n - 1 + 1 ELSE 0) = n /\ n - 1 + 1 = n /\ \A i \in 1 .. n : 1 + i - 1 = i
  OBVIOUS
<1> QED BY <1>2, <1>3

\* A set of numbers has a least one.
LEMMA LeastOf ==
  ASSUME NEW T, T \subseteq Nat, T # {}
  PROVE  \E m \in T : \A n \in T : m <= n
<1>1. PICK m \in T : \A n \in T : <<n, m>> \notin OpToRel(<, Nat)
  BY WFMin, NatLessThanWellFounded, Zenon
<1>2. \A n \in T : ~(n < m)
  BY <1>1, Zenon DEF OpToRel
<1> QED BY <1>2

(* What a server sends in chunks.                                         *)

\* The sizes are as assumed.
LEMMA HttpSizes ==
  /\ MaxLen \in Nat /\ MaxLen >= 2 /\ BodyLen \in Nat /\ BodyLen >= 1
  /\ RESUME_COUNT_MAX \in Nat /\ REDIRECTION_MAX \in Nat
  /\ \A c \in ChunkSizes : c \in Nat /\ c >= 1
BY HttpAssumption

\* The cuts of a layout.
LEMMA HttpCuts ==
  ASSUME NEW n \in Nat, NEW ends \in Http!Layouts(n)
  PROVE  /\ Len(ends) \in 0 .. n /\ DOMAIN ends = 1 .. Len(ends)
         /\ \A j \in 1 .. Len(ends) : ends[j] \in 1 .. n
         /\ \A i, j \in 1 .. Len(ends) : i < j => ends[i] < ends[j]
         /\ \A j \in 1 .. Len(ends) : Http!SizeIn(ends, j) \in ChunkSizes
         /\ n = Http!Start(ends, Len(ends) + 1)
<1>1. PICK m \in 0 .. n : ends \in [1 .. m -> 1 .. n]
  BY DEF Http!Layouts
<1>2. ends \in Seq(1 .. n) /\ Len(ends) = m /\ DOMAIN ends = 1 .. m
  BY <1>1
<1>3. /\ n = Http!Start(ends, Len(ends) + 1)
      /\ \A i, j \in DOMAIN ends : i < j => ends[i] < ends[j]
      /\ \A j \in DOMAIN ends : Http!SizeIn(ends, j) \in ChunkSizes
  BY DEF Http!Layouts
<1>4. \A j \in 1 .. m : ends[j] \in 1 .. n
  BY <1>1
<1> QED BY <1>2, <1>3, <1>4

\* Where the chunks begin and how long they are.
LEMMA HttpStarts ==
  ASSUME NEW n \in Nat, NEW ends \in Http!Layouts(n), NEW j \in 1 .. Len(ends) + 1
  PROVE  /\ Http!Start(ends, j) \in Nat /\ Http!SizeIn(ends, j) \in Nat
         /\ Http!Start(ends, j) + Http!SizeIn(ends, j) <= n
         /\ j <= Len(ends) => /\ Http!SizeIn(ends, j) > 0
                              /\ Http!Start(ends, j + 1) = Http!Start(ends, j) + Http!SizeIn(ends, j)
         /\ j = Len(ends) + 1 => Http!SizeIn(ends, j) = 0 /\ Http!Start(ends, j) = n
<1>1. /\ Len(ends) \in Nat /\ j \in Nat /\ j >= 1 /\ j <= Len(ends) + 1
      /\ j - 1 \in Nat /\ j - 1 <= Len(ends) /\ (j # 1 => j - 1 \in 1 .. Len(ends)) /\ j + 1 - 1 = j /\ j + 1 # 1
  BY HttpCuts
<1>2. Http!Start(ends, j) \in Nat /\ Http!Start(ends, j) <= n
  <2>1. j = 1 => Http!Start(ends, j) = 0
    BY DEF Http!Start
  <2>2. j # 1 => Http!Start(ends, j) = ends[j - 1] /\ ends[j - 1] \in 1 .. n
    BY <1>1, HttpCuts DEF Http!Start
  <2> QED BY <2>1, <2>2
<1>3. CASE j = Len(ends) + 1
  <2>1. j \notin DOMAIN ends
    BY <1>1, <1>3, HttpCuts
  <2>2. Http!SizeIn(ends, j) = 0
    BY <2>1 DEF Http!SizeIn
  <2>3. Http!Start(ends, j) = n
    BY <1>3, HttpCuts
  <2> QED BY <1>1, <1>2, <1>3, <2>2, <2>3
<1>4. CASE j <= Len(ends)
  <2>1. j \in 1 .. Len(ends) /\ j \in DOMAIN ends
    BY <1>1, <1>4, HttpCuts
  <2>2. Http!SizeIn(ends, j) = ends[j] - Http!Start(ends, j)
    BY <2>1 DEF Http!SizeIn
  <2>3. Http!Start(ends, j + 1) = ends[j]
    BY <1>1 DEF Http!Start
  <2>4. Http!SizeIn(ends, j) \in Nat /\ Http!SizeIn(ends, j) >= 1
    BY <2>1, HttpCuts, HttpSizes
  <2>5. ends[j] \in Nat /\ ends[j] <= n
    BY <2>1, HttpCuts
  <2> QED BY <1>1, <1>2, <1>4, <2>2, <2>3, <2>4, <2>5
<1> QED BY <1>1, <1>3, <1>4

\* A chunk and its frame lie before every later one.
LEMMA HttpOffsets ==
  ASSUME NEW n \in Nat, NEW ends \in Http!Layouts(n), NEW j \in 1 .. Len(ends) + 1
  PROVE  /\ Http!Offset(ends, j) \in Nat
         /\ j <= Len(ends) => Http!Offset(ends, j + 1) = Http!Offset(ends, j) + Http!SizeIn(ends, j) + 5
         /\ j = 1 => Http!Offset(ends, j) = 0
<1>1. Len(ends) \in Nat /\ j \in Nat /\ j >= 1
  BY HttpCuts
<1>2. Http!Start(ends, j) \in Nat /\ Http!SizeIn(ends, j) \in Nat
      /\ (j <= Len(ends) => Http!Start(ends, j + 1) = Http!Start(ends, j) + Http!SizeIn(ends, j))
  BY HttpStarts
<1>3. /\ Http!Offset(ends, j) = Http!Start(ends, j) + 5 * (j - 1)
      /\ Http!Offset(ends, j + 1) = Http!Start(ends, j + 1) + 5 * (j + 1 - 1)
  BY DEF Http!Offset
<1>4. j = 1 => Http!Start(ends, j) = 0
  BY DEF Http!Start
<1> QED BY <1>1, <1>2, <1>3, <1>4

\* A later chunk begins behind the end of an earlier one.
LEMMA HttpOffsetsGrow ==
  ASSUME NEW n \in Nat, NEW ends \in Http!Layouts(n), NEW i \in 1 .. Len(ends) + 1,
         NEW j \in 1 .. Len(ends) + 1, i < j
  PROVE  Http!Offset(ends, i) + Http!SizeIn(ends, i) + 5 <= Http!Offset(ends, j)
<1>1. Len(ends) \in Nat /\ i \in Nat /\ j \in Nat /\ i >= 1 /\ i <= Len(ends) /\ j - 1 \in 1 .. Len(ends)
      /\ i \in 1 .. Len(ends) /\ j # 1 /\ i + 1 # 1 /\ i + 1 - 1 = i
  BY HttpCuts
<1>2. Http!Start(ends, j) = ends[j - 1] /\ Http!Start(ends, i + 1) = ends[i]
  BY <1>1 DEF Http!Start
<1>3. i = j - 1 \/ i < j - 1
  BY <1>1
<1>4. ends[i] \in Nat /\ ends[j - 1] \in Nat /\ (i < j - 1 => ends[i] < ends[j - 1])
  BY <1>1, HttpCuts
<1>5. ends[i] <= ends[j - 1]
  BY <1>3, <1>4
<1>6. Http!Start(ends, i + 1) = Http!Start(ends, i) + Http!SizeIn(ends, i)
      /\ Http!Start(ends, i) \in Nat /\ Http!SizeIn(ends, i) \in Nat
  BY <1>1, HttpStarts
<1>7. /\ Http!Offset(ends, j) = Http!Start(ends, j) + 5 * (j - 1)
      /\ Http!Offset(ends, i) = Http!Start(ends, i) + 5 * (i - 1)
  BY DEF Http!Offset
<1> DEFINE u == Http!Offset(ends, i)  v == Http!Offset(ends, j)  z == Http!SizeIn(ends, i)
           b == Http!Start(ends, i)  c == Http!Start(ends, j)
<1>8. /\ u = b + 5 * (i - 1) /\ v = c + 5 * (j - 1) /\ b + z <= c /\ b \in Nat /\ z \in Nat /\ c \in Nat
      /\ i \in Nat /\ j \in Nat
  <2>1. c = ends[j - 1] /\ b + z = ends[i] /\ ends[i] <= ends[j - 1] /\ ends[j - 1] \in Nat
    BY <1>2, <1>4, <1>5, <1>6
  <2> QED BY <2>1, <1>1, <1>6, <1>7
<1> HIDE DEF u, v, z, b, c
<1>9. u + z + 5 <= v
  BY ONLY <1>8, i < j
<1> QED BY <1>9 DEF u, v, z

\* Each byte that is sent belongs to one chunk.
LEMMA HttpChunkOf ==
  ASSUME NEW n \in Nat, NEW ends \in Http!Layouts(n),
         NEW i \in 1 .. Http!Offset(ends, Len(ends) + 1) + 5
  PROVE  \E c \in 1 .. Len(ends) + 1 :
            i \in Http!Offset(ends, c) + 1 .. Http!Offset(ends, c) + Http!SizeIn(ends, c) + 5
<1> DEFINE T == {c \in 1 .. Len(ends) + 1 : i <= Http!Offset(ends, c) + Http!SizeIn(ends, c) + 5}
<1>1. Len(ends) \in Nat /\ Len(ends) + 1 \in 1 .. Len(ends) + 1
  BY HttpCuts
<1>2. Http!SizeIn(ends, Len(ends) + 1) = 0 /\ Http!Offset(ends, Len(ends) + 1) \in Nat
  BY <1>1, HttpStarts, HttpOffsets
<1>3. Len(ends) + 1 \in T /\ T \subseteq Nat
  BY <1>1, <1>2
<1>4. PICK c \in T : \A d \in T : c <= d
  <2> HIDE DEF T
  <2> QED BY <1>3, LeastOf
<1>5. c \in 1 .. Len(ends) + 1 /\ i <= Http!Offset(ends, c) + Http!SizeIn(ends, c) + 5
  BY <1>4
<1>6. Http!Offset(ends, c) \in Nat /\ Http!SizeIn(ends, c) \in Nat /\ i \in Nat /\ i >= 1
  BY <1>2, <1>5, HttpStarts, HttpOffsets
<1>7. Http!Offset(ends, c) < i
  <2>1. CASE c = 1
    BY <2>1, <1>5, <1>6, HttpOffsets
  <2>2. CASE c # 1
    <3>1. c - 1 \in 1 .. Len(ends) + 1 /\ c - 1 <= Len(ends) /\ c - 1 + 1 = c /\ ~(c <= c - 1)
      BY <1>1, <1>5, <2>2
    <3>2. c - 1 \notin T
      BY <1>4, <3>1
    <3>3. ~(i <= Http!Offset(ends, c - 1) + Http!SizeIn(ends, c - 1) + 5)
      BY <3>1, <3>2
    <3>4. Http!Offset(ends, c) = Http!Offset(ends, c - 1) + Http!SizeIn(ends, c - 1) + 5
      <4>1. Http!Offset(ends, c - 1 + 1) = Http!Offset(ends, c - 1) + Http!SizeIn(ends, c - 1) + 5
        BY <3>1, HttpOffsets
      <4> QED BY <4>1, <3>1
    <3> QED BY <3>3, <3>4, <1>6
  <2> QED BY <2>1, <2>2
<1> QED BY <1>5, <1>6, <1>7

\* A byte on the wire is of one chunk only.
LEMMA HttpOneChunk ==
  ASSUME NEW n \in Nat, NEW ends \in Http!Layouts(n), NEW i \in Nat,
         NEW c \in 1 .. Len(ends) + 1, NEW d \in 1 .. Len(ends) + 1,
         i \in Http!Offset(ends, c) + 1 .. Http!Offset(ends, c) + Http!SizeIn(ends, c) + 5,
         i \in Http!Offset(ends, d) + 1 .. Http!Offset(ends, d) + Http!SizeIn(ends, d) + 5
  PROVE  c = d
<1>1. /\ Http!Offset(ends, c) \in Nat /\ Http!SizeIn(ends, c) \in Nat
      /\ Http!Offset(ends, d) \in Nat /\ Http!SizeIn(ends, d) \in Nat
  BY HttpStarts, HttpOffsets
<1>2. Len(ends) \in Nat
  BY HttpCuts
<1>3. c \in Nat /\ d \in Nat
  BY <1>2
<1>4. ~(c < d)
  <2> SUFFICES ASSUME c < d PROVE FALSE
    OBVIOUS
  <2>1. Http!Offset(ends, c) + Http!SizeIn(ends, c) + 5 <= Http!Offset(ends, d)
    BY HttpOffsetsGrow
  <2>2. i <= Http!Offset(ends, c) + Http!SizeIn(ends, c) + 5 /\ i >= Http!Offset(ends, d) + 1
    BY <1>1
  <2> QED BY ONLY <2>1, <2>2, <1>1, i \in Nat
<1>5. ~(d < c)
  <2> SUFFICES ASSUME d < c PROVE FALSE
    OBVIOUS
  <2>1. Http!Offset(ends, d) + Http!SizeIn(ends, d) + 5 <= Http!Offset(ends, c)
    BY HttpOffsetsGrow
  <2> QED BY <2>1, <1>1
<1> QED BY <1>3, <1>4, <1>5

\* A byte of a chunk is a number.
LEMMA HttpChunkByte ==
  ASSUME NEW first \in Nat, NEW sz \in Nat, NEW k \in 1 .. sz + 5
  PROVE  /\ Http!ChunkByte(first, sz, k) \in Int
         /\ k = 1 => Http!ChunkByte(first, sz, k) = Http!Digit(sz)
         /\ k \in {2, sz + 4} => Http!ChunkByte(first, sz, k) = Http!CR
         /\ k \in {3, sz + 5} => Http!ChunkByte(first, sz, k) = Http!LF
         /\ k \in 4 .. sz + 3 => Http!ChunkByte(first, sz, k) = first + k - 4
<1>1. CASE k = 1
  <2>1. Http!ChunkByte(first, sz, k) = Http!Digit(sz) /\ Http!Digit(sz) \in Int
    BY <1>1 DEF Http!ChunkByte, Http!Digit
  <2> QED BY <1>1, <2>1
<1>2. CASE k \in {2, sz + 4}
  <2>1. Http!ChunkByte(first, sz, k) = Http!CR /\ Http!CR \in Int
    BY <1>2 DEF Http!ChunkByte, Http!CR
  <2>2. k # 1 /\ k \notin {3, sz + 5} /\ k \notin 4 .. sz + 3
    BY <1>2
  <2> QED BY <1>2, <2>1, <2>2
<1>3. CASE k \in {3, sz + 5}
  <2>1. k # 1 /\ k \notin {2, sz + 4} /\ k \notin 4 .. sz + 3
    BY <1>3
  <2>2. Http!ChunkByte(first, sz, k) = Http!LF /\ Http!LF \in Int
    BY <1>3, <2>1 DEF Http!ChunkByte, Http!LF
  <2> QED BY <1>3, <2>1, <2>2
<1>4. CASE k \in 4 .. sz + 3
  <2>1. k # 1 /\ k \notin {2, sz + 4} /\ k \notin {3, sz + 5}
    BY <1>4
  <2>2. Http!ChunkByte(first, sz, k) = first + k - 4 /\ first + k - 4 \in Int
    BY <1>4, <2>1 DEF Http!ChunkByte
  <2> QED BY <1>4, <2>1, <2>2
<1>5. k = 1 \/ k \in {2, sz + 4} \/ k \in {3, sz + 5} \/ k \in 4 .. sz + 3
  OBVIOUS
<1> QED BY <1>1, <1>2, <1>3, <1>4, <1>5

\* What is sent, byte by byte.
LEMMA HttpSentAt ==
  ASSUME NEW first \in Nat, NEW n \in Nat, NEW ends \in Http!Layouts(n),
         NEW j \in 1 .. Len(ends) + 1, NEW k \in 1 .. Http!SizeIn(ends, j) + 5
  PROVE  /\ Http!Offset(ends, j) + k \in 1 .. Http!Offset(ends, Len(ends) + 1) + 5
         /\ Http!InChunks(first, ends)[Http!Offset(ends, j) + k]
              = Http!ChunkByte(first + Http!Start(ends, j), Http!SizeIn(ends, j), k)
<1> DEFINE i == Http!Offset(ends, j) + k
           Is(c) == i \in Http!Offset(ends, c) + 1 .. Http!Offset(ends, c) + Http!SizeIn(ends, c) + 5
<1>1. Len(ends) \in Nat /\ Len(ends) + 1 \in 1 .. Len(ends) + 1
  BY HttpCuts
<1>2. /\ Http!Offset(ends, j) \in Nat /\ Http!SizeIn(ends, j) \in Nat
      /\ Http!Offset(ends, Len(ends) + 1) \in Nat
  BY <1>1, HttpStarts, HttpOffsets
<1>3. Is(j) /\ i \in Nat /\ i >= 1 /\ i - Http!Offset(ends, j) = k
  BY <1>2
<1>4. i <= Http!Offset(ends, Len(ends) + 1) + 5
  <2>1. CASE j = Len(ends) + 1
    <3>1. Http!SizeIn(ends, j) = 0
      BY <2>1, HttpStarts
    <3> QED BY <2>1, <3>1, <1>2
  <2>2. CASE j < Len(ends) + 1
    <3>1. Http!Offset(ends, j) + Http!SizeIn(ends, j) + 5 <= Http!Offset(ends, Len(ends) + 1)
      BY <1>1, <2>2, HttpOffsetsGrow
    <3> QED BY <3>1, <1>2
  <2> QED BY <2>1, <2>2, <1>1
<1>5. i \in 1 .. Http!Offset(ends, Len(ends) + 1) + 5
  BY <1>2, <1>3, <1>4
<1>6. \A c \in 1 .. Len(ends) + 1 : Is(c) => c = j
  BY <1>3, HttpOneChunk
<1>7. (CHOOSE c \in 1 .. Len(ends) + 1 : Is(c)) = j
  <2> HIDE DEF Is
  <2> QED BY <1>3, <1>6
<1> DEFINE In(x, c) == x \in Http!Offset(ends, c) + 1 .. Http!Offset(ends, c) + Http!SizeIn(ends, c) + 5
           Chunk(x) == CHOOSE c \in 1 .. Len(ends) + 1 : In(x, c)
           Val(x) == Http!ChunkByte(first + Http!Start(ends, Chunk(x)), Http!SizeIn(ends, Chunk(x)),
                                    x - Http!Offset(ends, Chunk(x)))
<1>8. Http!InChunks(first, ends)[i] = Val(i) /\ Chunk(i) = (CHOOSE c \in 1 .. Len(ends) + 1 : Is(c))
  <2>1. Http!InChunks(first, ends) = [x \in 1 .. Http!Offset(ends, Len(ends) + 1) + 5 |-> Val(x)]
    BY Zenon DEF Http!InChunks
  <2>2. Chunk(i) = (CHOOSE c \in 1 .. Len(ends) + 1 : Is(c))
    OBVIOUS
  <2> HIDE DEF Val, i
  <2> QED BY <1>5, <2>1, <2>2
<1>9. Http!InChunks(first, ends)[i]
        = Http!ChunkByte(first + Http!Start(ends, j), Http!SizeIn(ends, j), i - Http!Offset(ends, j))
  <2> HIDE DEF Is, i, Chunk
  <2> QED BY <1>7, <1>8
<1> QED BY <1>3, <1>5, <1>9

\* What the server sends in chunks is a sequence of numbers, and each byte of a
\* chunk is where its offset says.
LEMMA HttpSentSeq ==
  ASSUME NEW first \in Nat, NEW n \in Nat, NEW ends \in Http!Layouts(n)
  PROVE  /\ Http!InChunks(first, ends) \in Seq(Int)
         /\ Len(Http!InChunks(first, ends)) = Http!Offset(ends, Len(ends) + 1) + 5
<1> DEFINE S == Http!InChunks(first, ends)
           total == Http!Offset(ends, Len(ends) + 1) + 5
<1>1. Len(ends) \in Nat /\ Len(ends) + 1 \in 1 .. Len(ends) + 1
  BY HttpCuts
<1>2. total \in Nat
  BY <1>1, HttpOffsets
<1> DEFINE In(x, c) == x \in Http!Offset(ends, c) + 1 .. Http!Offset(ends, c) + Http!SizeIn(ends, c) + 5
           Chunk(x) == CHOOSE c \in 1 .. Len(ends) + 1 : In(x, c)
           Val(x) == Http!ChunkByte(first + Http!Start(ends, Chunk(x)), Http!SizeIn(ends, Chunk(x)),
                                    x - Http!Offset(ends, Chunk(x)))
<1>3. S = [x \in 1 .. total |-> Val(x)]
  BY Zenon DEF Http!InChunks
<1>4. ASSUME NEW i \in 1 .. total PROVE S[i] \in Int
  <2>1. PICK c \in 1 .. Len(ends) + 1 :
            i \in Http!Offset(ends, c) + 1 .. Http!Offset(ends, c) + Http!SizeIn(ends, c) + 5
    BY HttpChunkOf
  <2>2. Http!Offset(ends, c) \in Nat /\ Http!SizeIn(ends, c) \in Nat /\ Http!Start(ends, c) \in Nat
    BY HttpStarts, HttpOffsets
  <2>3. PICK k \in 1 .. Http!SizeIn(ends, c) + 5 : i = Http!Offset(ends, c) + k
    <3>1. i - Http!Offset(ends, c) \in 1 .. Http!SizeIn(ends, c) + 5
          /\ i = Http!Offset(ends, c) + (i - Http!Offset(ends, c))
      BY <2>1, <2>2, <1>2
    <3> QED BY <3>1
  <2>4. S[i] = Http!ChunkByte(first + Http!Start(ends, c), Http!SizeIn(ends, c), k)
    BY <2>3, HttpSentAt
  <2>5. first + Http!Start(ends, c) \in Nat
    BY <2>2
  <2> QED BY <2>2, <2>4, <2>5, HttpChunkByte
<1>5. S \in [1 .. total -> Int]
  <2> HIDE DEF S, total, Val
  <2> QED BY <1>3, <1>4
<1> HIDE DEF S, total
<1>6. S \in Seq(Int) /\ Len(S) = total
  BY <1>2, <1>5, LenProperties, SeqDef
<1> QED BY <1>6 DEF S, total
(* What the client reads of it.                                           *)

\* What is read comes behind what is taken.
LEMMA HttpReadMore ==
  ASSUME NEW S \in Seq(Int), NEW e \in Nat, NEW taken \in Seq(Int), NEW more \in Seq(Int),
         Http!Handled(S, e, taken, more), NEW k \in 0 .. Len(more)
  PROVE  /\ taken \o SubSeq(more, 1, k) \in Seq(Int) /\ SubSeq(more, k + 1, Len(more)) \in Seq(Int)
         /\ Len(taken \o SubSeq(more, 1, k)) = Len(taken) + k
         /\ Len(SubSeq(more, k + 1, Len(more))) = Len(more) - k
         /\ Http!Handled(S, e, taken \o SubSeq(more, 1, k), SubSeq(more, k + 1, Len(more)))
<1> DEFINE t == SubSeq(more, 1, k)  b == SubSeq(more, k + 1, Len(more))  all == taken \o t
<1>1. k \in Nat /\ k <= Len(more) /\ Len(more) \in Nat /\ Len(taken) \in Nat /\ Len(S) \in Nat
  BY LenProperties
<1>2. t \in Seq(Int) /\ Len(t) = k /\ \A i \in 1 .. k : t[i] = more[i]
  BY <1>1, HttpFront
<1>3. b \in Seq(Int) /\ Len(b) = Len(more) - k /\ \A i \in 1 .. Len(more) - k : b[i] = more[i + k]
  BY <1>1, HttpBehind
<1> HIDE DEF t, b
<1>4. /\ all \in Seq(Int) /\ Len(all) = Len(taken) + k
      /\ \A i \in 1 .. Len(taken) + k : all[i] = IF i <= Len(taken) THEN taken[i] ELSE t[i - Len(taken)]
  BY <1>2, ConcatProperties
<1>5. /\ e + Len(taken) + Len(more) = Len(S)
      /\ \A i \in 1 .. Len(taken) : taken[i] = S[e + i]
      /\ \A i \in 1 .. Len(more) : more[i] = S[e + Len(taken) + i]
  BY DEF Http!Handled
<1> HIDE DEF all
<1>6. \A i \in 1 .. Len(all) : all[i] = S[e + i]
  <2> SUFFICES ASSUME NEW i \in 1 .. Len(taken) + k PROVE all[i] = S[e + i]
    BY <1>4
  <2>1. CASE i <= Len(taken)
    <3>1. i \in 1 .. Len(taken)
      BY <2>1, <1>1
    <3>2. all[i] = taken[i]
      BY <2>1, <1>4
    <3> QED BY <3>1, <3>2, <1>5
  <2>2. CASE ~(i <= Len(taken))
    <3>1. i - Len(taken) \in 1 .. k /\ i - Len(taken) \in 1 .. Len(more)
          /\ e + Len(taken) + (i - Len(taken)) = e + i
      BY <2>2, <1>1
    <3>2. all[i] = t[i - Len(taken)] /\ t[i - Len(taken)] = more[i - Len(taken)]
      BY <2>2, <3>1, <1>2, <1>4
    <3>3. more[i - Len(taken)] = S[e + Len(taken) + (i - Len(taken))]
      BY <3>1, <1>5
    <3> QED BY <3>1, <3>2, <3>3
  <2> QED BY <2>1, <2>2
<1>7. \A i \in 1 .. Len(b) : b[i] = S[e + Len(all) + i]
  <2> SUFFICES ASSUME NEW i \in 1 .. Len(more) - k PROVE b[i] = S[e + Len(all) + i]
    BY <1>3
  <2>1. i + k \in 1 .. Len(more) /\ e + Len(all) + i = e + Len(taken) + (i + k)
    BY <1>1, <1>4
  <2> QED BY <2>1, <1>3, <1>5
<1>8. e + Len(all) + Len(b) = Len(S)
  <2>1. Len(all) = Len(taken) + k /\ Len(b) = Len(more) - k /\ e + Len(taken) + Len(more) = Len(S)
    BY <1>3, <1>4, <1>5
  <2> DEFINE x == Len(all)  y == Len(b)  z == Len(taken)  u == Len(more)  v == Len(S)
  <2>2. x = z + k /\ y = u - k /\ e + z + u = v /\ z \in Nat /\ u \in Nat /\ k \in Nat
    BY <2>1, <1>1
  <2> HIDE DEF x, y, z, u, v
  <2>3. e + x + y = v
    BY ONLY <2>2, e \in Nat
  <2> QED BY <2>3 DEF x, y, v
<1>9. Http!Handled(S, e, all, b)
  BY <1>6, <1>7, <1>8 DEF Http!Handled
<1> QED BY <1>2, <1>3, <1>4, <1>9 DEF t, b, all

\* What is done with is dropped in front.
LEMMA HttpDropped ==
  ASSUME NEW S \in Seq(Int), NEW e \in Nat, NEW taken \in Seq(Int), NEW more \in Seq(Int),
         Http!Handled(S, e, taken, more), NEW k \in 0 .. Len(taken)
  PROVE  /\ Http!Drop(taken, k) \in Seq(Int) /\ Len(Http!Drop(taken, k)) = Len(taken) - k
         /\ Http!Handled(S, e + k, Http!Drop(taken, k), more) /\ e + k \in 0 .. Len(S)
<1> DEFINE b == Http!Drop(taken, k)
<1>1. k \in Nat /\ k <= Len(taken) /\ Len(more) \in Nat /\ Len(taken) \in Nat /\ Len(S) \in Nat
  BY LenProperties
<1>3. b \in Seq(Int) /\ Len(b) = Len(taken) - k /\ \A i \in 1 .. Len(taken) - k : b[i] = taken[i + k]
  BY <1>1, HttpBehind DEF Http!Drop
<1>5. /\ e + Len(taken) + Len(more) = Len(S)
      /\ \A i \in 1 .. Len(taken) : taken[i] = S[e + i]
      /\ \A i \in 1 .. Len(more) : more[i] = S[e + Len(taken) + i]
  BY DEF Http!Handled
<1> HIDE DEF b
<1>6. \A i \in 1 .. Len(b) : b[i] = S[e + k + i]
  <2> SUFFICES ASSUME NEW i \in 1 .. Len(taken) - k PROVE b[i] = S[e + k + i]
    BY <1>3
  <2>1. i + k \in 1 .. Len(taken) /\ e + k + i = e + (i + k)
    BY <1>1
  <2> QED BY <2>1, <1>3, <1>5
<1>7. \A i \in 1 .. Len(more) : more[i] = S[e + k + Len(b) + i]
  <2>1. e + k + Len(b) = e + Len(taken)
    BY <1>1, <1>3
  <2> QED BY <2>1, <1>5
<1>8. e + k + Len(b) + Len(more) = Len(S) /\ e + k \in 0 .. Len(S)
  <2>1. Len(b) = Len(taken) - k /\ e + Len(taken) + Len(more) = Len(S)
    BY <1>3, <1>5
  <2> DEFINE y == Len(b)  z == Len(taken)  u == Len(more)  v == Len(S)
  <2>2. y = z - k /\ e + z + u = v /\ z \in Nat /\ u \in Nat /\ v \in Nat /\ k \in Nat /\ k <= z
    BY <2>1, <1>1
  <2> HIDE DEF y, z, u, v
  <2>3. e + k + y + u = v /\ e + k \in 0 .. v
    BY ONLY <2>2, e \in Nat
  <2> QED BY <2>3 DEF y, u, v
<1>9. Http!Handled(S, e + k, b, more)
  BY <1>6, <1>7, <1>8 DEF Http!Handled
<1> QED BY <1>3, <1>8, <1>9 DEF b

\* Where the client is in what a server sent: at the layout "ends" of n bytes from
\* "first" on, in its chunk j, with e bytes handled.
HttpAt(first, n, ends, j, e, where, after, taken, more, piece, need, why) ==
  /\ first \in Nat /\ first >= 1 /\ n \in Nat /\ n <= BodyLen /\ ends \in Http!Layouts(n)
  /\ e \in Nat /\ e <= Len(Http!InChunks(first, ends))
  /\ why # "redirections" => first + n = BodyLen + 1
  /\ Http!Handled(Http!InChunks(first, ends), e, taken, more)
  /\ Http!Within(where, first, ends, j, e, after, taken, piece, need)

\* Where the get stands among the chunks, taken apart.
LEMMA HttpOpen ==
  ASSUME NEW where, NEW after \in Nat, NEW taken, NEW more, NEW piece, NEW need, NEW why,
         Http!InChunk(where, after, taken, more, piece, need, why)
  PROVE  \E first, n, ends, j, e : HttpAt(first, n, ends, j, e, where, after, taken, more, piece, need, why)
<1>7. PICK first \in 1 .. after + 1, n \in 0 .. BodyLen :
         \E ends \in Http!Layouts(n) :
          \E j \in 1 .. n + 1, e \in 0 .. Len(Http!InChunks(first, ends)) :
             /\ why # "redirections" => first + n = BodyLen + 1
             /\ Http!Handled(Http!InChunks(first, ends), e, taken, more)
             /\ Http!Within(where, first, ends, j, e, after, taken, piece, need)
  BY Zenon DEF Http!InChunk
<1>1. PICK ends \in Http!Layouts(n) :
         \E j \in 1 .. n + 1, e \in 0 .. Len(Http!InChunks(first, ends)) :
             /\ why # "redirections" => first + n = BodyLen + 1
             /\ Http!Handled(Http!InChunks(first, ends), e, taken, more)
             /\ Http!Within(where, first, ends, j, e, after, taken, piece, need)
  BY <1>7
<1>2. first \in Nat /\ first >= 1 /\ n \in Nat /\ n <= BodyLen
  BY HttpSizes
<1>3. Len(Http!InChunks(first, ends)) \in Nat
  BY <1>2, HttpSentSeq, LenProperties
<1>4. PICK j \in 1 .. n + 1, e \in 0 .. Len(Http!InChunks(first, ends)) :
             /\ why # "redirections" => first + n = BodyLen + 1
             /\ Http!Handled(Http!InChunks(first, ends), e, taken, more)
             /\ Http!Within(where, first, ends, j, e, after, taken, piece, need)
  BY <1>1
<1>5. e \in Nat /\ e <= Len(Http!InChunks(first, ends))
  BY <1>3
<1>6. HttpAt(first, n, ends, j, e, where, after, taken, more, piece, need, why)
  BY <1>2, <1>4, <1>5 DEF HttpAt
<1> QED BY <1>6

\* And put together again.
LEMMA HttpClose ==
  ASSUME NEW first, NEW n, NEW ends, NEW j, NEW e,
         NEW where, NEW after \in Nat, NEW taken, NEW more, NEW piece, NEW need, NEW why, first <= after + 1,
         HttpAt(first, n, ends, j, e, where, after, taken, more, piece, need, why)
  PROVE  Http!InChunk(where, after, taken, more, piece, need, why)
<1>1. /\ first \in Nat /\ first >= 1 /\ n \in Nat /\ n <= BodyLen /\ ends \in Http!Layouts(n)
      /\ e \in Nat /\ e <= Len(Http!InChunks(first, ends))
  BY DEF HttpAt
<1>2. first \in 1 .. after + 1 /\ n \in 0 .. BodyLen /\ e \in 0 .. Len(Http!InChunks(first, ends))
  <2>1. Len(Http!InChunks(first, ends)) \in Nat
    BY <1>1, HttpSentSeq, LenProperties
  <2> QED BY <1>1, <2>1, HttpSizes
<1>3. j \in 1 .. n + 1
  <2>1. j \in 1 .. Len(ends) + 1
    BY DEF HttpAt, Http!Within
  <2>2. Len(ends) \in 0 .. n
    BY <1>1, HttpCuts
  <2> QED BY <1>1, <2>1, <2>2
<1>4. /\ why # "redirections" => first + n = BodyLen + 1
      /\ Http!Handled(Http!InChunks(first, ends), e, taken, more)
      /\ Http!Within(where, first, ends, j, e, after, taken, piece, need)
  BY DEF HttpAt
<1> QED BY <1>1, <1>2, <1>3, <1>4, Zenon DEF Http!InChunk

\* What is known there.
LEMMA HttpThere ==
  ASSUME NEW first, NEW n, NEW ends, NEW j, NEW e,
         NEW where, NEW after \in Nat, NEW taken, NEW more, NEW piece, NEW need, NEW why,
         HttpAt(first, n, ends, j, e, where, after, taken, more, piece, need, why)
  PROVE  /\ first \in Nat /\ first >= 1 /\ n \in Nat /\ n <= BodyLen /\ ends \in Http!Layouts(n) /\ e \in Nat
         /\ Len(ends) \in Nat /\ j \in Nat /\ j \in 1 .. Len(ends) + 1
         /\ Http!InChunks(first, ends) \in Seq(Int)
         /\ Http!Handled(Http!InChunks(first, ends), e, taken, more)
         /\ Http!Start(ends, j) \in Nat /\ Http!SizeIn(ends, j) \in Nat /\ Http!Offset(ends, j) \in Nat
         /\ Http!Start(ends, j) + Http!SizeIn(ends, j) <= n
         /\ Http!SizeIn(ends, j) > 0 => /\ j + 1 \in 1 .. Len(ends) + 1
                                        /\ Http!Start(ends, j + 1) = Http!Start(ends, j) + Http!SizeIn(ends, j)
                                        /\ Http!Offset(ends, j + 1) = Http!Offset(ends, j) + Http!SizeIn(ends, j) + 5
         /\ Http!SizeIn(ends, j) = 0 => Http!Start(ends, j) = n
<1>1. /\ first \in Nat /\ first >= 1 /\ n \in Nat /\ n <= BodyLen /\ ends \in Http!Layouts(n) /\ e \in Nat
      /\ j \in 1 .. Len(ends) + 1 /\ Http!Handled(Http!InChunks(first, ends), e, taken, more)
  BY DEF HttpAt, Http!Within
<1>2. Len(ends) \in Nat
  BY <1>1, HttpCuts
<1>3. j \in Nat /\ (j <= Len(ends) \/ j = Len(ends) + 1) /\ (j <= Len(ends) => j + 1 \in 1 .. Len(ends) + 1)
  BY <1>1, <1>2
<1>4. Http!InChunks(first, ends) \in Seq(Int)
  BY <1>1, HttpSentSeq
<1>5. /\ Http!Start(ends, j) \in Nat /\ Http!SizeIn(ends, j) \in Nat
      /\ Http!Start(ends, j) + Http!SizeIn(ends, j) <= n
      /\ j <= Len(ends) => /\ Http!SizeIn(ends, j) > 0
                           /\ Http!Start(ends, j + 1) = Http!Start(ends, j) + Http!SizeIn(ends, j)
      /\ j = Len(ends) + 1 => Http!SizeIn(ends, j) = 0 /\ Http!Start(ends, j) = n
  BY <1>1, HttpStarts
<1>6. /\ Http!Offset(ends, j) \in Nat
      /\ j <= Len(ends) => Http!Offset(ends, j + 1) = Http!Offset(ends, j) + Http!SizeIn(ends, j) + 5
  BY <1>1, HttpOffsets
<1> QED BY <1>1, <1>2, <1>3, <1>4, <1>5, <1>6
(* How the client goes through the chunks.                                *)

\* The positions in the three places where it reads.
LEMMA HttpPlace ==
  ASSUME NEW first, NEW ends, NEW j, NEW e, NEW after, NEW taken, NEW piece, NEW need
  PROVE  /\ Http!Within("size", first, ends, j, e, after, taken, piece, need)
              <=> (j \in 1 .. Len(ends) + 1 /\ e = Http!Offset(ends, j) /\ after + 1 = first + Http!Start(ends, j))
         /\ Http!Within("chunk", first, ends, j, e, after, taken, piece, need)
              <=> (/\ j \in 1 .. Len(ends) + 1 /\ e = Http!Offset(ends, j) + 3
                   /\ after + 1 = first + Http!Start(ends, j) /\ piece = Http!SizeIn(ends, j))
         /\ Http!Within("large", first, ends, j, e, after, taken, piece, need)
              <=> (/\ j \in 1 .. Len(ends) + 1 /\ Http!SizeIn(ends, j) > 0 /\ (need = 0 => taken = <<>>)
                   /\ e + Len(taken) + need = Http!Offset(ends, j) + 3 + Http!SizeIn(ends, j)
                   /\ after + 1 + Len(taken) + need = first + Http!Start(ends, j) + Http!SizeIn(ends, j)
                   /\ e >= Http!Offset(ends, j) + 3)
BY DEF Http!Within

\* At the size of a chunk, more is read.
LEMMA HttpSizeRead ==
  ASSUME NEW after \in Nat, NEW taken \in Seq(Int), NEW more \in Seq(Int), NEW piece, NEW need, NEW why,
         Http!InChunk("size", after, taken, more, piece, need, why), NEW k \in 0 .. Len(more),
         NEW piece2, NEW need2
  PROVE  Http!InChunk("size", after, taken \o SubSeq(more, 1, k), SubSeq(more, k + 1, Len(more)), piece2, need2, why)
<1> DEFINE t == taken \o SubSeq(more, 1, k)  m == SubSeq(more, k + 1, Len(more))
<1>1. PICK first, n, ends, j, e : HttpAt(first, n, ends, j, e, "size", after, taken, more, piece, need, why)
  BY HttpOpen
<1>2. /\ Http!InChunks(first, ends) \in Seq(Int) /\ e \in Nat /\ first \in Nat /\ Http!Start(ends, j) \in Nat
      /\ Http!Handled(Http!InChunks(first, ends), e, taken, more)
  BY <1>1, HttpThere
<1>3. Http!Handled(Http!InChunks(first, ends), e, t, m)
  BY <1>2, HttpReadMore
<1>4. Http!Within("size", first, ends, j, e, after, taken, piece, need)
  BY <1>1 DEF HttpAt
<1>5. Http!Within("size", first, ends, j, e, after, t, piece2, need2)
  BY <1>4, HttpPlace
<1>6. first <= after + 1
  BY <1>2, <1>4, HttpPlace
<1> HIDE DEF t, m
<1>7. HttpAt(first, n, ends, j, e, "size", after, t, m, piece2, need2, why)
  BY <1>1, <1>3, <1>5 DEF HttpAt
<1>8. Http!InChunk("size", after, t, m, piece2, need2, why)
  BY <1>6, <1>7, HttpClose
<1> QED BY <1>8 DEF t, m

\* The line with the size of a chunk is there: it ends behind the one digit.
LEMMA HttpSizeLine ==
  ASSUME NEW after \in Nat, NEW taken \in Seq(Int), NEW more \in Seq(Int), NEW piece, NEW need, NEW why,
         Http!InChunk("size", after, taken, more, piece, need, why),
         NEW x \in 1 .. Len(taken) - 2, taken[x] = Http!CR, taken[x + 1] = Http!LF, NEW need2
  PROVE  /\ Len(taken) >= 4 /\ taken[1] # Http!CR /\ taken[2] = Http!CR /\ taken[3] = Http!LF
         /\ Http!SizeOf(taken[1]) \in 0 .. BodyLen
         /\ Http!InChunk("chunk", after, Http!Drop(taken, 3), more, Http!SizeOf(taken[1]), need2, why)
<1>1. PICK first, n, ends, j, e : HttpAt(first, n, ends, j, e, "size", after, taken, more, piece, need, why)
  BY HttpOpen
<1> DEFINE S == Http!InChunks(first, ends)  o == Http!Offset(ends, j)  z == Http!SizeIn(ends, j)
           f == first + Http!Start(ends, j)
<1>2. /\ S \in Seq(Int) /\ e \in Nat /\ first \in Nat /\ Http!Start(ends, j) \in Nat /\ n \in Nat /\ n <= BodyLen
      /\ Http!Handled(S, e, taken, more) /\ o \in Nat /\ z \in Nat /\ ends \in Http!Layouts(n)
      /\ j \in 1 .. Len(ends) + 1 /\ Http!Start(ends, j) + z <= n
  BY <1>1, HttpThere
<1>20. f \in Nat /\ o \in Nat /\ z \in Nat /\ e \in Nat /\ first \in Nat /\ Http!Start(ends, j) \in Nat
  <2>1. o \in Nat /\ z \in Nat /\ e \in Nat /\ first \in Nat /\ Http!Start(ends, j) \in Nat
    BY <1>2
  <2> QED BY ONLY <2>1
<1>3. e = o /\ after + 1 = f
  BY <1>1, HttpPlace DEF HttpAt
<1>4. Len(taken) \in Nat /\ Len(taken) >= 3 /\ x \in Nat /\ x >= 1 /\ x <= Len(taken) - 2 /\ f \in Nat
  <2>1. Len(taken) \in Nat
    BY LenProperties
  <2> QED BY ONLY <2>1, <1>20, x \in 1 .. Len(taken) - 2
<1>5. \A i \in 1 .. Len(taken) : taken[i] = S[e + i]
  BY <1>2 DEF Http!Handled
<1>6. \A k \in 1 .. z + 5 : S[o + k] = Http!ChunkByte(f, z, k)
  BY <1>2, HttpSentAt
<1>7. /\ Http!ChunkByte(f, z, 1) = Http!Digit(z) /\ Http!ChunkByte(f, z, 2) = Http!CR
      /\ Http!ChunkByte(f, z, 3) = Http!LF
  <2> HIDE DEF z, f
  <2>1. 1 \in 1 .. z + 5 /\ 2 \in 1 .. z + 5 /\ 3 \in 1 .. z + 5
    BY <1>20
  <2>2. Http!ChunkByte(f, z, 1) = Http!Digit(z)
    BY <2>1, <1>20, HttpChunkByte
  <2>3. Http!ChunkByte(f, z, 2) = Http!CR
    <3>1. 2 \in {2, z + 4}
      OBVIOUS
    <3> QED BY <2>1, <3>1, <1>20, HttpChunkByte
  <2>4. Http!ChunkByte(f, z, 3) = Http!LF
    <3>1. 3 \in {3, z + 5}
      OBVIOUS
    <3> QED BY <2>1, <3>1, <1>20, HttpChunkByte
  <2> QED BY <2>2, <2>3, <2>4
<1> HIDE DEF S, o, z, f
<1>8. taken[1] = Http!Digit(z) /\ taken[2] = Http!CR /\ taken[3] = Http!LF
  <2>1. \A k \in {1, 2, 3} : k \in 1 .. Len(taken) /\ k \in 1 .. z + 5
    <3>1. z \in Nat /\ Len(taken) \in Nat
      BY <1>2, LenProperties
    <3>2. 3 <= Len(taken)
      BY <1>4, <3>1
    <3> QED BY ONLY <3>1, <3>2
  <2>2. \A k \in {1, 2, 3} : taken[k] = Http!ChunkByte(f, z, k)
    BY <2>1, <1>3, <1>5, <1>6
  <2> QED BY <2>2, <1>7
<1>9. taken[1] # Http!CR /\ Http!SizeOf(taken[1]) = z
  BY <1>8, <1>2 DEF Http!Digit, Http!CR, Http!SizeOf
<1>10. x # 1
  BY <1>9
<1>11. Len(taken) >= 4
  BY <1>4, <1>10
<1>12. z \in 0 .. BodyLen
  <2>1. Http!Start(ends, j) + z <= n /\ n <= BodyLen /\ Http!Start(ends, j) \in Nat /\ z \in Nat /\ n \in Nat /\ BodyLen \in Nat
    BY <1>2, HttpSizes
  <2> QED BY ONLY <2>1
<1>13. Http!Handled(S, e + 3, Http!Drop(taken, 3), more) /\ e + 3 \in 0 .. Len(S)
  <2>1. 3 \in 0 .. Len(taken)
    BY <1>4
  <2> QED BY <2>1, <1>2, HttpDropped
<1>14. Http!Within("chunk", first, ends, j, e + 3, after, Http!Drop(taken, 3), z, need2)
  BY <1>2, <1>3, HttpPlace DEF o, f, z
<1>15. HttpAt(first, n, ends, j, e + 3, "chunk", after, Http!Drop(taken, 3), more, z, need2, why)
  <2>1. e + 3 \in Nat /\ e + 3 <= Len(S)
    BY <1>2, <1>13, LenProperties
  <2> QED BY <1>1, <1>13, <1>14, <2>1 DEF HttpAt, S
<1>16. first <= after + 1
  BY <1>2, <1>3 DEF f
<1>17. Http!InChunk("chunk", after, Http!Drop(taken, 3), more, z, need2, why)
  BY <1>15, <1>16, HttpClose
<1> QED BY <1>8, <1>9, <1>11, <1>12, <1>17

\* An empty chunk is the last one: all of the medium is there.
LEMMA HttpLastChunk ==
  ASSUME NEW after \in Nat, NEW taken, NEW more, NEW need, NEW why,
         Http!InChunk("chunk", after, taken, more, 0, need, why), why # "redirections"
  PROVE  after = BodyLen
<1>1. PICK first, n, ends, j, e : HttpAt(first, n, ends, j, e, "chunk", after, taken, more, 0, need, why)
  BY HttpOpen
<1>2. Http!SizeIn(ends, j) = 0 /\ after + 1 = first + Http!Start(ends, j) /\ first + n = BodyLen + 1
  BY <1>1, HttpPlace DEF HttpAt
<1>3. Http!Start(ends, j) = n /\ first \in Nat /\ n \in Nat
  BY <1>1, <1>2, HttpThere
<1> QED BY <1>2, <1>3, HttpSizes

\* Nothing comes from behind the end of the medium.
LEMMA HttpNotBeyond ==
  ASSUME NEW where \in {"size", "chunk", "large"}, NEW after \in Nat, NEW taken \in Seq(Int), NEW more,
         NEW piece, NEW need \in Nat, NEW why,
         Http!InChunk(where, after, taken, more, piece, need, why), why # "redirections"
  PROVE  after <= BodyLen
<1>1. PICK first, n, ends, j, e : HttpAt(first, n, ends, j, e, where, after, taken, more, piece, need, why)
  BY HttpOpen
<1>2. /\ first \in Nat /\ n \in Nat /\ Http!Start(ends, j) \in Nat /\ Http!SizeIn(ends, j) \in Nat
      /\ Http!Start(ends, j) + Http!SizeIn(ends, j) <= n
  BY <1>1, HttpThere
<1>3. first + n = BodyLen + 1 /\ Http!Within(where, first, ends, j, e, after, taken, piece, need)
  BY <1>1 DEF HttpAt
<1>4. CASE where \in {"size", "chunk"}
  <2>1. after + 1 = first + Http!Start(ends, j)
    BY <1>3, <1>4, HttpPlace
  <2> QED BY <2>1, <1>2, <1>3, HttpSizes
<1>5. CASE where = "large"
  <2>1. after + 1 + Len(taken) + need = first + Http!Start(ends, j) + Http!SizeIn(ends, j)
    BY <1>3, <1>5, HttpPlace
  <2>2. Len(taken) \in Nat
    BY LenProperties
  <2> QED BY <2>1, <2>2, <1>2, <1>3, HttpSizes
<1> QED BY <1>4, <1>5

\* A chunk is in the buffer with the line end behind it.
LEMMA HttpChunkIsThere ==
  ASSUME NEW after \in Nat, NEW taken \in Seq(Int), NEW more \in Seq(Int), NEW piece \in Nat, piece > 0,
         NEW need, NEW why,
         Http!InChunk("chunk", after, taken, more, piece, need, why), NEW k \in 0 .. Len(more),
         NEW all, all = taken \o SubSeq(more, 1, k), Len(all) >= piece + 2
  PROVE  /\ all \in Seq(Int) /\ SubSeq(all, 1, piece) \in Seq(Int) /\ Len(SubSeq(all, 1, piece)) = piece
         /\ Http!Follow(SubSeq(all, 1, piece), after)
         /\ \A piece2, need2 :
              Http!InChunk("size", after + piece, Http!Drop(all, piece + 2), SubSeq(more, k + 1, Len(more)),
                           piece2, need2, why)
<1> DEFINE m == SubSeq(more, k + 1, Len(more))
<1>1. PICK first, n, ends, j, e : HttpAt(first, n, ends, j, e, "chunk", after, taken, more, piece, need, why)
  BY HttpOpen
<1> DEFINE S == Http!InChunks(first, ends)  o == Http!Offset(ends, j)  z == Http!SizeIn(ends, j)
           f == first + Http!Start(ends, j)
<1>2. /\ S \in Seq(Int) /\ e \in Nat /\ first \in Nat /\ Http!Start(ends, j) \in Nat /\ n \in Nat /\ n <= BodyLen
      /\ Http!Handled(S, e, taken, more) /\ o \in Nat /\ z \in Nat /\ ends \in Http!Layouts(n)
      /\ j \in 1 .. Len(ends) + 1 /\ Http!Start(ends, j) + z <= n
      /\ z > 0 => /\ j + 1 \in 1 .. Len(ends) + 1 /\ Http!Start(ends, j + 1) = Http!Start(ends, j) + z
                  /\ Http!Offset(ends, j + 1) = o + z + 5
  BY <1>1, HttpThere
<1>20. f \in Nat /\ o \in Nat /\ z \in Nat /\ e \in Nat /\ first \in Nat /\ Http!Start(ends, j) \in Nat
  <2>1. o \in Nat /\ z \in Nat /\ e \in Nat /\ first \in Nat /\ Http!Start(ends, j) \in Nat
    BY <1>2
  <2> QED BY ONLY <2>1
<1>3. e = o + 3 /\ after + 1 = f /\ piece = z
  BY <1>1, HttpPlace DEF HttpAt
<1>4. all \in Seq(Int) /\ Http!Handled(S, e, all, m) /\ m \in Seq(Int)
  BY <1>2, HttpReadMore
<1>5. \A i \in 1 .. Len(all) : all[i] = S[e + i]
  BY <1>4 DEF Http!Handled
<1>6. \A i \in 1 .. z + 5 : S[o + i] = Http!ChunkByte(f, z, i)
  BY <1>2, HttpSentAt
<1>7. \A i \in 4 .. z + 3 : i \in 1 .. z + 5 /\ Http!ChunkByte(f, z, i) = f + i - 4
  <2> HIDE DEF f, z
  <2>1. f \in Nat /\ z \in Nat
    BY <1>20
  <2>2. \A i \in 4 .. z + 3 : i \in 1 .. z + 5
    BY <2>1
  <2> QED BY <2>1, <2>2, HttpChunkByte
<1> HIDE DEF S, o, z, f, m
<1>8. Len(all) \in Nat /\ piece <= Len(all) /\ piece + 2 \in 0 .. Len(all)
  BY <1>4, LenProperties
<1>9. /\ SubSeq(all, 1, piece) \in Seq(Int) /\ Len(SubSeq(all, 1, piece)) = piece
      /\ \A i \in 1 .. piece : SubSeq(all, 1, piece)[i] = all[i]
  BY <1>4, <1>8, HttpFront
<1>10. \A i \in 1 .. piece : all[i] = after + i
  <2> SUFFICES ASSUME NEW i \in 1 .. piece PROVE all[i] = after + i
    OBVIOUS
  <2>1. i \in 1 .. Len(all) /\ i + 3 \in 4 .. z + 3 /\ e + i = o + (i + 3)
    <3>1. o \in Nat /\ z \in Nat /\ e = o + 3 /\ piece = z
      BY <1>3, <1>20
    <3>2. i \in 1 .. piece /\ piece <= Len(all) /\ Len(all) \in Nat
      BY <1>8
    <3> QED BY ONLY <3>1, <3>2
  <2>2. all[i] = f + (i + 3) - 4
    BY <2>1, <1>5, <1>6, <1>7
  <2>3. f = after + 1 /\ i \in Nat
    BY <1>3
  <2> QED BY <2>2, <2>3
<1>11. Http!Follow(SubSeq(all, 1, piece), after)
  BY <1>9, <1>10 DEF Http!Follow
<1>12. Http!Handled(S, e + (piece + 2), Http!Drop(all, piece + 2), m) /\ e + (piece + 2) \in 0 .. Len(S)
  BY <1>2, <1>4, <1>8, HttpDropped
<1> DEFINE e2 == e + (piece + 2)
<1>13. e2 = o + z + 5 /\ e2 \in Nat /\ after + piece + 1 = first + (Http!Start(ends, j) + z)
  <2> DEFINE b == Http!Start(ends, j)
  <2>1. f = first + b
    BY DEF f
  <2>2. b \in Nat
    BY <1>20
  <2> HIDE DEF b
  <2>3. e2 = o + z + 5 /\ e2 \in Nat
    BY <1>3, <1>20
  <2>4. after + piece + 1 = first + (b + z)
    BY <1>3, <1>20, <2>1, <2>2
  <2> QED BY <2>3, <2>4 DEF b
<1>14. ASSUME NEW piece2, NEW need2
       PROVE  Http!Within("size", first, ends, j + 1, e2, after + piece, Http!Drop(all, piece + 2), piece2, need2)
  <2> HIDE DEF e2
  <2>1. /\ j + 1 \in 1 .. Len(ends) + 1 /\ Http!Start(ends, j + 1) = Http!Start(ends, j) + z
        /\ Http!Offset(ends, j + 1) = o + z + 5
    BY <1>2, <1>3
  <2>2. e2 = Http!Offset(ends, j + 1) /\ after + piece + 1 = first + Http!Start(ends, j + 1)
    BY <2>1, <1>13
  <2> QED BY <2>1, <2>2, HttpPlace
<1>15. ASSUME NEW piece2, NEW need2
       PROVE  HttpAt(first, n, ends, j + 1, e2, "size", after + piece, Http!Drop(all, piece + 2), m, piece2, need2, why)
  <2>1. e2 \in Nat /\ e2 <= Len(S)
    BY <1>2, <1>12, <1>13, LenProperties
  <2> HIDE DEF e2
  <2> QED BY <1>1, <1>12, <1>14, <2>1 DEF HttpAt, S, e2
<1>16. first <= after + piece + 1 /\ after + piece \in Nat
  <2>1. after + piece + 1 = first + (Http!Start(ends, j) + z)
    BY <1>13
  <2>2. first \in Nat /\ Http!Start(ends, j) \in Nat /\ z \in Nat
    BY <1>20
  <2> QED BY ONLY <2>1, <2>2, after \in Nat, piece \in Nat
<1>17. ASSUME NEW piece2, NEW need2
       PROVE  Http!InChunk("size", after + piece, Http!Drop(all, piece + 2), m, piece2, need2, why)
  BY <1>15, <1>16, HttpClose
<1> QED BY <1>4, <1>9, <1>11, <1>17 DEF m
\* A chunk that is larger than the buffer is begun.
LEMMA HttpLargeBegins ==
  ASSUME NEW after \in Nat, NEW taken \in Seq(Int), NEW more \in Seq(Int), NEW piece \in Nat, Len(taken) < piece,
         NEW need, NEW why, Http!InChunk("chunk", after, taken, more, piece, need, why), NEW piece2
  PROVE  Http!InChunk("large", after, taken, more, piece2, piece - Len(taken), why)
<1>1. PICK first, n, ends, j, e : HttpAt(first, n, ends, j, e, "chunk", after, taken, more, piece, need, why)
  BY HttpOpen
<1> DEFINE o == Http!Offset(ends, j)  z == Http!SizeIn(ends, j)  b == Http!Start(ends, j)  l == Len(taken)
           need2 == piece - l
<1>2. /\ j \in 1 .. Len(ends) + 1 /\ e = o + 3 /\ after + 1 = first + b /\ piece = z
  BY <1>1, HttpPlace DEF HttpAt
<1>3. o \in Nat /\ b \in Nat /\ first \in Nat
  BY <1>1, HttpThere
<1>4. l \in Nat /\ l < piece
  BY LenProperties
<1> HIDE DEF o, z, b, l
<1>5. z > 0 /\ need2 # 0 /\ e + l + need2 = o + 3 + z /\ after + 1 + l + need2 = first + b + z /\ e >= o + 3
  BY <1>2, <1>3, <1>4
<1>6. first <= after + 1
  BY <1>2, <1>3
<1> HIDE DEF need2
<1>7. Http!Within("large", first, ends, j, e, after, taken, piece2, need2)
  <2>1. /\ j \in 1 .. Len(ends) + 1 /\ Http!SizeIn(ends, j) > 0 /\ (need2 = 0 => taken = <<>>)
        /\ e + Len(taken) + need2 = Http!Offset(ends, j) + 3 + Http!SizeIn(ends, j)
        /\ after + 1 + Len(taken) + need2 = first + Http!Start(ends, j) + Http!SizeIn(ends, j)
        /\ e >= Http!Offset(ends, j) + 3
    BY <1>2, <1>5 DEF o, z, b, l
  <2> QED BY <2>1 DEF Http!Within
<1>8. HttpAt(first, n, ends, j, e, "large", after, taken, more, piece2, need2, why)
  BY <1>1, <1>7 DEF HttpAt
<1>9. Http!InChunk("large", after, taken, more, piece2, need2, why)
  BY <1>6, <1>8, HttpClose
<1> QED BY <1>9 DEF need2, l

\* A part of it is read and handed on.
LEMMA HttpLargeRead ==
  ASSUME NEW after \in Nat, NEW taken \in Seq(Int), NEW more \in Seq(Int), NEW piece, NEW need \in Nat, NEW why,
         Http!InChunk("large", after, taken, more, piece, need, why), NEW k \in 0 .. Len(more), k <= need,
         NEW all, all = taken \o SubSeq(more, 1, k)
  PROVE  /\ all \in Seq(Int) /\ Len(all) = Len(taken) + k /\ Http!Follow(all, after)
         /\ \A piece2 :
              Http!InChunk("large", after + Len(all), <<>>, SubSeq(more, k + 1, Len(more)), piece2, need - k, why)
<1> DEFINE m == SubSeq(more, k + 1, Len(more))
<1>1. PICK first, n, ends, j, e : HttpAt(first, n, ends, j, e, "large", after, taken, more, piece, need, why)
  BY HttpOpen
<1> DEFINE S == Http!InChunks(first, ends)  o == Http!Offset(ends, j)  z == Http!SizeIn(ends, j)
           b == Http!Start(ends, j)  f == first + b  l == Len(all)  lt == Len(taken)  e2 == e + l
<1>2. /\ S \in Seq(Int) /\ Http!Handled(S, e, taken, more) /\ n \in Nat /\ ends \in Http!Layouts(n)
  BY <1>1, HttpThere
<1>3. o \in Nat /\ b \in Nat /\ z \in Nat /\ first \in Nat /\ e \in Nat
  BY <1>1, HttpThere
<1>4. /\ j \in 1 .. Len(ends) + 1 /\ z > 0 /\ e + lt + need = o + 3 + z
      /\ after + 1 + lt + need = first + b + z /\ e >= o + 3
  BY <1>1, HttpPlace DEF HttpAt
<1>5. all \in Seq(Int) /\ l = lt + k /\ Http!Handled(S, e, all, m) /\ m \in Seq(Int)
  BY <1>2, <1>3, HttpReadMore
<1>6. \A i \in 1 .. l : all[i] = S[e + i]
  BY <1>5 DEF Http!Handled
<1>7. \A i \in 1 .. z + 5 : S[o + i] = Http!ChunkByte(f, z, i)
  BY <1>2, <1>3, <1>4, HttpSentAt
<1>8. f \in Nat /\ f = first + b
  BY ONLY <1>3
<1>9. k \in Nat /\ lt \in Nat /\ l \in Nat
  BY <1>5, LenProperties
<1> HIDE DEF S, o, z, b, f, m, l, lt
<1>10. \A i \in 4 .. z + 3 : i \in 1 .. z + 5 /\ Http!ChunkByte(f, z, i) = f + i - 4
  <2>1. \A i \in 4 .. z + 3 : i \in 1 .. z + 5
    BY <1>3
  <2> QED BY <1>3, <1>8, <2>1, HttpChunkByte
<1>11. \A i \in 1 .. l : all[i] = after + i
  <2> SUFFICES ASSUME NEW i \in 1 .. l PROVE all[i] = after + i
    OBVIOUS
  <2> DEFINE x == e + i - o
  <2>1. i \in Nat /\ i >= 1 /\ i <= l
    BY <1>9
  <2>2. x \in 4 .. z + 3 /\ e + i = o + x /\ f + x - 4 = after + i
    <3>1. x \in Int /\ x >= 4
      BY ONLY <1>3, <1>4, <2>1
    <3>2. x <= z + 3
      BY ONLY <1>3, <1>4, <1>5, <1>9, <2>1, k <= need, need \in Nat
    <3>3. e + i = o + x
      BY ONLY <1>3, <2>1
    <3>4. f + x - 4 = after + i
      BY ONLY <1>3, <1>4, <1>8, <1>9, <2>1, need \in Nat, after \in Nat
    <3> QED BY <3>1, <3>2, <3>3, <3>4, <1>3
  <2> HIDE DEF x
  <2>3. all[i] = S[o + x]
    BY <1>6, <2>2
  <2>4. S[o + x] = f + x - 4
    BY <1>7, <1>10, <2>2
  <2> QED BY <2>2, <2>3, <2>4
<1>12. Http!Follow(all, after)
  BY <1>11 DEF Http!Follow, l
<1>13. Http!Handled(S, e2, <<>>, m) /\ e2 \in 0 .. Len(S)
  <2>1. /\ Http!Drop(all, l) \in Seq(Int) /\ Len(Http!Drop(all, l)) = l - l
        /\ Http!Handled(S, e2, Http!Drop(all, l), m) /\ e2 \in 0 .. Len(S)
    <3>1. Len(all) = l /\ l \in 0 .. Len(all)
      BY <1>9 DEF l
    <3>2. /\ Http!Drop(all, l) \in Seq(Int) /\ Len(Http!Drop(all, l)) = Len(all) - l
          /\ Http!Handled(S, e + l, Http!Drop(all, l), m) /\ e + l \in 0 .. Len(S)
      <4> HIDE DEF e2
      <4>1. S \in Seq(Int) /\ e \in Nat /\ all \in Seq(Int) /\ m \in Seq(Int) /\ Http!Handled(S, e, all, m)
        BY <1>2, <1>3, <1>5
      <4> QED BY ONLY <4>1, <3>1, HttpDropped
    <3> QED BY <3>1, <3>2
  <2>2. Http!Drop(all, l) = <<>>
    <3>1. Len(Http!Drop(all, l)) = 0
      BY <2>1, <1>9
    <3> QED BY <2>1, <3>1, EmptySeq
  <2> QED BY <2>1, <2>2
<1> DEFINE after2 == after + l  need2 == need - k
<1>14. e2 + 0 + need2 = o + 3 + z /\ after2 + 1 + 0 + need2 = first + b + z /\ e2 >= o + 3 /\ e2 \in Nat
       /\ after2 \in Nat /\ need2 \in Nat
  BY ONLY <1>3, <1>4, <1>5, <1>9, k <= need, need \in Nat, after \in Nat
<1>15. first <= after2 + 1
  BY ONLY <1>3, <1>14
<1> HIDE DEF e2, after2, need2
<1>16. ASSUME NEW piece2 PROVE Http!Within("large", first, ends, j, e2, after2, <<>>, piece2, need2)
  <2>1. Len(<<>>) = 0
    OBVIOUS
  <2> QED BY <1>4, <1>14, <2>1, HttpPlace DEF o, z, b
<1>17. ASSUME NEW piece2 PROVE HttpAt(first, n, ends, j, e2, "large", after2, <<>>, m, piece2, need2, why)
  <2>1. e2 <= Len(S)
    BY <1>2, <1>13, LenProperties
  <2> QED BY <1>1, <1>13, <1>14, <1>16, <2>1 DEF HttpAt, S
<1>18. ASSUME NEW piece2 PROVE Http!InChunk("large", after2, <<>>, m, piece2, need2, why)
  BY <1>14, <1>15, <1>17, HttpClose
<1> QED BY <1>5, <1>12, <1>18 DEF m, l, lt, after2, need2

\* Nothing of it is left: its line end follows.
LEMMA HttpLargeDone ==
  ASSUME NEW after \in Nat, NEW taken \in Seq(Int), NEW more \in Seq(Int), NEW piece, NEW why,
         Http!InChunk("large", after, taken, more, piece, 0, why)
  PROVE  /\ taken = <<>>
         /\ Len(more) >= 2 => \A piece2, need2 :
              Http!InChunk("size", after, taken, SubSeq(more, 3, Len(more)), piece2, need2, why)
<1>1. PICK first, n, ends, j, e : HttpAt(first, n, ends, j, e, "large", after, taken, more, piece, 0, why)
  BY HttpOpen
<1> DEFINE S == Http!InChunks(first, ends)  o == Http!Offset(ends, j)  z == Http!SizeIn(ends, j)
           b == Http!Start(ends, j)
<1>2. /\ S \in Seq(Int) /\ Http!Handled(S, e, taken, more) /\ n \in Nat /\ ends \in Http!Layouts(n)
      /\ (z > 0 => j + 1 \in 1 .. Len(ends) + 1 /\ Http!Start(ends, j + 1) = b + z /\ Http!Offset(ends, j + 1) = o + z + 5)
  BY <1>1, HttpThere
<1>3. o \in Nat /\ b \in Nat /\ z \in Nat /\ first \in Nat /\ e \in Nat
  BY <1>1, HttpThere
<1>4. /\ z > 0 /\ taken = <<>> /\ e + Len(taken) + 0 = o + 3 + z /\ after + 1 + Len(taken) + 0 = first + b + z
  BY <1>1, HttpPlace DEF HttpAt
<1>5. e = o + 3 + z /\ after + 1 = first + b + z
  <2>1. Len(taken) = 0
    BY <1>4
  <2> HIDE DEF o, b, z
  <2> QED BY <2>1, <1>3, <1>4
<1>6. SUFFICES ASSUME Len(more) >= 2, NEW piece2, NEW need2
               PROVE  Http!InChunk("size", after, taken, SubSeq(more, 3, Len(more)), piece2, need2, why)
  BY <1>4
<1> DEFINE t == taken \o SubSeq(more, 1, 2)  m == SubSeq(more, 3, Len(more))
<1>7. /\ t \in Seq(Int) /\ Len(t) = 2 /\ m \in Seq(Int) /\ Http!Handled(S, e, t, m)
  <2>1. 2 \in 0 .. Len(more) /\ 2 + 1 = 3
    BY <1>6, LenProperties
  <2>2. Len(taken) + 2 = 2
    BY <1>4
  <2>3. /\ t \in Seq(Int) /\ Len(t) = Len(taken) + 2 /\ SubSeq(more, 2 + 1, Len(more)) \in Seq(Int)
        /\ Http!Handled(S, e, t, SubSeq(more, 2 + 1, Len(more)))
    BY <1>2, <1>3, <2>1, HttpReadMore
  <2> QED BY <2>1, <2>2, <2>3
<1> HIDE DEF t, m, S, o, b, z
<1>8. Http!Handled(S, e + 2, taken, m) /\ e + 2 \in 0 .. Len(S)
  <2>1. /\ Http!Drop(t, 2) \in Seq(Int) /\ Len(Http!Drop(t, 2)) = Len(t) - 2
        /\ Http!Handled(S, e + 2, Http!Drop(t, 2), m) /\ e + 2 \in 0 .. Len(S)
    <3>1. 2 \in 0 .. Len(t)
      BY <1>7
    <3> QED BY <1>2, <1>3, <1>7, <3>1, HttpDropped
  <2>2. Http!Drop(t, 2) = <<>>
    <3>1. Len(Http!Drop(t, 2)) = 0
      BY <2>1, <1>7
    <3> QED BY <2>1, <3>1, EmptySeq
  <2> QED BY <2>1, <2>2, <1>4
<1>9. Http!Within("size", first, ends, j + 1, e + 2, after, taken, piece2, need2)
  <2>1. e + 2 = o + z + 5 /\ after + 1 = first + (b + z)
    BY <1>3, <1>5
  <2>2. e + 2 = Http!Offset(ends, j + 1) /\ after + 1 = first + Http!Start(ends, j + 1)
    BY <2>1, <1>2, <1>4
  <2> QED BY <2>2, <1>2, <1>4, HttpPlace
<1>10. HttpAt(first, n, ends, j + 1, e + 2, "size", after, taken, m, piece2, need2, why)
  <2>1. e + 2 \in Nat /\ e + 2 <= Len(S)
    BY <1>2, <1>3, <1>8, LenProperties
  <2> QED BY <1>1, <1>8, <1>9, <2>1 DEF HttpAt, S
<1>11. first <= after + 1
  BY <1>3, <1>5
<1>12. Http!InChunk("size", after, taken, m, piece2, need2, why)
  BY <1>10, <1>11, HttpClose
<1> QED BY <1>12 DEF m

\* An answer in chunks begins.
LEMMA HttpChunksBegin ==
  ASSUME NEW after \in Nat, NEW n \in Nat, n = IF after < BodyLen THEN BodyLen - after ELSE 0,
         NEW ends \in Http!Layouts(n), NEW why, why # "redirections" => after <= BodyLen, NEW piece, NEW need
  PROVE  /\ Http!InChunks(after + 1, ends) \in Seq(Int)
         /\ Http!InChunk("size", after, <<>>, Http!InChunks(after + 1, ends), piece, need, why)
<1> DEFINE S == Http!InChunks(after + 1, ends)
<1>1. S \in Seq(Int) /\ Len(ends) \in Nat
  <2>1. after + 1 \in Nat
    OBVIOUS
  <2> QED BY <2>1, HttpSentSeq, HttpCuts
<1>2. 1 \in 1 .. Len(ends) + 1 /\ Http!Offset(ends, 1) = 0 /\ Http!Start(ends, 1) = 0
  <2>1. 1 \in 1 .. Len(ends) + 1
    BY <1>1
  <2> QED BY <2>1, HttpOffsets DEF Http!Start
<1> HIDE DEF S
<1>3. Http!Handled(S, 0, <<>>, S)
  <2>1. Len(<<>>) = 0 /\ Len(S) \in Nat
    BY <1>1, LenProperties
  <2>2. 0 + 0 + Len(S) = Len(S) /\ \A i \in 1 .. Len(S) : 0 + 0 + i = i
    BY <2>1
  <2>3. \A i \in 1 .. 0 : FALSE
    OBVIOUS
  <2> QED BY <2>1, <2>2, <2>3 DEF Http!Handled
<1>4. n <= BodyLen /\ (why # "redirections" => after + 1 + n = BodyLen + 1)
  BY HttpSizes
<1>5. Http!Within("size", after + 1, ends, 1, 0, after, <<>>, piece, need)
  <2>1. after + 1 = after + 1 + 0
    OBVIOUS
  <2> QED BY <1>2, <2>1, HttpPlace
<1>6. HttpAt(after + 1, n, ends, 1, 0, "size", after, <<>>, S, piece, need, why)
  <2>1. after + 1 \in Nat /\ after + 1 >= 1 /\ 0 \in Nat /\ 0 <= Len(S)
    BY <1>1, LenProperties
  <2> QED BY <1>3, <1>4, <1>5, <2>1 DEF HttpAt, S
<1>7. Http!InChunk("size", after, <<>>, S, piece, need, why)
  <2>1. after + 1 <= after + 1
    OBVIOUS
  <2> QED BY <1>6, <2>1, HttpClose
<1> QED BY <1>1, <1>7 DEF S
(* The steps before the body.                                             *)

\* During a get: it goes on or comes to its end, and the timer is left alone.
HttpGoesOn == s1 # "idle" /\ s1' # "idle" /\ s11' = s11

\* A get asks and is answered without the timer.
LEMMA HttpAsks ==
  ASSUME Http!Try \/ Http!Connect \/ Http!SendRequestFails \/ Http!SendHeadersFails \/ Http!RspFails
           \/ Http!Ask \/ Http!HeadersFail \/ Http!Redirected \/ Http!Answered
  PROVE  HttpGoesOn
<1> USE DEF HttpGoesOn, Http!GivesUp, Http!Again, Http!Refused, Http!AskFails, Http!ContentBegins
<1>1. CASE Http!Try \/ Http!Connect
  BY <1>1 DEF Http!Try, Http!Connect
<1>2. CASE Http!SendRequestFails \/ Http!SendHeadersFails \/ Http!RspFails
  BY <1>2 DEF Http!SendRequestFails, Http!SendHeadersFails, Http!RspFails
<1>3. CASE Http!Ask \/ Http!HeadersFail
  BY <1>3 DEF Http!Ask, Http!HeadersFail
<1>4. CASE Http!Redirected
  BY <1>4 DEF Http!Redirected
<1>5. CASE Http!Answered
  BY <1>5 DEF Http!Answered
<1>6. QED BY <1>1, <1>2, <1>3, <1>4, <1>5

\* A get reads what comes without the timer.
LEMMA HttpReads ==
  ASSUME Http!Content \/ Http!ChunkSize \/ Http!SmallChunk \/ Http!LargeChunk \/ Http!LargePart \/ Http!LargeEnds
  PROVE  HttpGoesOn
<1> USE DEF HttpGoesOn, Http!GivesUp, Http!Again, Http!Ended, Http!ChunkRet
<1>1. CASE Http!Content
  BY <1>1 DEF Http!Content
<1>2. CASE Http!ChunkSize
  BY <1>2 DEF Http!ChunkSize
<1>3. CASE Http!SmallChunk
  BY <1>3 DEF Http!SmallChunk
<1>4. CASE Http!LargeChunk
  BY <1>4 DEF Http!LargeChunk
<1>5. CASE Http!LargePart
  BY <1>5 DEF Http!LargePart
<1>6. CASE Http!LargeEnds
  BY <1>6 DEF Http!LargeEnds
<1>7. QED BY <1>1, <1>2, <1>3, <1>4, <1>5, <1>6

\* The kept connection and its timer.
LEMMA HttpTimer ==
  ASSUME Http!KeptIsTimed, Http!Next PROVE Http!KeptIsTimed'
<1>1. CASE HttpGoesOn
  BY <1>1 DEF HttpGoesOn, Http!KeptIsTimed
<1>2. CASE Http!Get
  BY <1>2 DEF Http!Get, Http!KeptIsTimed
<1>3. CASE Http!GetEnds
  BY <1>3 DEF Http!GetEnds, Http!KeptIsTimed
<1>4. CASE Http!KeepTimerEnds
  BY <1>4 DEF Http!KeepTimerEnds, Http!KeptIsTimed
<1>5. CASE Http!Stops
  BY <1>5 DEF Http!Stops, Http!KeptIsTimed, Http!link
<1>6. QED BY <1>1, <1>2, <1>3, <1>4, <1>5, HttpAsks, HttpReads DEF Http!Next

\* The names of the code for what went wrong.
Wrong == {"FAILED", "CONNECT", "CLOSED", "PRTCL"}

\* The numbers of the client are what they are.
LEMMA HttpNumbers ==
  ASSUME Http!HttpInv
  PROVE  /\ s2 \in Nat /\ s2 <= RESUME_COUNT_MAX + 1 /\ s3 \in 0 .. REDIRECTION_MAX + 1
         /\ s6 \in 0 .. 1 /\ s7 \in Nat /\ s19 \in Nat /\ s7 = s6 + s19
         /\ s8 \in Nat /\ s8 <= s7 + 4 * BodyLen /\ s15 \in 0 .. BodyLen
         /\ s16 \in Nat /\ s16 <= 4 * BodyLen
         /\ s12 \in Seq(Int) /\ s13 \in Seq(Int) /\ s14 \in Seq(Int)
         /\ Len(s13) \in Nat /\ Len(s13) <= MaxLen /\ Len(s14) \in Nat /\ Len(s14) <= MaxLen
         /\ s17 \in BOOLEAN /\ s18 \in Wrong \cup {"OK"}
         /\ s21 \in {Http!None, "redirections", "length"}
<1>1. /\ s12 \in Seq(Int) /\ s13 \in Seq(Int) /\ s14 \in Seq(Int) /\ s17 \in BOOLEAN
      /\ s21 \in {Http!None, "redirections", "length"}
  BY DEF Http!HttpInv, Http!HttpCounts
<1>2. Len(s13) \in Nat /\ Len(s14) \in Nat
  BY <1>1, LenProperties
<1>3. /\ s2 \in 0 .. RESUME_COUNT_MAX + 1 /\ s3 \in 0 .. REDIRECTION_MAX + 1 /\ s7 \in Nat
      /\ s16 \in 0 .. Http!SIZE_MAX /\ s15 \in 0 .. BodyLen /\ Len(s13) <= MaxLen /\ Len(s14) <= MaxLen
      /\ s18 \in Wrong \cup {"OK"}
  BY DEF Http!HttpInv, Http!HttpTypeOK, Wrong
<1>4. /\ s6 \in 0 .. 1 /\ s19 \in Nat /\ s7 = s6 + s19 /\ s8 \in Nat /\ s8 <= s7 + Http!SIZE_MAX
  BY DEF Http!HttpInv, Http!HttpCounts
<1>5. Http!SIZE_MAX = 4 * BodyLen
  BY DEF Http!SIZE_MAX
<1> QED BY <1>1, <1>2, <1>3, <1>4, <1>5, HttpSizes

\* The same, from the numbers back.
LEMMA HttpTypes ==
  ASSUME /\ s2' \in Nat /\ s2' <= RESUME_COUNT_MAX + 1 /\ s3' \in 0 .. REDIRECTION_MAX + 1
         /\ s7' \in Nat /\ s15' \in 0 .. BodyLen /\ s16' \in Nat /\ s16' <= 4 * BodyLen,
         Len(s13') <= MaxLen, Len(s14') <= MaxLen, s18' \in Wrong \cup {"OK"}
  PROVE  Http!HttpTypeOK'
BY HttpSizes DEF Http!HttpTypeOK, Http!SIZE_MAX, Wrong

\* What is counted stays within what was sent.
LEMMA HttpCounted ==
  ASSUME s6' \in 0 .. 1, s19' \in Nat, s7' = s6' + s19', s8' \in Nat, s8' <= s7' + 4 * BodyLen,
         s12' \in Seq(Int), s13' \in Seq(Int), s14' \in Seq(Int), s17' \in BOOLEAN,
         s21' \in {Http!None, "redirections", "length"}
  PROVE  Http!HttpCounts'
BY DEF Http!HttpCounts, Http!SIZE_MAX

\* Where nothing is being read, the place in the body does not matter.
LEMMA HttpOutside ==
  ASSUME s1' \notin {"content", "size", "chunk", "large"}, Http!HttpTypeOK', Http!KeptIsTimed',
         Http!HttpPhase', Http!HttpCounts', Http!HttpOrder', Http!EndIsWhole'
  PROVE  Http!HttpInv'
<1>1. Http!BodyIsNext' /\ Http!ChunkIsNext'
  BY DEF Http!BodyIsNext, Http!ChunkIsNext
<1> QED BY <1>1 DEF Http!HttpInv

\* A step that gives up, or tries again.
HttpLeft ==
  \/ s1' = "try" /\ s2' = s2 + 1 /\ s18' \in Wrong
  \/ s1' = "end" /\ s2' = s2 /\ s18' \in Wrong \cup {"OK"}

\* Outside the body nothing is promised of the bytes on the wire.
LEMMA HttpLeaves ==
  ASSUME Http!HttpInv, s1 \notin {"idle", "try", "end"}, HttpLeft
  PROVE  /\ Http!HttpPhase' /\ s2' \in Nat /\ s2' <= RESUME_COUNT_MAX + 1 /\ s18' \in Wrong \cup {"OK"}
         /\ s1' \notin {"content", "size", "chunk", "large"}
<1>1. s2 \in Nat /\ s2 <= RESUME_COUNT_MAX
  BY HttpNumbers DEF Http!HttpInv, Http!HttpPhase
<1>2. CASE s1' = "try" /\ s2' = s2 + 1 /\ s18' \in Wrong
  <2>1. s18' # "OK"
    BY <1>2 DEF Wrong
  <2> QED BY <1>1, <1>2, <2>1, HttpSizes DEF Http!HttpPhase
<1>3. CASE s1' = "end" /\ s2' = s2 /\ s18' \in Wrong \cup {"OK"}
  BY <1>1, <1>3, HttpSizes DEF Http!HttpPhase
<1> QED BY <1>2, <1>3 DEF HttpLeft

\* A get begins anew, or where the one before it was cut.
LEMMA HttpGets ==
  ASSUME Http!HttpInv, Http!KeptIsTimed', Http!Get PROVE Http!HttpInv'
<1>1. /\ s1' \in {"try", "end"} /\ s6' \in {0, 1} /\ s2' = 0 /\ s7' = s6' /\ s8' = 0 /\ s19' = 0 /\ s20' = TRUE
      /\ s21' = Http!None /\ s17' = FALSE /\ s18' \in {"OK", "FAILED"} /\ s3' = s3
      /\ s12' = s12 /\ s13' = s13 /\ s14' = s14 /\ s15' = s15 /\ s16' = s16
  BY DEF Http!Get, Http!link, Http!buffers
<1>2. Http!HttpTypeOK'
  <2>1. s18' \in Wrong \cup {"OK"} /\ s7' \in Nat
    BY <1>1 DEF Wrong
  <2> QED BY <1>1, <2>1, HttpNumbers, HttpTypes, HttpSizes
<1>3. Http!HttpCounts'
  <2>1. s6' \in 0 .. 1 /\ s19' \in Nat /\ s7' = s6' + s19' /\ s8' \in Nat /\ s8' <= s7' + 4 * BodyLen
    <3>5. 4 * BodyLen \in Nat
      BY HttpSizes
    <3>1. s8' = 0 /\ s19' = 0
      BY <1>1
    <3>2. (s6' = 0 /\ s7' = 0) \/ (s6' = 1 /\ s7' = 1)
      BY <1>1
    <3>3. s6' \in 0 .. 1 /\ s7' = s6' + s19' /\ s7' \in Nat
      BY <3>1, <3>2
    <3>6. 0 <= s7' + 4 * BodyLen
      BY <3>3, <3>5
    <3>4. s8' <= s7' + 4 * BodyLen /\ s8' \in Nat /\ s19' \in Nat
      BY <3>1, <3>6
    <3> QED BY <3>3, <3>4
  <2> QED BY <1>1, <2>1, HttpNumbers, HttpCounted
<1>4. Http!HttpOrder'
  <2>1. s7' <= BodyLen
    BY <1>1, HttpSizes
  <2> QED BY <1>1, <2>1 DEF Http!HttpOrder
<1>5. Http!HttpPhase'
  BY <1>1 DEF Http!HttpPhase
<1>6. Http!EndIsWhole'
  <2>1. ~(s19' > 0)
    BY <1>1
  <2> QED BY <2>1 DEF Http!EndIsWhole
<1>7. s1' \notin {"content", "size", "chunk", "large"}
  BY <1>1
<1> QED BY <1>2, <1>3, <1>4, <1>5, <1>6, <1>7, HttpOutside

\* A step before the body is asked for: only where the get is, its url, what it
\* tried and what is in its buffers change.
LEMMA HttpQuiet ==
  ASSUME Http!HttpInv, Http!KeptIsTimed', s1' \notin {"content", "size", "chunk", "large"},
         s6' = s6, s7' = s7, s17' = s17, s19' = s19, s20' = s20, s21' = s21, Http!HttpPhase',
         s2' \in Nat, s2' <= RESUME_COUNT_MAX + 1, s3' \in 0 .. REDIRECTION_MAX + 1,
         s8' \in Nat, s8' <= s7 + 4 * BodyLen, s12' \in Seq(Int), s13' \in Seq(Int), Len(s13') <= MaxLen,
         s14' = s14, s15' \in {s15, 0}, s16' \in {s16, 0}, s18' \in Wrong \cup {"OK"},
         s1' \in {"end", "idle"} => s18' \in Wrong \/ s17
  PROVE  Http!HttpInv'
<1>1. Http!HttpTypeOK'
  <2>1. s15' \in 0 .. BodyLen /\ s16' \in Nat /\ s16' <= 4 * BodyLen /\ s7' \in Nat /\ Len(s14') <= MaxLen
    <3>1. /\ s15 \in 0 .. BodyLen /\ s16 \in Nat /\ s16 <= 4 * BodyLen /\ BodyLen \in Nat
      BY HttpNumbers, HttpSizes
    <3>2. s15' \in 0 .. BodyLen
      BY <3>1
    <3>3. s16' \in Nat /\ s16' <= 4 * BodyLen
      BY <3>1
    <3>4. s7' \in Nat /\ Len(s14') <= MaxLen
      BY HttpNumbers
    <3> QED BY <3>2, <3>3, <3>4
  <2> QED BY <2>1, HttpTypes
<1>2. Http!HttpCounts'
  <2>1. s6' \in 0 .. 1 /\ s19' \in Nat /\ s7' = s6' + s19' /\ s14' \in Seq(Int) /\ s17' \in BOOLEAN
        /\ s21' \in {Http!None, "redirections", "length"} /\ s8' <= s7' + 4 * BodyLen
    BY HttpNumbers
  <2> QED BY <2>1, HttpCounted
<1>3. Http!HttpOrder'
  BY DEF Http!HttpInv, Http!HttpOrder
<1>4. Http!EndIsWhole'
  <2>1. "OK" \notin Wrong
    BY DEF Wrong
  <2> QED BY <2>1 DEF Http!EndIsWhole
<1> QED BY <1>1, <1>2, <1>3, <1>4, HttpOutside

\* A get that is stopped or tried too often ends with its last code.
LEMMA HttpTries ==
  ASSUME Http!HttpInv, Http!KeptIsTimed', Http!Try PROVE Http!HttpInv'
<1>1. /\ s1 = "try" /\ s3' = 0 /\ s1' = (IF s2 > RESUME_COUNT_MAX \/ s17 THEN "end" ELSE "connect")
      /\ s13' = <<>> /\ s15' = 0 /\ s16' = 0 /\ s2' = s2 /\ s6' = s6 /\ s7' = s7 /\ s8' = s8
      /\ s12' = s12 /\ s14' = s14 /\ s17' = s17 /\ s18' = s18 /\ s19' = s19 /\ s20' = s20 /\ s21' = s21
  BY DEF Http!Try, Http!link, Http!heard
<1>2. s18 = "OK" => s2 = 0
  BY <1>1 DEF Http!HttpInv, Http!HttpPhase
<1>3. s1' = "end" => s18' \in Wrong \/ s17
  BY <1>1, <1>2, HttpNumbers, HttpSizes
<1>4. Http!HttpPhase'
  <2>1. s1' \in {"end", "connect"} /\ (s1' = "connect" => s2' <= RESUME_COUNT_MAX /\ s3' <= REDIRECTION_MAX)
    <3>1. s2 \in Nat /\ RESUME_COUNT_MAX \in Nat /\ 0 <= REDIRECTION_MAX
      BY HttpSizes, HttpNumbers
    <3>2. s1' = "connect" => s2 <= RESUME_COUNT_MAX
      BY <1>1, <3>1
    <3> QED BY <1>1, <3>1, <3>2
  <2> QED BY <2>1 DEF Http!HttpPhase
<1>5. s13' \in Seq(Int) /\ Len(s13') <= MaxLen /\ s3' \in 0 .. REDIRECTION_MAX + 1
  BY <1>1, HttpSizes
<1>6. s1' \notin {"content", "size", "chunk", "large"} /\ (s1' \in {"end", "idle"} => s18' \in Wrong \/ s17)
  BY <1>1, <1>3
<1> QED BY <1>1, <1>4, <1>5, <1>6, HttpNumbers, HttpQuiet

\* The kept connection is used again, or a new one is made.
LEMMA HttpConnects ==
  ASSUME Http!HttpInv, Http!KeptIsTimed', Http!Connect PROVE Http!HttpInv'
<1>1. /\ s1 = "connect" /\ s12' = <<>> /\ s3' = s3 /\ s13' = s13 /\ s15' = s15 /\ s16' = s16 /\ s6' = s6
      /\ s7' = s7 /\ s8' = s8 /\ s14' = s14 /\ s17' = s17 /\ s19' = s19 /\ s20' = s20 /\ s21' = s21
      /\ \/ s1' = "ask" /\ s2' = s2 /\ s18' = s18
         \/ Http!Again("CONNECT") \/ Http!GivesUp("FAILED")
  BY DEF Http!Connect, Http!size, Http!buffers, Http!heard
<1>2. s12' \in Seq(Int)
  BY <1>1
<1>3. CASE s1' = "ask" /\ s2' = s2 /\ s18' = s18
  <2>1. Http!HttpPhase'
    BY <1>1, <1>3 DEF Http!HttpInv, Http!HttpPhase
  <2>2. s1' \notin {"content", "size", "chunk", "large"} /\ s1' \notin {"end", "idle"}
    BY <1>3
  <2> QED BY <1>1, <1>2, <1>3, <2>1, <2>2, HttpNumbers, HttpQuiet
<1>4. CASE Http!Again("CONNECT") \/ Http!GivesUp("FAILED")
  <2>1. HttpLeft /\ s18' \in Wrong
    BY <1>4 DEF Http!Again, Http!GivesUp, HttpLeft, Wrong
  <2>2. s1 \notin {"idle", "try", "end"}
    BY <1>1
  <2> QED BY <1>1, <1>2, <2>1, <2>2, HttpLeaves, HttpNumbers, HttpQuiet
<1> QED BY <1>1, <1>3, <1>4

\* A get that could not ask is tried again.
LEMMA HttpAskFails ==
  ASSUME Http!HttpInv, Http!KeptIsTimed', NEW whys, whys \subseteq Wrong \cup {"OK"}, Http!AskFails(whys)
  PROVE  Http!HttpInv'
<1>1. /\ s1 = "ask" /\ s12' = s12 /\ s3' = s3 /\ s13' = s13 /\ s15' = s15 /\ s16' = s16 /\ s6' = s6
      /\ s7' = s7 /\ s8' = s8 /\ s14' = s14 /\ s17' = s17 /\ s19' = s19 /\ s20' = s20 /\ s21' = s21
      /\ \E why \in whys \ {"OK"} : Http!Refused(why)
  BY DEF Http!AskFails, Http!goal, Http!link, Http!size, Http!buffers, Http!heard
<1>2. HttpLeft /\ s18' \in Wrong
  <2>1. PICK why \in Wrong : Http!Refused(why)
    BY <1>1
  <2> QED BY <2>1 DEF Http!Refused, Http!Again, Http!GivesUp, HttpLeft
<1>3. s1 \notin {"idle", "try", "end"}
  BY <1>1
<1> QED BY <1>1, <1>2, <1>3, HttpLeaves, HttpNumbers, HttpQuiet

\* The request is sent or not.
LEMMA HttpAskStep ==
  ASSUME Http!HttpInv, Http!KeptIsTimed',
         Http!SendRequestFails \/ Http!SendHeadersFails \/ Http!RspFails \/ Http!Ask
  PROVE  Http!HttpInv'
<1>1. CASE Http!SendRequestFails
  <2>1. {"FAILED"} \cup {"CONNECT" : w \in Http!Sent} \subseteq Wrong \cup {"OK"}
    BY DEF Wrong
  <2> QED BY <1>1, <2>1, HttpAskFails DEF Http!SendRequestFails
<1>2. CASE Http!SendHeadersFails
  <2>1. {"FAILED"} \cup Http!Sent \subseteq Wrong \cup {"OK"}
    BY DEF Wrong, Http!Sent
  <2> QED BY <1>2, <2>1, HttpAskFails DEF Http!SendHeadersFails
<1>3. CASE Http!RspFails
  <2>1. {"CONNECT", "PRTCL"} \subseteq Wrong \cup {"OK"}
    BY DEF Wrong
  <2> QED BY <1>3, <2>1, HttpAskFails DEF Http!RspFails
<1>4. CASE Http!Ask
  <2>1. /\ s1 = "ask" /\ s1' = "headers" /\ s12' = s12 /\ s3' = s3 /\ s13' = s13 /\ s15' = s15 /\ s16' = s16
        /\ s6' = s6 /\ s7' = s7 /\ s8' = s8 /\ s14' = s14 /\ s17' = s17 /\ s19' = s19 /\ s20' = s20 /\ s21' = s21
        /\ s2' = s2 /\ s18' = s18
    BY <1>4 DEF Http!Ask, Http!goal, Http!link, Http!size, Http!buffers, Http!heard
  <2>2. Http!HttpPhase'
    BY <2>1 DEF Http!HttpInv, Http!HttpPhase
  <2>3. s1' \notin {"content", "size", "chunk", "large"} /\ s1' \notin {"end", "idle"}
    BY <2>1
  <2> QED BY <2>1, <2>2, <2>3, HttpNumbers, HttpQuiet
<1> QED BY <1>1, <1>2, <1>3, <1>4

\* Headers that do not come are asked for again.
LEMMA HttpHeadersFail ==
  ASSUME Http!HttpInv, Http!KeptIsTimed', Http!HeadersFail PROVE Http!HttpInv'
<1>1. /\ s1 = "headers" /\ s12' = s12 /\ s3' = s3 /\ s13' = s13 /\ s15' = s15 /\ s16' = s16 /\ s6' = s6
      /\ s7' = s7 /\ s8' = s8 /\ s14' = s14 /\ s17' = s17 /\ s19' = s19 /\ s20' = s20 /\ s21' = s21
  BY DEF Http!HeadersFail, Http!goal, Http!link, Http!buffers, Http!heard
<1>2. HttpLeft /\ s18' \in Wrong
  BY DEF Http!HeadersFail, Http!Again, Http!GivesUp, HttpLeft, Wrong
<1>3. s1 \notin {"idle", "try", "end"}
  BY <1>1
<1> QED BY <1>1, <1>2, <1>3, HttpLeaves, HttpNumbers, HttpQuiet
(* The answer and a body with a length.                                   *)

\* Bytes that follow each other.
LEMMA HttpBytes ==
  ASSUME NEW b \in Nat, NEW n \in Nat
  PROVE  /\ Http!Bytes(b + 1, n) \in Seq(Int) /\ Len(Http!Bytes(b + 1, n)) = n
         /\ Http!Follow(Http!Bytes(b + 1, n), b)
<1> DEFINE s == [i \in 1 .. n |-> b + 1 + i - 1]
<1>1. Http!Bytes(b + 1, n) = s
  BY DEF Http!Bytes
<1>2. s \in [1 .. n -> Int]
  OBVIOUS
<1>3. s \in Seq(Int) /\ Len(s) = n
  BY <1>2, LenProperties, SeqDef
<1>4. \A i \in 1 .. n : s[i] = b + i
  OBVIOUS
<1>5. Http!Follow(s, b)
  BY <1>3, <1>4 DEF Http!Follow
<1> HIDE DEF s
<1> QED BY <1>1, <1>3, <1>5

\* What a read may bring.
LEMMA HttpReceives ==
  ASSUME NEW max \in Nat, NEW to_try \in BOOLEAN, NEW r \in Http!Received(max, to_try), s12 \in Seq(Int)
  PROVE  /\ r.n \in 0 .. Len(s12) /\ r.n \in Nat /\ r.n <= max /\ r.n <= Len(s12)
         /\ r.res \in {"OK", "CLOSED", "CONNECT"}
<1> DEFINE there == IF Len(s12) < max THEN Len(s12) ELSE max
           broken == [n : 0 .. there, res : {"CLOSED", "CONNECT"}]
<1>1. Len(s12) \in Nat /\ there \in Nat /\ there <= Len(s12) /\ there <= max
  BY LenProperties
<1> HIDE DEF there
<1>2. r.n \in 0 .. there /\ r.res \in {"OK", "CLOSED", "CONNECT"}
  <2>1. CASE max = 0
    <3>1. r = [n |-> 0, res |-> "OK"]
      BY <2>1 DEF Http!Received
    <3> QED BY <3>1, <1>1
  <2>2. CASE max # 0 /\ to_try
    <3>1. \/ r \in {[n |-> max, res |-> "OK"] : i \in {j \in {1} : there = max}}
          \/ r \in {b \in broken : b.n < max}
          \/ r \in [n : 0 .. there, res : {"OK"}]
      BY <2>2 DEF Http!Received, there
    <3>2. CASE r \in {[n |-> max, res |-> "OK"] : i \in {j \in {1} : there = max}}
      <4>1. r = [n |-> max, res |-> "OK"] /\ there = max
        BY <3>2
      <4> QED BY <4>1, <1>1
    <3>3. CASE r \in broken
      BY <3>3
    <3>4. CASE r \in [n : 0 .. there, res : {"OK"}]
      BY <3>4
    <3> QED BY <3>1, <3>2, <3>3, <3>4
  <2>3. CASE max # 0 /\ ~to_try
    <3>1. \/ r \in {[n |-> n, res |-> "OK"] : n \in 0 .. there}
          \/ r \in {[n |-> 0, res |-> "CLOSED"], [n |-> 0, res |-> "CONNECT"]}
      BY <2>3 DEF Http!Received, there
    <3>2. CASE r \in {[n |-> n, res |-> "OK"] : n \in 0 .. there}
      <4>1. PICK n \in 0 .. there : r = [n |-> n, res |-> "OK"]
        BY <3>2
      <4> QED BY <4>1
    <3>3. CASE r \in {[n |-> 0, res |-> "CLOSED"], [n |-> 0, res |-> "CONNECT"]}
      BY <3>3, <1>1
    <3> QED BY <3>1, <3>2, <3>3
  <2> QED BY <2>1, <2>2, <2>3
<1> QED BY <1>1, <1>2

\* Bytes go to the handler.
LEMMA HttpHands ==
  ASSUME Http!HttpInv, NEW bytes \in Seq(Int), Http!Hands(bytes), s6' = s6
  PROVE  /\ s19' \in Nat /\ s7' = s7 + Len(bytes) /\ s7' \in Nat /\ s7' = s6' + s19' /\ s7' >= s7
         /\ s20' \in BOOLEAN
         /\ Http!Follow(bytes, s7) /\ s20 => s20'
<1>1. Len(bytes) \in Nat
  BY LenProperties
<1>2. s6 \in Nat /\ s19 \in Nat /\ s7 \in Nat /\ s7 = s6 + s19
  BY HttpNumbers
<1>3. s19' = s19 + Len(bytes) /\ s7' = s7 + Len(bytes)
  BY DEF Http!Hands
<1>4. s20' = (s20 /\ \A i \in 1 .. Len(bytes) : bytes[i] = s6 + s19 + i)
  BY DEF Http!Hands
<1>5. s19' \in Nat /\ s7' \in Nat /\ s7' >= s7
  BY <1>1, <1>2, <1>3
<1>6. s7' = s6' + s19'
  <2> DEFINE l == Len(bytes)
  <2>1. l \in Nat /\ s19' = s19 + l /\ s7' = s7 + l
    BY <1>1, <1>3
  <2> HIDE DEF l
  <2> QED BY <2>1, <1>2
<1>7. ASSUME Http!Follow(bytes, s7), s20 PROVE s20'
  <2>1. \A i \in 1 .. Len(bytes) : bytes[i] = s6 + s19 + i
    BY <1>2, <1>7 DEF Http!Follow
  <2> QED BY <1>4, <1>7, <2>1
<1> QED BY <1>3, <1>4, <1>5, <1>6, <1>7

\* What has room behind a place has room behind a later one.
LEMMA HttpMoreRoom ==
  ASSUME NEW a \in Nat, NEW b \in Nat, NEW d \in Nat, NEW c \in Nat, a <= b + c, d >= b PROVE a <= d + c
OBVIOUS

\* A step while the body is read leaves the numbers in their ranges.
LEMMA HttpMoves ==
  ASSUME Http!HttpInv, s3' \in 0 .. REDIRECTION_MAX + 1, s6' = s6, s17' = s17,
         s21' \in {Http!None, "redirections", "length"},
         s8' \in Nat, s8' <= s7 + 4 * BodyLen, s7' \in Nat, s7' >= s7, s19' \in Nat, s7' = s6' + s19',
         s12' \in Seq(Int), s13' \in Seq(Int), s14' \in Seq(Int), Len(s13') <= MaxLen, Len(s14') <= MaxLen,
         s15' \in 0 .. BodyLen, s16' \in Nat, s16' <= 4 * BodyLen,
         s2' \in Nat, s2' <= RESUME_COUNT_MAX + 1, s18' \in Wrong \cup {"OK"}
  PROVE  Http!HttpTypeOK' /\ Http!HttpCounts'
<1>1. Http!HttpTypeOK'
  BY HttpTypes
<1>2. s8' <= s7' + 4 * BodyLen
  <2> DEFINE c == 4 * BodyLen
  <2>1. s7 \in Nat /\ c \in Nat
    BY HttpNumbers, HttpSizes
  <2>2. s8' \in Nat /\ s8' <= s7 + c /\ s7' \in Nat /\ s7' >= s7
    OBVIOUS
  <2> HIDE DEF c
  <2>3. s8' <= s7' + c
    BY <2>1, <2>2, HttpMoreRoom
  <2> QED BY <2>3 DEF c
<1>3. s6' \in 0 .. 1 /\ s17' \in BOOLEAN
  BY HttpNumbers
<1>4. Http!HttpCounts'
  BY <1>2, <1>3, HttpCounted
<1> QED BY <1>1, <1>4

\* The body, or what is taken for it, begins.
LEMMA HttpContentBegins ==
  ASSUME Http!HttpInv, Http!KeptIsTimed', s1 = "headers", NEW length \in Nat, length <= s7 + 4 * BodyLen,
         NEW first \in Seq(Int), Len(first) <= MaxLen, Http!ContentBegins(length, first),
         s3' \in 0 .. REDIRECTION_MAX + 1, s6' = s6, s7' = s7, s8' = length, s12' \in Seq(Int),
         s14' = s14, s15' = s15, s17' = s17, s19' = s19, s20' = s20,
         s21' \in {Http!None, "redirections", "length"}, s21' # "redirections" => s21 # "redirections",
         s21' # "redirections" =>
            /\ Http!Follow(first, s7) /\ Http!Follow(s12', s7 + Len(first))
            /\ s7 + Len(first) + Len(s12') <= BodyLen
            /\ s21' # "length" => length = BodyLen
  PROVE  Http!HttpInv'
<1> DEFINE need == IF length < s7 THEN 4 * BodyLen ELSE length - s7
           lf == Len(first)
<1>1. \/ lf > need /\ Http!GivesUp("FAILED") /\ s13' = <<>> /\ s16' = s16
      \/ ~(lf > need) /\ s1' = "content" /\ s13' = first /\ s16' = need - lf /\ s2' = s2 /\ s18' = s18
  BY DEF Http!ContentBegins, Http!SIZE_MAX
<1>2. lf \in Nat /\ s7 \in Nat /\ BodyLen \in Nat
  BY LenProperties, HttpNumbers, HttpSizes
<1>3. need \in Nat /\ need <= 4 * BodyLen
  BY <1>2
<1>4. /\ s7' \in Nat /\ s7' >= s7 /\ s19' \in Nat /\ s7' = s6' + s19' /\ s14' \in Seq(Int) /\ Len(s14') <= MaxLen
      /\ s15' \in 0 .. BodyLen /\ s2 \in Nat /\ s2 <= RESUME_COUNT_MAX
  BY HttpNumbers DEF Http!HttpInv, Http!HttpPhase
<1>5. Http!HttpOrder'
  BY DEF Http!HttpInv, Http!HttpOrder
<1>6. CASE lf > need /\ Http!GivesUp("FAILED") /\ s13' = <<>> /\ s16' = s16
  <2>1. HttpLeft /\ s18' \in Wrong /\ s1' = "end"
    BY <1>6 DEF Http!GivesUp, HttpLeft, Wrong
  <2>2. s1 \notin {"idle", "try", "end"}
    OBVIOUS
  <2>3. Http!HttpPhase' /\ s2' \in Nat /\ s2' <= RESUME_COUNT_MAX + 1 /\ s18' \in Wrong \cup {"OK"}
        /\ s1' \notin {"content", "size", "chunk", "large"}
    BY <2>1, <2>2, HttpLeaves
  <2>4. s13' \in Seq(Int) /\ Len(s13') <= MaxLen /\ s16' \in Nat /\ s16' <= 4 * BodyLen
    BY <1>6, HttpNumbers, HttpSizes
  <2>5. Http!HttpTypeOK' /\ Http!HttpCounts'
    BY <1>4, <2>3, <2>4, HttpMoves
  <2>6. Http!EndIsWhole'
    BY <2>1 DEF Http!EndIsWhole, Wrong
  <2> QED BY <1>5, <2>3, <2>5, <2>6, HttpOutside
<1>7. CASE ~(lf > need) /\ s1' = "content" /\ s13' = first /\ s16' = need - lf /\ s2' = s2 /\ s18' = s18
  <2>1. Http!HttpPhase'
    BY <1>4, <1>7 DEF Http!HttpPhase
  <2>2. s16' \in Nat /\ s16' <= 4 * BodyLen
    <3> HIDE DEF need, lf
    <3> QED BY <1>2, <1>3, <1>7
  <2>3. s2' \in Nat /\ s2' <= RESUME_COUNT_MAX + 1 /\ s18' \in Wrong \cup {"OK"}
    BY <1>7, HttpNumbers
  <2>4. Http!HttpTypeOK' /\ Http!HttpCounts'
    <3>1. s13' \in Seq(Int) /\ Len(s13') <= MaxLen
      BY <1>7
    <3> QED BY <1>4, <2>2, <2>3, <3>1, HttpMoves
  <2>5. Http!EndIsWhole' /\ Http!ChunkIsNext'
    BY <1>7 DEF Http!EndIsWhole, Http!ChunkIsNext
  <2>6. ASSUME s21' # "redirections" PROVE Http!InBody(s13', s12', s7', s16', s21')
    <3>1. Http!Follow(s13', s7') /\ Http!Follow(s12', s7' + Len(s13'))
          /\ s7' + Len(s13') + Len(s12') <= BodyLen
      BY <1>7, <2>6
    <3>2. ASSUME s21' # "length" PROVE s16' = BodyLen - s7' - Len(s13')
      <4>1. length = BodyLen /\ s7 <= BodyLen
        BY <2>6, <3>2 DEF Http!HttpInv, Http!HttpOrder
      <4>2. need = BodyLen - s7
        BY <4>1, <1>2
      <4> QED BY <4>2, <1>7
    <3> QED BY <3>1, <3>2 DEF Http!InBody
  <2>7. Http!BodyIsNext'
    BY <2>6 DEF Http!BodyIsNext
  <2> QED BY <1>5, <2>1, <2>4, <2>5, <2>7 DEF Http!HttpInv
<1> QED BY <1>1, <1>6, <1>7

\* A redirection begins the get at another address, at most REDIRECTION_MAX
\* times.
LEMMA HttpRedirects ==
  ASSUME Http!HttpInv, Http!KeptIsTimed', Http!Redirected PROVE Http!HttpInv'
<1>1. /\ s1 = "headers" /\ s3' = s3 + 1 /\ s12' = <<>> /\ s8' \in {s8, s7, s7 + 2}
      /\ s6' = s6 /\ s7' = s7 /\ s14' = s14 /\ s15' = s15 /\ s17' = s17 /\ s19' = s19 /\ s20' = s20
      /\ IF s3' <= REDIRECTION_MAX
           THEN s1' = "connect" /\ s13' = <<>> /\ s16' = s16 /\ s21' = s21 /\ s2' = s2 /\ s18' = s18
           ELSE s21' = "redirections" /\ \E rest \in {<<>>, <<Http!CR, Http!LF>>} : Http!ContentBegins(s8', rest)
  BY DEF Http!Redirected, Http!heard
<1>2. s3 \in Nat /\ s3 <= REDIRECTION_MAX /\ s2 \in Nat /\ s2 <= RESUME_COUNT_MAX
  BY <1>1, HttpNumbers, HttpSizes DEF Http!HttpInv, Http!HttpPhase
<1>3. s3' \in Nat /\ s3' \in 0 .. REDIRECTION_MAX + 1
  BY <1>1, <1>2, HttpSizes
<1>4. s8' \in Nat /\ s8' <= s7 + 4 * BodyLen
  <2>1. s8 \in Nat /\ s7 \in Nat /\ s8 <= s7 + 4 * BodyLen /\ BodyLen \in Nat /\ BodyLen >= 1
    BY HttpNumbers, HttpSizes
  <2>2. CASE s8' = s8
    BY <2>1, <2>2
  <2>3. CASE s8' = s7
    BY <2>1, <2>3
  <2>4. CASE s8' = s7 + 2
    BY <2>1, <2>4
  <2> QED BY <1>1, <2>2, <2>3, <2>4
<1>5. CASE s3' <= REDIRECTION_MAX
  <2>1. s1' = "connect" /\ s13' = <<>> /\ s16' = s16 /\ s21' = s21 /\ s2' = s2 /\ s18' = s18
    BY <1>1, <1>5
  <2>2. Http!HttpPhase'
    BY <1>2, <1>5, <2>1 DEF Http!HttpPhase
  <2>3. s13' \in Seq(Int) /\ Len(s13') <= MaxLen /\ s12' \in Seq(Int)
    BY <1>1, <2>1, HttpSizes
  <2>4. s1' \notin {"content", "size", "chunk", "large"} /\ s1' \notin {"end", "idle"}
    BY <2>1
  <2> QED BY <1>1, <1>3, <1>4, <2>1, <2>2, <2>3, <2>4, HttpNumbers, HttpQuiet
<1>6. CASE ~(s3' <= REDIRECTION_MAX)
  <2>1. PICK rest \in {<<>>, <<Http!CR, Http!LF>>} : s21' = "redirections" /\ Http!ContentBegins(s8', rest)
    BY <1>1, <1>6
  <2>2. rest \in Seq(Int) /\ Len(rest) <= MaxLen
    <3>1. CASE rest = <<>>
      BY <3>1, HttpSizes
    <3>2. CASE rest = <<Http!CR, Http!LF>>
      <4>1. Http!CR \in Int /\ Http!LF \in Int
        BY DEF Http!CR, Http!LF
      <4>2. rest \in Seq(Int) /\ Len(rest) = 2
        BY <3>2, <4>1
      <4> QED BY <4>2, HttpSizes
    <3> QED BY <3>1, <3>2
  <2>3. s12' \in Seq(Int)
    BY <1>1
  <2> QED BY <1>1, <1>3, <1>4, <2>1, <2>2, <2>3, HttpContentBegins
<1> QED BY <1>5, <1>6
\* An answer says how much comes, and what comes is the medium from where the
\* client is.
LEMMA HttpAnswers ==
  ASSUME Http!HttpInv, Http!KeptIsTimed', Http!Answered PROVE Http!HttpInv'
<1> DEFINE rest == IF s7 < BodyLen THEN BodyLen - s7 ELSE 0
           InParts == /\ s1' = "size" /\ s14' = <<>> /\ s13' = <<>>
                      /\ \E ends \in Http!Layouts(rest) : s12' = Http!InChunks(s7 + 1, ends)
                      /\ s8' = s8 /\ s16' = s16 /\ s21' = s21 /\ s2' = s2 /\ s18' = s18
           WithLength == /\ s14' = s14
                         /\ \/ s8' = rest + s7 /\ s21' = s21
                            \/ s8' = s8 /\ s21' = IF s21 = Http!None THEN "length" ELSE s21
                         /\ \E k \in {0, 1} :
                               /\ k <= rest /\ s12' = Http!Bytes(s7 + 1 + k, rest - k)
                               /\ Http!ContentBegins(s8', Http!Bytes(s7 + 1, k))
<1>1. /\ s1 = "headers" /\ s3' = s3 /\ s6' = s6 /\ s7' = s7 /\ s15' = s15 /\ s17' = s17 /\ s19' = s19 /\ s20' = s20
      /\ (InParts \/ WithLength)
  BY DEF Http!Answered, Http!goal, Http!heard
<1>2. s7 \in Nat /\ rest \in Nat /\ rest <= BodyLen /\ (s7 <= BodyLen => s7 + rest = BodyLen)
  BY HttpNumbers, HttpSizes
<1>3. s21 # "redirections" => s20 /\ s7 <= BodyLen
  BY DEF Http!HttpInv, Http!HttpOrder
<1>4. s2 \in Nat /\ s2 <= RESUME_COUNT_MAX
  BY <1>1, HttpNumbers DEF Http!HttpInv, Http!HttpPhase
<1>5. CASE InParts
  <2>1. PICK ends \in Http!Layouts(rest) : s12' = Http!InChunks(s7 + 1, ends)
    BY <1>5
  <2>2. /\ s12' \in Seq(Int)
        /\ Http!InChunk("size", s7, <<>>, s12', s15', s16', s21')
    <3>1. s21' # "redirections" => s7 <= BodyLen
      BY <1>3, <1>5
    <3>2. rest = IF s7 < BodyLen THEN BodyLen - s7 ELSE 0
      OBVIOUS
    <3> HIDE DEF rest
    <3> QED BY <1>2, <2>1, <3>1, <3>2, HttpChunksBegin
  <2>3. s1' = "size" /\ s14' = <<>> /\ s13' = <<>> /\ s8' = s8 /\ s16' = s16 /\ s21' = s21 /\ s2' = s2 /\ s18' = s18
    BY <1>5
  <2> HIDE DEF InParts, WithLength, rest
  <2>4. Http!HttpTypeOK' /\ Http!HttpCounts'
    <3>1. s13' \in Seq(Int) /\ s14' \in Seq(Int) /\ Len(s13') <= MaxLen /\ Len(s14') <= MaxLen
      BY <2>3, HttpSizes
    <3>2. s7' \in Nat /\ s7' >= s7 /\ s19' \in Nat /\ s7' = s6' + s19' /\ s15' \in 0 .. BodyLen
          /\ s16' \in Nat /\ s16' <= 4 * BodyLen /\ s8' \in Nat /\ s8' <= s7 + 4 * BodyLen
      BY <1>1, <2>3, HttpNumbers
    <3>3. s3' \in 0 .. REDIRECTION_MAX + 1 /\ s21' \in {Http!None, "redirections", "length"}
          /\ s2' \in Nat /\ s2' <= RESUME_COUNT_MAX + 1 /\ s18' \in Wrong \cup {"OK"}
      BY <1>1, <2>3, HttpNumbers
    <3> QED BY <1>1, <2>2, <3>1, <3>2, <3>3, HttpMoves
  <2>5. Http!HttpPhase'
    BY <1>4, <2>3 DEF Http!HttpPhase
  <2>6. Http!HttpOrder'
    BY <1>1, <2>3 DEF Http!HttpInv, Http!HttpOrder
  <2>7. Http!EndIsWhole' /\ Http!BodyIsNext'
    BY <2>3 DEF Http!EndIsWhole, Http!BodyIsNext
  <2>8. Http!ChunkIsNext'
    <3>1. Http!Follow(<<>>, s7')
      BY DEF Http!Follow
    <3>2. Len(s14') = 0 /\ s7' + 0 = s7
      BY <1>1, <1>2, <2>3
    <3>3. Http!InChunk(s1', s7' + Len(s14'), s13', s12', s15', s16', s21')
      BY <2>2, <2>3, <3>2
    <3> QED BY <2>3, <3>1, <3>3 DEF Http!ChunkIsNext
  <2> QED BY <2>4, <2>5, <2>6, <2>7, <2>8 DEF Http!HttpInv
<1>6. CASE WithLength
  <2>1. PICK k \in {0, 1} : /\ k <= rest /\ s12' = Http!Bytes(s7 + 1 + k, rest - k)
                            /\ Http!ContentBegins(s8', Http!Bytes(s7 + 1, k))
    BY <1>6
  <2>2. /\ s14' = s14
        /\ \/ s8' = rest + s7 /\ s21' = s21
           \/ s8' = s8 /\ s21' = IF s21 = Http!None THEN "length" ELSE s21
    BY <1>6
  <2>3. k \in Nat /\ k <= 1 /\ rest - k \in Nat /\ s7 + k \in Nat /\ s7 + 1 + k = s7 + k + 1
        /\ k + (rest - k) = rest
    BY <1>2, <2>1
  <2> HIDE DEF InParts, WithLength, rest
  <2>4. /\ Http!Bytes(s7 + 1, k) \in Seq(Int) /\ Len(Http!Bytes(s7 + 1, k)) = k
        /\ Http!Follow(Http!Bytes(s7 + 1, k), s7)
    BY <1>2, <2>3, HttpBytes
  <2>5. s12' \in Seq(Int) /\ Len(s12') = rest - k /\ Http!Follow(s12', s7 + k)
    <3>1. s12' = Http!Bytes(s7 + k + 1, rest - k)
      BY <2>1, <2>3
    <3> QED BY <2>3, <3>1, HttpBytes
  <2>6. /\ s21' \in {Http!None, "redirections", "length"}
        /\ s21' # "redirections" => s21 # "redirections"
        /\ s21' # "redirections" /\ s21' # "length" => s8' = rest + s7
    <3>1. s21 \in {Http!None, "redirections", "length"}
      BY HttpNumbers
    <3> QED BY <2>2, <3>1 DEF Http!None
  <2>7. s8' \in Nat /\ s8' <= s7 + 4 * BodyLen
    <3>1. s8 \in Nat /\ s8 <= s7 + 4 * BodyLen
      BY HttpNumbers
    <3>2. rest + s7 \in Nat /\ rest + s7 <= s7 + 4 * BodyLen
      BY <1>2, HttpSizes
    <3> QED BY <2>2, <3>1, <3>2
  <2>8. ASSUME s21' # "redirections"
        PROVE  /\ s7 + Len(Http!Bytes(s7 + 1, k)) + Len(s12') <= BodyLen
               /\ s21' # "length" => s8' = BodyLen
    <3>1. s7 + rest = BodyLen
      BY <1>2, <1>3, <2>6, <2>8
    <3>2. s7 + k + (rest - k) = s7 + rest
      BY <1>2, <2>3
    <3>3. s7 + Len(Http!Bytes(s7 + 1, k)) + Len(s12') <= BodyLen
      BY <2>4, <2>5, <3>1, <3>2, HttpSizes
    <3>4. s21' # "length" => s8' = BodyLen
      BY <1>2, <2>6, <2>8, <3>1
    <3> QED BY <3>3, <3>4
  <2>9. Len(Http!Bytes(s7 + 1, k)) <= MaxLen
    BY <2>3, <2>4, HttpSizes
  <2>10. s3' \in 0 .. REDIRECTION_MAX + 1
    BY <1>1, HttpNumbers
  <2>11. Http!Follow(s12', s7 + Len(Http!Bytes(s7 + 1, k)))
    BY <2>4, <2>5
  <2>12. Http!ContentBegins(s8', Http!Bytes(s7 + 1, k))
    BY <2>1
  <2>13. s21' # "redirections" =>
            /\ Http!Follow(Http!Bytes(s7 + 1, k), s7) /\ Http!Follow(s12', s7 + Len(Http!Bytes(s7 + 1, k)))
            /\ s7 + Len(Http!Bytes(s7 + 1, k)) + Len(s12') <= BodyLen
            /\ s21' # "length" => s8' = BodyLen
    BY <2>4, <2>8, <2>11
  <2>14. /\ s1 = "headers" /\ s6' = s6 /\ s7' = s7 /\ s15' = s15 /\ s17' = s17 /\ s19' = s19 /\ s20' = s20
         /\ s14' = s14 /\ s12' \in Seq(Int)
    BY <1>1, <2>2, <2>5
  <2> DEFINE f == Http!Bytes(s7 + 1, k)
  <2>15. f \in Seq(Int)
    BY <2>4
  <2> QED BY <2>6, <2>7, <2>9, <2>10, <2>12, <2>13, <2>14, <2>15, HttpContentBegins
<1> QED BY <1>1, <1>5, <1>6

\* A body with its length is handed on in order, and ends when all of it came.
LEMMA HttpContent ==
  ASSUME Http!HttpInv, Http!KeptIsTimed', Http!Content PROVE Http!HttpInv'
<1>1. s1 = "content" /\ s3' = s3 /\ s6' = s6 /\ s8' = s8 /\ s17' = s17 /\ s21' = s21
  BY DEF Http!Content, Http!goal
<1>2. s1 \notin {"idle", "try", "end"} /\ s3' \in 0 .. REDIRECTION_MAX + 1 /\ s2 \in Nat /\ s2 <= RESUME_COUNT_MAX
  BY <1>1, HttpNumbers DEF Http!HttpInv, Http!HttpPhase
<1>3. s21 # "redirections" => Http!InBody(s13, s12, s7, s16, s21) /\ s20 /\ s7 <= BodyLen
  BY <1>1 DEF Http!HttpInv, Http!BodyIsNext, Http!HttpOrder
<1>4. CASE (s16 = 0 /\ s13 = <<>>) \/ s17
  <2>1. /\ Http!GivesUp("OK") /\ s7' = s7 /\ s12' = s12 /\ s13' = s13 /\ s14' = s14 /\ s15' = s15 /\ s16' = s16
        /\ s19' = s19 /\ s20' = s20
    BY <1>4 DEF Http!Content, Http!link, Http!buffers, Http!heard
  <2>2. HttpLeft /\ s1' = "end"
    BY <2>1 DEF Http!GivesUp, HttpLeft
  <2>3. Http!HttpPhase' /\ s2' \in Nat /\ s2' <= RESUME_COUNT_MAX + 1 /\ s18' \in Wrong \cup {"OK"}
        /\ s1' \notin {"content", "size", "chunk", "large"}
    BY <1>2, <2>2, HttpLeaves
  <2>4. Http!HttpTypeOK' /\ Http!HttpCounts'
    <3>1. /\ s7' \in Nat /\ s7' >= s7 /\ s19' \in Nat /\ s7' = s6' + s19' /\ s8' \in Nat /\ s8' <= s7 + 4 * BodyLen
          /\ s16' \in Nat /\ s16' <= 4 * BodyLen
      BY <1>1, <2>1, HttpNumbers
    <3>2. s12' \in Seq(Int) /\ s13' \in Seq(Int) /\ s14' \in Seq(Int) /\ Len(s13') <= MaxLen /\ Len(s14') <= MaxLen
          /\ s15' \in 0 .. BodyLen /\ s21' \in {Http!None, "redirections", "length"}
      BY <1>1, <2>1, HttpNumbers
    <3> QED BY <1>1, <1>2, <2>3, <3>1, <3>2, HttpMoves
  <2>5. Http!HttpOrder'
    BY <1>1, <2>1 DEF Http!HttpInv, Http!HttpOrder
  <2>6. Http!EndIsWhole'
    <3> SUFFICES ASSUME ~s17', s21' \notin {"redirections", "length"} PROVE s7' = BodyLen
      BY DEF Http!EndIsWhole
    <3>1. s16 = 0 /\ Len(s13) = 0 /\ s16 = BodyLen - s7 - Len(s13)
      BY <1>1, <1>3, <1>4 DEF Http!InBody
    <3>2. s7 \in Nat /\ BodyLen \in Nat
      BY HttpNumbers, HttpSizes
    <3> QED BY <2>1, <3>1, <3>2
  <2> QED BY <2>3, <2>4, <2>5, <2>6, HttpOutside
<1>5. CASE ~((s16 = 0 /\ s13 = <<>>) \/ s17)
  <2> DEFINE max == IF MaxLen - Len(s13) > s16 THEN s16 ELSE MaxLen - Len(s13)
  <2>1. PICK r \in Http!Received(max, TRUE) :
          /\ Http!Reads(r) /\ s16' = s16 - r.n
          /\ Http!Hands(s13 \o SubSeq(s12, 1, r.n)) /\ s13' = <<>>
          /\ IF r.res # "OK" THEN Http!Ended(r.res)
             ELSE IF s16' > 0 /\ r.n = 0 /\ s13 = <<>> THEN Http!GivesUp("FAILED")
             ELSE s1' = s1 /\ s2' = s2 /\ s18' = s18
          /\ s14' = s14 /\ s15' = s15
    BY <1>5 DEF Http!Content
  <2>2. Len(s13) \in Nat /\ Len(s13) <= MaxLen /\ s16 \in Nat /\ s16 <= 4 * BodyLen /\ MaxLen \in Nat
        /\ s12 \in Seq(Int) /\ s13 \in Seq(Int) /\ Len(s12) \in Nat /\ s7 \in Nat
    BY HttpNumbers, HttpSizes, LenProperties
  <2>3. max \in Nat /\ max <= s16
    BY <2>2
  <2> HIDE DEF max
  <2>4. r.n \in 0 .. Len(s12) /\ r.n \in Nat /\ r.n <= s16 /\ r.n <= Len(s12) /\ r.res \in {"OK", "CLOSED", "CONNECT"}
    <3>1. r.n \in 0 .. Len(s12) /\ r.n \in Nat /\ r.n <= max /\ r.n <= Len(s12) /\ r.res \in {"OK", "CLOSED", "CONNECT"}
      BY <2>2, <2>3, HttpReceives
    <3> QED BY <2>2, <2>3, <3>1
  <2> DEFINE front == SubSeq(s12, 1, r.n)  all == s13 \o front
  <2>5. front \in Seq(Int) /\ Len(front) = r.n /\ \A i \in 1 .. r.n : front[i] = s12[i]
    BY <2>2, <2>4, HttpFront
  <2> HIDE DEF front
  <2>6. /\ all \in Seq(Int) /\ Len(all) = Len(s13) + r.n
        /\ \A i \in 1 .. Len(s13) + r.n : all[i] = IF i <= Len(s13) THEN s13[i] ELSE front[i - Len(s13)]
    <3>1. /\ all \in Seq(Int) /\ Len(all) = Len(s13) + Len(front)
          /\ \A i \in 1 .. Len(s13) + Len(front) : all[i] = IF i <= Len(s13) THEN s13[i] ELSE front[i - Len(s13)]
      BY <2>2, <2>5, ConcatProperties
    <3>2. Len(front) = r.n
      BY <2>5
    <3> HIDE DEF all
    <3> QED BY <3>1, <3>2
  <2>7. /\ s12' \in Seq(Int) /\ Len(s12') = Len(s12) - r.n
        /\ \A i \in 1 .. Len(s12) - r.n : s12'[i] = s12[i + r.n]
    <3>1. s12' = SubSeq(s12, r.n + 1, Len(s12))
      BY <2>1 DEF Http!Reads
    <3> QED BY <2>2, <2>4, <3>1, HttpBehind
  <2>8. Http!Hands(all)
    BY <2>1 DEF front
  <2> HIDE DEF all
  <2>9. /\ s19' \in Nat /\ s7' = s7 + Len(all) /\ s7' \in Nat /\ s7' = s6' + s19' /\ s7' >= s7
        /\ s20' \in BOOLEAN /\ (Http!Follow(all, s7) /\ s20 => s20')
    BY <1>1, <2>6, <2>8, HttpHands
  <2>10. ASSUME s21 # "redirections" PROVE Http!Follow(all, s7)
    <3>1. Http!Follow(s13, s7) /\ Http!Follow(s12, s7 + Len(s13))
      BY <1>3, <2>10 DEF Http!InBody
    <3>2. ASSUME NEW i \in 1 .. Len(all) PROVE all[i] = s7 + i
      <4>1. i \in 1 .. Len(s13) + r.n /\ i \in Nat
        BY <2>2, <2>4, <2>6
      <4>2. CASE i <= Len(s13)
        <5>1. i \in 1 .. Len(s13) /\ all[i] = s13[i]
          BY <2>2, <2>6, <4>1, <4>2
        <5> QED BY <3>1, <5>1 DEF Http!Follow
      <4>3. CASE ~(i <= Len(s13))
        <5>1. i - Len(s13) \in 1 .. r.n /\ i - Len(s13) \in 1 .. Len(s12)
          BY <2>2, <2>4, <4>1, <4>3
        <5>2. all[i] = front[i - Len(s13)] /\ front[i - Len(s13)] = s12[i - Len(s13)]
          BY <2>5, <2>6, <4>1, <4>3, <5>1
        <5>3. s12[i - Len(s13)] = s7 + Len(s13) + (i - Len(s13))
          BY <3>1, <5>1 DEF Http!Follow
        <5>4. s7 + Len(s13) + (i - Len(s13)) = s7 + i
          BY <2>2, <4>1
        <5> QED BY <5>2, <5>3, <5>4
      <4> QED BY <4>2, <4>3
    <3> QED BY <3>2 DEF Http!Follow
  <2>11. ASSUME s21 # "redirections"
         PROVE  /\ s7' + Len(s12') <= BodyLen /\ Http!Follow(s12', s7')
                /\ s21 # "length" => s16' = BodyLen - s7'
    <3>1. /\ Http!Follow(s12, s7 + Len(s13)) /\ s7 + Len(s13) + Len(s12) <= BodyLen
          /\ s21 # "length" => s16 = BodyLen - s7 - Len(s13)
      BY <1>3, <2>11 DEF Http!InBody
    <3> DEFINE l == Len(s13)  n == r.n  w == Len(s12)  w2 == Len(s12')
    <3>2. l \in Nat /\ n \in Nat /\ w \in Nat /\ n <= w /\ w2 = w - n /\ s7' = s7 + (l + n) /\ s16' = s16 - n
          /\ s7 + l + w <= BodyLen /\ (s21 # "length" => s16 = BodyLen - s7 - l)
      BY <2>1, <2>2, <2>4, <2>6, <2>7, <2>9, <3>1
    <3> HIDE DEF l, n, w, w2
    <3>3. s7' + w2 <= BodyLen
      BY <2>2, <3>2, HttpSizes
    <3>4. s21 # "length" => s16' = BodyLen - s7'
      BY <2>2, <3>2, HttpSizes
    <3>5. Http!Follow(s12', s7')
      <4>1. ASSUME NEW i \in 1 .. Len(s12') PROVE s12'[i] = s7' + i
        <5>1. i \in 1 .. w - n /\ i + n \in 1 .. w /\ i \in Nat
          BY <3>2 DEF w2
        <5>2. s12'[i] = s12[i + n]
          BY <2>7, <5>1 DEF w, n
        <5>3. s12[i + n] = s7 + l + (i + n)
          BY <3>1, <5>1 DEF Http!Follow, w, l
        <5>4. s7 + l + (i + n) = s7' + i
          BY <2>2, <3>2, <5>1
        <5> QED BY <5>2, <5>3, <5>4
      <4> QED BY <4>1 DEF Http!Follow
    <3> QED BY <3>3, <3>4, <3>5 DEF w2
  <2>12. Http!HttpOrder'
    <3>1. ASSUME s21 # "redirections" PROVE s20' /\ s7' <= BodyLen
      <4>1. Len(s12') \in Nat
        BY <2>7, LenProperties
      <4>2. s7' + Len(s12') <= BodyLen
        BY <2>11, <3>1
      <4>3. s7' <= BodyLen
        BY <2>9, <4>1, <4>2, HttpSizes
      <4> QED BY <1>3, <2>9, <2>10, <3>1, <4>3
    <3> QED BY <1>1, <2>9, <3>1 DEF Http!HttpOrder
  <2>13. s16' \in Nat /\ s16' <= 4 * BodyLen
    <3>1. s16' = s16 - r.n
      BY <2>1
    <3> QED BY <2>2, <2>4, <3>1, HttpSizes
  <2>14. ASSUME s2' \in Nat, s2' <= RESUME_COUNT_MAX + 1, s18' \in Wrong \cup {"OK"}
         PROVE  Http!HttpTypeOK' /\ Http!HttpCounts'
    <3>1. s13' \in Seq(Int) /\ Len(s13') <= MaxLen
      BY <2>1, HttpSizes
    <3>2. s14' \in Seq(Int) /\ Len(s14') <= MaxLen /\ s15' \in 0 .. BodyLen
          /\ s21' \in {Http!None, "redirections", "length"} /\ s8' \in Nat /\ s8' <= s7 + 4 * BodyLen
      BY <1>1, <2>1, HttpNumbers
    <3> QED BY <1>1, <1>2, <2>7, <2>9, <2>13, <2>14, <3>1, <3>2, HttpMoves
  <2>15. CASE r.res # "OK" \/ (r.res = "OK" /\ s16' > 0 /\ r.n = 0 /\ s13 = <<>>)
    <3>1. (r.res # "OK" /\ Http!Ended(r.res)) \/ Http!GivesUp("FAILED")
      BY <2>1, <2>15
    <3>2. HttpLeft /\ s18' \in Wrong
      <4>1. CASE r.res # "OK" /\ Http!Ended(r.res)
        BY <2>4, <4>1 DEF Http!Ended, Http!Again, HttpLeft, Wrong
      <4>2. CASE Http!GivesUp("FAILED")
        BY <4>2 DEF Http!GivesUp, HttpLeft, Wrong
      <4> QED BY <3>1, <4>1, <4>2
    <3>3. Http!HttpPhase' /\ s2' \in Nat /\ s2' <= RESUME_COUNT_MAX + 1 /\ s18' \in Wrong \cup {"OK"}
        /\ s1' \notin {"content", "size", "chunk", "large"}
      BY <1>2, <3>2, HttpLeaves
    <3>4. Http!EndIsWhole'
      BY <3>2 DEF Http!EndIsWhole, Wrong
    <3> QED BY <2>12, <2>14, <3>3, <3>4, HttpOutside
  <2>16. CASE s1' = s1 /\ s2' = s2 /\ s18' = s18
    <3>1. Http!HttpPhase'
      BY <1>1, <1>2, <2>16 DEF Http!HttpPhase
    <3>2. Http!HttpTypeOK' /\ Http!HttpCounts'
      <4>1. s2' \in Nat /\ s2' <= RESUME_COUNT_MAX + 1 /\ s18' \in Wrong \cup {"OK"}
        BY <2>16, HttpNumbers
      <4> QED BY <2>14, <4>1
    <3>3. Http!EndIsWhole' /\ Http!ChunkIsNext'
      BY <1>1, <2>16 DEF Http!EndIsWhole, Http!ChunkIsNext
    <3>4. Http!BodyIsNext'
      <4>1. ASSUME s21' # "redirections" PROVE Http!InBody(s13', s12', s7', s16', s21')
        <5>1. Len(s13') = 0 /\ s13' = <<>>
          BY <2>1
        <5>2. s7' + Len(s12') <= BodyLen /\ Http!Follow(s12', s7') /\ (s21' # "length" => s16' = BodyLen - s7')
          BY <1>1, <2>11, <4>1
        <5>3. s7' + 0 = s7' /\ BodyLen - s7' - 0 = BodyLen - s7'
          BY <2>9, HttpSizes
        <5>4. Http!Follow(s13', s7')
          BY <5>1 DEF Http!Follow
        <5> QED BY <5>1, <5>2, <5>3, <5>4 DEF Http!InBody
      <4> QED BY <4>1 DEF Http!BodyIsNext
    <3> QED BY <2>12, <3>1, <3>2, <3>3, <3>4 DEF Http!HttpInv
  <2> QED BY <2>1, <2>15, <2>16
<1> QED BY <1>4, <1>5
(* The chunks.                                                            *)

\* What is collected and what comes next fit together.
LEMMA HttpInChunks ==
  ASSUME Http!HttpInv, s1 \in {"size", "chunk", "large"}
  PROVE  /\ Http!Follow(s14, s7) /\ s7 + Len(s14) \in Nat
         /\ Http!InChunk(s1, s7 + Len(s14), s13, s12, s15, s16, s21)
         /\ s21 # "redirections" => s7 + Len(s14) <= BodyLen
         /\ s1 \notin {"idle", "try", "end"}
<1>1. Http!Follow(s14, s7) /\ Http!InChunk(s1, s7 + Len(s14), s13, s12, s15, s16, s21)
  BY DEF Http!HttpInv, Http!ChunkIsNext
<1>2. s7 + Len(s14) \in Nat /\ s13 \in Seq(Int) /\ s16 \in Nat
  BY HttpNumbers
<1>3. s21 # "redirections" => s7 + Len(s14) <= BodyLen
  BY <1>1, <1>2, HttpNotBeyond
<1> QED BY <1>1, <1>2, <1>3

\* RET of duer_http_recv_chunk.
LEMMA HttpChunkRet ==
  ASSUME Http!HttpInv, Http!KeptIsTimed', s1 \in {"size", "chunk", "large"}, NEW res \in Wrong \cup {"OK"},
         Http!ChunkRet(res), s3' = s3, s6' = s6, s8' = s8, s15' = s15, s17' = s17, s21' = s21,
         s12' \in Seq(Int), s13' \in Seq(Int), Len(s13') <= MaxLen, s16' \in Nat, s16' <= 4 * BodyLen,
         res = "OK" => s17 \/ (s1 = "chunk" /\ s15 = 0)
  PROVE  Http!HttpInv'
<1>1. /\ IF res = "OK" THEN Http!Hands(s14) ELSE s19' = s19 /\ s20' = s20 /\ s7' = s7
      /\ s14' = <<>> /\ Http!Ended(res)
  BY DEF Http!ChunkRet
<1>2. Len(s14) \in Nat /\ s14 \in Seq(Int) /\ s7 \in Nat /\ s19 \in Nat /\ s7 = s6 + s19
  BY HttpNumbers
<1>3. HttpLeft /\ (s18' = "OK" => res = "OK") /\ (s18' = "OK" => s1' = "end")
  BY <1>1 DEF Http!Ended, Http!Again, Http!GivesUp, HttpLeft, Wrong
<1>4. Http!HttpPhase' /\ s2' \in Nat /\ s2' <= RESUME_COUNT_MAX + 1 /\ s18' \in Wrong \cup {"OK"}
        /\ s1' \notin {"content", "size", "chunk", "large"}
  BY <1>3, HttpInChunks, HttpLeaves
<1>5. /\ s19' \in Nat /\ s7' \in Nat /\ s7' = s6' + s19' /\ s7' >= s7
      /\ s7' = s7 \/ s7' = s7 + Len(s14)
  <2>1. CASE res = "OK"
    BY <1>1, <1>2, <2>1, HttpHands
  <2>2. CASE res # "OK"
    BY <1>1, <1>2, <2>2
  <2> QED BY <2>1, <2>2
<1>6. s20' \in BOOLEAN /\ (s20 => s20')
  <2>1. CASE res = "OK"
    <3>1. Http!Follow(s14, s7)
      BY HttpInChunks
    <3> QED BY <1>1, <1>2, <2>1, <3>1, HttpHands
  <2>2. CASE res # "OK"
    <3>1. s20 \in BOOLEAN
      BY DEF Http!HttpInv, Http!HttpOrder
    <3> QED BY <1>1, <2>2, <3>1
  <2> QED BY <2>1, <2>2
<1>7. Http!HttpOrder'
  <2>1. ASSUME s21 # "redirections" PROVE s20' /\ s7' <= BodyLen
    <3>1. s20 /\ s7 <= BodyLen
      BY <2>1 DEF Http!HttpInv, Http!HttpOrder
    <3>2. s7 + Len(s14) <= BodyLen
      BY <2>1, HttpInChunks
    <3>3. s7' <= BodyLen
      BY <1>5, <3>1, <3>2
    <3> QED BY <1>6, <3>1, <3>3
  <2> QED BY <1>6, <2>1 DEF Http!HttpOrder
<1>8. Http!HttpTypeOK' /\ Http!HttpCounts'
  <2>1. s14' \in Seq(Int) /\ Len(s14') <= MaxLen
    BY <1>1, HttpSizes
  <2>2. s3' \in 0 .. REDIRECTION_MAX + 1 /\ s21' \in {Http!None, "redirections", "length"}
        /\ s8' \in Nat /\ s8' <= s7 + 4 * BodyLen /\ s15' \in 0 .. BodyLen
    BY HttpNumbers
  <2> QED BY <1>4, <1>5, <2>1, <2>2, HttpMoves
<1>9. Http!EndIsWhole'
  <2> SUFFICES ASSUME s18' = "OK", ~s17', s21' \notin {"redirections", "length"} PROVE s7' = BodyLen
    BY DEF Http!EndIsWhole
  <2>1. res = "OK" /\ s1 = "chunk" /\ s15 = 0 /\ s21 # "redirections"
    BY <1>3
  <2>2. s7 + Len(s14) = BodyLen
    <3>1. Http!InChunk("chunk", s7 + Len(s14), s13, s12, 0, s16, s21) /\ s7 + Len(s14) \in Nat
      BY <2>1, HttpInChunks
    <3> QED BY <2>1, <3>1, HttpLastChunk
  <2>3. s7' = s7 + Len(s14)
    BY <1>1, <2>1 DEF Http!Hands
  <2> QED BY <2>2, <2>3
<1> QED BY <1>4, <1>7, <1>8, <1>9, HttpOutside

\* More of a chunk is collected.
LEMMA HttpCollects ==
  ASSUME Http!HttpInv, s6' = s6, Http!Follow(s14, s7), NEW bytes \in Seq(Int), Len(bytes) <= MaxLen,
         Http!Follow(bytes, s7 + Len(s14)), Http!Collects(bytes)
  PROVE  /\ s14' \in Seq(Int) /\ Len(s14') <= MaxLen /\ Http!Follow(s14', s7')
         /\ s7' + Len(s14') = s7 + Len(s14) + Len(bytes)
         /\ s7' \in Nat /\ s7' >= s7 /\ s19' \in Nat /\ s7' = s6' + s19'
         /\ s20' \in BOOLEAN /\ (s20 => s20')
<1> DEFINE n == MaxLen - Len(s14)
<1>1. /\ Len(s14) \in Nat /\ Len(s14) <= MaxLen /\ s14 \in Seq(Int) /\ s7 \in Nat /\ s19 \in Nat /\ s7 = s6 + s19
      /\ Len(bytes) \in Nat /\ MaxLen \in Nat
  BY HttpNumbers, HttpSizes, LenProperties
<1>2. CASE Len(s14) + Len(bytes) >= MaxLen
  <2>1. Http!Hands(s14 \o SubSeq(bytes, 1, n)) /\ s14' = Http!Drop(bytes, n)
    BY <1>2 DEF Http!Collects
  <2>2. n \in Nat /\ n <= Len(bytes)
    BY <1>1, <1>2
  <2>9. Len(s14) + n = MaxLen
    BY <1>1
  <2> HIDE DEF n
  <2> DEFINE front == SubSeq(bytes, 1, n)  all == s14 \o front
  <2>3. front \in Seq(Int) /\ Len(front) = n /\ \A i \in 1 .. n : front[i] = bytes[i]
    BY <2>2, HttpFront
  <2>4. /\ Http!Drop(bytes, n) \in Seq(Int) /\ Len(Http!Drop(bytes, n)) = Len(bytes) - n
        /\ \A i \in 1 .. Len(bytes) - n : Http!Drop(bytes, n)[i] = bytes[i + n]
    BY <2>2, HttpBehind DEF Http!Drop
  <2>10. Http!Hands(all)
    BY <2>1
  <2> HIDE DEF front
  <2>5. /\ all \in Seq(Int) /\ Len(all) = Len(s14) + n
        /\ \A i \in 1 .. Len(s14) + n : all[i] = IF i <= Len(s14) THEN s14[i] ELSE front[i - Len(s14)]
    BY <1>1, <2>3, ConcatProperties
  <2> HIDE DEF all
  <2>6. Http!Follow(all, s7)
    <3>1. ASSUME NEW i \in 1 .. Len(all) PROVE all[i] = s7 + i
      <4>1. i \in 1 .. Len(s14) + n /\ i \in Nat
        BY <1>1, <2>2, <2>5
      <4>2. CASE i <= Len(s14)
        <5>1. i \in 1 .. Len(s14) /\ all[i] = s14[i]
          BY <1>1, <2>5, <4>1, <4>2
        <5> QED BY <5>1 DEF Http!Follow
      <4>3. CASE ~(i <= Len(s14))
        <5>1. i - Len(s14) \in 1 .. n /\ i - Len(s14) \in 1 .. Len(bytes)
          BY <1>1, <2>2, <4>1, <4>3
        <5>2. all[i] = front[i - Len(s14)] /\ front[i - Len(s14)] = bytes[i - Len(s14)]
          BY <2>3, <2>5, <4>1, <4>3, <5>1
        <5>3. bytes[i - Len(s14)] = s7 + Len(s14) + (i - Len(s14))
          BY <5>1 DEF Http!Follow
        <5>4. s7 + Len(s14) + (i - Len(s14)) = s7 + i
          BY <1>1, <4>1
        <5> QED BY <5>2, <5>3, <5>4
      <4> QED BY <4>2, <4>3
    <3> QED BY <3>1 DEF Http!Follow
  <2>7. /\ s19' \in Nat /\ s7' = s7 + Len(all) /\ s7' \in Nat /\ s7' = s6' + s19' /\ s7' >= s7
        /\ s20' \in BOOLEAN /\ (s20 => s20')
    BY <2>5, <2>6, <2>10, HttpHands
  <2> DEFINE l == Len(s14)  lb == Len(bytes)  l2 == Len(s14')
  <2>8. /\ s7' = s7 + (l + n) /\ l2 = lb - n /\ l \in Nat /\ n \in Nat /\ n <= lb /\ lb \in Nat /\ lb <= MaxLen
        /\ l + n = MaxLen
    BY <1>1, <2>1, <2>2, <2>4, <2>5, <2>7, <2>9
  <2> HIDE DEF l, lb, l2
  <2>11. s7' + l2 = s7 + l + lb /\ l2 <= MaxLen
    BY <1>1, <2>8
  <2>12. Http!Follow(s14', s7')
    <3>1. ASSUME NEW i \in 1 .. Len(s14') PROVE s14'[i] = s7' + i
      <4>1. i \in 1 .. lb - n /\ i + n \in 1 .. lb /\ i \in Nat
        BY <2>8 DEF l2
      <4>2. s14'[i] = bytes[i + n]
        BY <2>1, <2>4, <4>1 DEF lb
      <4>3. bytes[i + n] = s7 + l + (i + n)
        BY <4>1 DEF Http!Follow, lb, l
      <4>4. s7 + l + (i + n) = s7' + i
        BY <1>1, <2>8, <4>1
      <4> QED BY <4>2, <4>3, <4>4
    <3> QED BY <3>1 DEF Http!Follow
  <2>13. s14' \in Seq(Int)
    BY <2>1, <2>4
  <2> QED BY <2>7, <2>11, <2>12, <2>13 DEF l, lb, l2
<1>3. CASE ~(Len(s14) + Len(bytes) >= MaxLen)
  <2>1. s14' = s14 \o bytes /\ s19' = s19 /\ s20' = s20 /\ s7' = s7
    BY <1>3 DEF Http!Collects
  <2> DEFINE all == s14 \o bytes
  <2>2. /\ all \in Seq(Int) /\ Len(all) = Len(s14) + Len(bytes)
        /\ \A i \in 1 .. Len(s14) + Len(bytes) : all[i] = IF i <= Len(s14) THEN s14[i] ELSE bytes[i - Len(s14)]
    BY <1>1, ConcatProperties
  <2>6. s14' = all
    BY <2>1
  <2> HIDE DEF all
  <2>3. Http!Follow(all, s7)
    <3>1. ASSUME NEW i \in 1 .. Len(all) PROVE all[i] = s7 + i
      <4>1. i \in 1 .. Len(s14) + Len(bytes) /\ i \in Nat
        BY <1>1, <2>2
      <4>2. CASE i <= Len(s14)
        <5>1. i \in 1 .. Len(s14) /\ all[i] = s14[i]
          BY <1>1, <2>2, <4>1, <4>2
        <5> QED BY <5>1 DEF Http!Follow
      <4>3. CASE ~(i <= Len(s14))
        <5>1. i - Len(s14) \in 1 .. Len(bytes)
          BY <1>1, <4>1, <4>3
        <5>2. all[i] = bytes[i - Len(s14)]
          BY <2>2, <4>1, <4>3
        <5>3. bytes[i - Len(s14)] = s7 + Len(s14) + (i - Len(s14))
          BY <5>1 DEF Http!Follow
        <5>4. s7 + Len(s14) + (i - Len(s14)) = s7 + i
          BY <1>1, <4>1
        <5> QED BY <5>2, <5>3, <5>4
      <4> QED BY <4>2, <4>3
    <3> QED BY <3>1 DEF Http!Follow
  <2>4. s20 \in BOOLEAN
    BY DEF Http!HttpInv, Http!HttpOrder
  <2>5. Len(s14') <= MaxLen /\ s7' + Len(s14') = s7 + Len(s14) + Len(bytes) /\ s7' >= s7 /\ s7' \in Nat
    BY <1>1, <1>3, <2>1, <2>2, <2>6
  <2>7. s19' \in Nat /\ s7' = s6' + s19' /\ s20' \in BOOLEAN /\ (s20 => s20')
    BY <1>1, <2>1, <2>4
  <2> QED BY <2>1, <2>2, <2>3, <2>5, <2>6, <2>7
<1> QED BY <1>2, <1>3

\* A step inside an answer in chunks, and one that gives up there.
LEMMA HttpChunkMoves ==
  ASSUME Http!HttpInv, Http!KeptIsTimed', s1 \in {"size", "chunk", "large"}, NEW where \in {"size", "chunk", "large"},
         Http!InChunk(where, s7' + Len(s14'), s13', s12', s15', s16', s21'),
         \/ s1' = where /\ s2' = s2 /\ s18' = s18
         \/ HttpLeft /\ s18' \in Wrong,
         s3' = s3, s6' = s6, s8' = s8, s17' = s17, s21' = s21,
         s12' \in Seq(Int), s13' \in Seq(Int), Len(s13') <= MaxLen, s14' \in Seq(Int), Len(s14') <= MaxLen,
         s15' \in 0 .. BodyLen, s16' \in Nat, s16' <= 4 * BodyLen,
         Http!Follow(s14', s7'), s7' \in Nat, s7' >= s7, s19' \in Nat, s7' = s6' + s19',
         s20' \in BOOLEAN, s20 => s20'
  PROVE  Http!HttpInv'
<1>1. s1 \notin {"idle", "try", "end"} /\ s2 \in Nat /\ s2 <= RESUME_COUNT_MAX
  BY HttpNumbers, HttpInChunks DEF Http!HttpInv, Http!HttpPhase
<1>2. Http!HttpOrder'
  <2>1. ASSUME s21 # "redirections" PROVE s20' /\ s7' <= BodyLen
    <3>1. s20
      BY <2>1 DEF Http!HttpInv, Http!HttpOrder
    <3>2. Len(s14') \in Nat /\ s7' + Len(s14') \in Nat
      BY LenProperties
    <3>3. s7' + Len(s14') <= BodyLen
      BY <2>1, <3>2, HttpNotBeyond
    <3>4. s7' <= BodyLen
      BY <3>2, <3>3, HttpSizes
    <3> QED BY <3>1, <3>4
  <2> QED BY <2>1 DEF Http!HttpOrder
<1>3. ASSUME s2' \in Nat, s2' <= RESUME_COUNT_MAX + 1, s18' \in Wrong \cup {"OK"}
      PROVE  Http!HttpTypeOK' /\ Http!HttpCounts'
  <2>1. s3' \in 0 .. REDIRECTION_MAX + 1 /\ s21' \in {Http!None, "redirections", "length"}
        /\ s8' \in Nat /\ s8' <= s7 + 4 * BodyLen
    BY HttpNumbers
  <2> QED BY <1>3, <2>1, HttpMoves
<1>4. CASE s1' = where /\ s2' = s2 /\ s18' = s18
  <2>1. Http!HttpPhase'
    BY <1>1, <1>4 DEF Http!HttpPhase
  <2>2. Http!HttpTypeOK' /\ Http!HttpCounts'
    <3>1. s2' \in Nat /\ s2' <= RESUME_COUNT_MAX + 1 /\ s18' \in Wrong \cup {"OK"}
      BY <1>4, HttpNumbers
    <3> QED BY <1>3, <3>1
  <2>3. Http!EndIsWhole' /\ Http!BodyIsNext'
    BY <1>4 DEF Http!EndIsWhole, Http!BodyIsNext
  <2>4. Http!ChunkIsNext'
    BY <1>4 DEF Http!ChunkIsNext
  <2> QED BY <1>2, <2>1, <2>2, <2>3, <2>4 DEF Http!HttpInv
<1>5. CASE HttpLeft /\ s18' \in Wrong
  <2>1. Http!HttpPhase' /\ s2' \in Nat /\ s2' <= RESUME_COUNT_MAX + 1 /\ s18' \in Wrong \cup {"OK"}
        /\ s1' \notin {"content", "size", "chunk", "large"}
    BY <1>1, <1>5, HttpLeaves
  <2>2. Http!EndIsWhole'
    BY <1>5 DEF Http!EndIsWhole, Wrong
  <2> QED BY <1>2, <1>3, <2>1, <2>2, HttpOutside
<1> QED BY <1>4, <1>5
\* The line with the size of a chunk is read, and the chunk it is about follows.
LEMMA HttpChunkSize ==
  ASSUME Http!HttpInv, Http!KeptIsTimed', Http!ChunkSize PROVE Http!HttpInv'
<1>1. s1 = "size" /\ s3' = s3 /\ s6' = s6 /\ s8' = s8 /\ s17' = s17 /\ s21' = s21
  BY DEF Http!ChunkSize, Http!goal
<1>2. /\ s12 \in Seq(Int) /\ s13 \in Seq(Int) /\ s14 \in Seq(Int) /\ Len(s13) \in Nat /\ Len(s13) <= MaxLen
      /\ s16 \in Nat /\ s16 <= 4 * BodyLen /\ s15 \in 0 .. BodyLen /\ MaxLen \in Nat /\ Len(s14) <= MaxLen
      /\ s7 \in Nat /\ s19 \in Nat /\ s7 = s6 + s19
  BY HttpNumbers, HttpSizes
<1>3. /\ Http!Follow(s14, s7) /\ s7 + Len(s14) \in Nat
      /\ Http!InChunk("size", s7 + Len(s14), s13, s12, s15, s16, s21)
  BY <1>1, HttpInChunks
<1>4. s20 \in BOOLEAN
  BY DEF Http!HttpInv, Http!HttpOrder
<1>5. CASE s17
  <2>1. Http!ChunkRet("OK") /\ s12' = s12 /\ s13' = s13 /\ s15' = s15 /\ s16' = s16
    BY <1>5 DEF Http!ChunkSize
  <2> QED BY <1>1, <1>2, <1>5, <2>1, HttpChunkRet
<1>6. CASE ~s17 /\ Http!LineEnds # {}
  <2> DEFINE i == CHOOSE j \in Http!LineEnds : \A k \in Http!LineEnds : j <= k
  <2>1. /\ s15' = Http!SizeOf(s13[1]) /\ s13' = Http!Drop(s13, i + 1) /\ s1' = "chunk"
        /\ s12' = s12 /\ s14' = s14 /\ s16' = s16 /\ s2' = s2 /\ s18' = s18 /\ s19' = s19 /\ s20' = s20 /\ s7' = s7
    BY <1>6 DEF Http!ChunkSize, Http!heard
  <2>2. PICK x \in 1 .. Len(s13) - 2 : s13[x] = Http!CR /\ s13[x + 1] = Http!LF
    BY <1>6 DEF Http!LineEnds
  <2>3. /\ Len(s13) >= 4 /\ s13[1] # Http!CR /\ s13[2] = Http!CR /\ s13[3] = Http!LF
        /\ Http!SizeOf(s13[1]) \in 0 .. BodyLen
        /\ Http!InChunk("chunk", s7 + Len(s14), Http!Drop(s13, 3), s12, Http!SizeOf(s13[1]), s16, s21)
    BY <1>2, <1>3, <2>2, HttpSizeLine
  <2>4. i = 2
    <3>1. 2 \in Http!LineEnds
      <4>1. 2 \in 1 .. Len(s13) - 2 /\ 2 + 1 = 3
        BY <1>2, <2>3
      <4> QED BY <2>3, <4>1 DEF Http!LineEnds
    <3>2. \A k \in Http!LineEnds : k \in Nat /\ k >= 1 /\ k # 1
      <4>1. ASSUME NEW k \in Http!LineEnds PROVE k \in Nat /\ k >= 1 /\ k # 1
        <5>1. k \in 1 .. Len(s13) - 2 /\ s13[k] = Http!CR
          BY <4>1 DEF Http!LineEnds
        <5>2. k # 1
          BY <2>3, <5>1
        <5>3. Len(s13) \in Nat
          BY <1>2
        <5>4. k \in Nat /\ k >= 1
          BY ONLY <5>1, <5>3
        <5> QED BY <5>2, <5>4
      <4> QED BY <4>1
    <3>3. \A k \in Http!LineEnds : 2 <= k
      BY <3>2
    <3>4. i \in Http!LineEnds /\ \A k \in Http!LineEnds : i <= k
      BY <3>1, <3>3
    <3>5. i \in Nat /\ i >= 2 /\ i <= 2
      BY <3>1, <3>2, <3>3, <3>4
    <3> HIDE DEF i
    <3> QED BY <3>5
  <2>5. s13' = Http!Drop(s13, 3)
    <3> HIDE DEF i
    <3>1. i + 1 = 3
      BY ONLY <2>4
    <3> QED BY <2>1, <3>1
  <2>6. s13' \in Seq(Int) /\ Len(s13') <= MaxLen
    <3>1. 3 \in Nat /\ 3 <= Len(s13)
      BY <2>3
    <3>2. Http!Drop(s13, 3) \in Seq(Int) /\ Len(Http!Drop(s13, 3)) = Len(s13) - 3
      BY <1>2, <3>1, HttpBehind DEF Http!Drop
    <3> QED BY <1>2, <2>5, <3>2
  <2>7. Http!InChunk("chunk", s7' + Len(s14'), s13', s12', s15', s16', s21')
    BY <1>1, <2>1, <2>3, <2>5
  <2>8. Http!Follow(s14', s7')
    BY <1>3, <2>1
  <2>9. s15' \in 0 .. BodyLen /\ s7' \in Nat /\ s7' >= s7 /\ s19' \in Nat /\ s7' = s6' + s19'
    BY <1>1, <1>2, <2>1, <2>3
  <2>10. s20' \in BOOLEAN /\ (s20 => s20')
    BY <1>4, <2>1
  <2>11. s12' \in Seq(Int) /\ s14' \in Seq(Int) /\ Len(s14') <= MaxLen /\ s16' \in Nat /\ s16' <= 4 * BodyLen
    BY <1>2, <2>1
  <2>12. s1' = "chunk" /\ s2' = s2 /\ s18' = s18
    BY <2>1
  <2> HIDE DEF i
  <2> QED BY <1>1, <2>6, <2>7, <2>8, <2>9, <2>10, <2>11, <2>12, HttpChunkMoves
<1>7. CASE ~s17 /\ Http!LineEnds = {} /\ Len(s13) >= MaxLen
  <2>1. Http!ChunkRet("PRTCL") /\ s12' = s12 /\ s13' = s13 /\ s15' = s15 /\ s16' = s16
    BY <1>7 DEF Http!ChunkSize
  <2>2. "PRTCL" \in Wrong \cup {"OK"}
    BY DEF Wrong
  <2> QED BY <1>1, <1>2, <2>1, <2>2, HttpChunkRet
<1>8. CASE ~s17 /\ Http!LineEnds = {} /\ ~(Len(s13) >= MaxLen)
  <2>1. PICK r \in Http!Received(MaxLen - Len(s13), FALSE) :
          /\ Http!Reads(r) /\ s13' = s13 \o SubSeq(s12, 1, r.n)
          /\ IF r.res = "OK"
               THEN s1' = s1 /\ s14' = s14 /\ s2' = s2 /\ s18' = s18 /\ s19' = s19 /\ s20' = s20 /\ s7' = s7
               ELSE Http!ChunkRet(r.res)
          /\ s15' = s15 /\ s16' = s16
    BY <1>8 DEF Http!ChunkSize, Http!heard
  <2>2. MaxLen - Len(s13) \in Nat
    BY <1>2, <1>8
  <2>3. r.n \in 0 .. Len(s12) /\ r.n \in Nat /\ r.n <= MaxLen - Len(s13) /\ r.res \in {"OK", "CLOSED", "CONNECT"}
    BY <1>2, <2>2, HttpReceives
  <2>4. s12' = SubSeq(s12, r.n + 1, Len(s12))
    BY <2>1 DEF Http!Reads
  <2>5. s12' \in Seq(Int) /\ s13' \in Seq(Int) /\ Len(s13') = Len(s13) + r.n
    <3>1. r.n <= Len(s12) /\ Len(s12) \in Nat
      BY <1>2, <2>3, LenProperties
    <3>2. SubSeq(s12, 1, r.n) \in Seq(Int) /\ Len(SubSeq(s12, 1, r.n)) = r.n
      BY <1>2, <2>3, <3>1, HttpFront
    <3>3. SubSeq(s12, r.n + 1, Len(s12)) \in Seq(Int)
      BY <1>2, <2>3, <3>1, HttpBehind
    <3>4. s13 \o SubSeq(s12, 1, r.n) \in Seq(Int)
          /\ Len(s13 \o SubSeq(s12, 1, r.n)) = Len(s13) + Len(SubSeq(s12, 1, r.n))
      BY <1>2, <3>2, ConcatProperties
    <3> QED BY <2>1, <2>4, <3>2, <3>3, <3>4
  <2>6. Len(s13') <= MaxLen
    <3>1. r.n \in Nat /\ r.n <= MaxLen - Len(s13)
      BY <2>3
    <3>2. Len(s13) \in Nat /\ MaxLen \in Nat
      BY <1>2
    <3>3. Len(s13') = Len(s13) + r.n
      BY <2>5
    <3> QED BY ONLY <3>1, <3>2, <3>3
  <2>7. CASE r.res = "OK"
    <3>1. s1' = "size" /\ s14' = s14 /\ s2' = s2 /\ s18' = s18 /\ s19' = s19 /\ s20' = s20 /\ s7' = s7
          /\ s15' = s15 /\ s16' = s16
      BY <1>1, <2>1, <2>7
    <3>2. Http!InChunk("size", s7 + Len(s14), s13 \o SubSeq(s12, 1, r.n), SubSeq(s12, r.n + 1, Len(s12)), s15, s16, s21)
      BY <1>2, <1>3, <2>3, HttpSizeRead
    <3>3. Http!InChunk("size", s7' + Len(s14'), s13', s12', s15', s16', s21')
      BY <1>1, <2>1, <2>4, <3>1, <3>2
    <3>4. Http!Follow(s14', s7') /\ s20' \in BOOLEAN /\ (s20 => s20')
      BY <1>3, <1>4, <3>1
    <3>5. /\ s14' \in Seq(Int) /\ Len(s14') <= MaxLen /\ s15' \in 0 .. BodyLen /\ s16' \in Nat /\ s16' <= 4 * BodyLen
          /\ s7' \in Nat /\ s7' >= s7 /\ s19' \in Nat /\ s7' = s6' + s19'
      BY <1>1, <1>2, <3>1
    <3>6. s1' = "size" /\ s2' = s2 /\ s18' = s18
      BY <3>1
    <3> QED BY <1>1, <2>5, <2>6, <3>3, <3>4, <3>5, <3>6, HttpChunkMoves
  <2>8. CASE r.res # "OK"
    <3>1. Http!ChunkRet(r.res) /\ s15' = s15 /\ s16' = s16
      BY <2>1, <2>8
    <3>2. r.res \in Wrong \cup {"OK"}
      BY <2>3 DEF Wrong
    <3>3. s16' \in Nat /\ s16' <= 4 * BodyLen
      BY <1>2, <3>1
    <3> QED BY <1>1, <2>5, <2>6, <2>8, <3>1, <3>2, <3>3, HttpChunkRet
  <2> QED BY <2>7, <2>8
<1> QED BY <1>5, <1>6, <1>7, <1>8

\* A chunk that fits is waited for with its line end and handed on.
LEMMA HttpSmallChunk ==
  ASSUME Http!HttpInv, Http!KeptIsTimed', Http!SmallChunk PROVE Http!HttpInv'
<1>1. /\ s1 = "chunk" /\ s3' = s3 /\ s6' = s6 /\ s8' = s8 /\ s17' = s17 /\ s21' = s21 /\ s15' = s15 /\ s16' = s16
      /\ s15 + 2 <= MaxLen
  BY DEF Http!SmallChunk, Http!goal, Http!Fits
<1>2. /\ s12 \in Seq(Int) /\ s13 \in Seq(Int) /\ s14 \in Seq(Int) /\ Len(s13) \in Nat /\ Len(s13) <= MaxLen
      /\ s16 \in Nat /\ s16 <= 4 * BodyLen /\ s15 \in 0 .. BodyLen /\ MaxLen \in Nat /\ s15 \in Nat
  BY HttpNumbers, HttpSizes
<1>3. /\ Http!Follow(s14, s7) /\ s7 + Len(s14) \in Nat
      /\ Http!InChunk("chunk", s7 + Len(s14), s13, s12, s15, s16, s21)
  BY <1>1, HttpInChunks
<1>9. s16' \in Nat /\ s16' <= 4 * BodyLen /\ s15' \in 0 .. BodyLen
  BY <1>1, <1>2
<1>4. CASE s15 = 0 \/ s17
  <2>1. Http!ChunkRet("OK") /\ s12' = s12 /\ s13' = s13
    BY <1>4 DEF Http!SmallChunk
  <2> QED BY <1>1, <1>2, <1>4, <1>9, <2>1, HttpChunkRet
<1>5. CASE ~(s15 = 0 \/ s17)
  <2> DEFINE max == IF Len(s13) < s15 + 2 THEN s15 + 2 - Len(s13) ELSE 0
  <2>1. PICK r \in Http!Received(max, TRUE) :
          LET all == s13 \o SubSeq(s12, 1, r.n)
          IN /\ Http!Reads(r)
             /\ IF r.res # "OK" THEN Http!ChunkRet(r.res) /\ s13' = s13
                ELSE IF Len(all) < s15 + 2 THEN Http!ChunkRet("PRTCL") /\ s13' = s13
                ELSE /\ Http!Collects(SubSeq(all, 1, s15))
                     /\ s13' = Http!Drop(all, s15 + 2)
                     /\ IF all[s15 + 1] = Http!CR /\ all[s15 + 2] = Http!LF
                          THEN s1' = "size" /\ s2' = s2 /\ s18' = s18
                          ELSE Http!GivesUp("PRTCL")
    BY <1>5 DEF Http!SmallChunk
  <2>2. max \in Nat /\ Len(s13) + max <= MaxLen
    BY <1>1, <1>2
  <2> HIDE DEF max
  <2>3. r.n \in 0 .. Len(s12) /\ r.n \in Nat /\ r.n <= max /\ r.n <= Len(s12) /\ r.res \in {"OK", "CLOSED", "CONNECT"}
    BY <1>2, <2>2, HttpReceives
  <2> DEFINE all == s13 \o SubSeq(s12, 1, r.n)
  <2>4. s12' = SubSeq(s12, r.n + 1, Len(s12))
    BY <2>1 DEF Http!Reads
  <2>5. all \in Seq(Int) /\ Len(all) = Len(s13) + r.n /\ s12' \in Seq(Int)
    <3>2. SubSeq(s12, 1, r.n) \in Seq(Int) /\ Len(SubSeq(s12, 1, r.n)) = r.n
      BY <1>2, <2>3, HttpFront
    <3>3. SubSeq(s12, r.n + 1, Len(s12)) \in Seq(Int)
      BY <1>2, <2>3, HttpBehind
    <3>4. all \in Seq(Int) /\ Len(all) = Len(s13) + Len(SubSeq(s12, 1, r.n))
      BY <1>2, <3>2, ConcatProperties
    <3> QED BY <2>4, <3>2, <3>3, <3>4
  <2>6. CASE r.res # "OK" \/ Len(all) < s15 + 2
    <3>1. PICK res \in Wrong : Http!ChunkRet(res) /\ s13' = s13
      BY <2>1, <2>3, <2>6 DEF Wrong
    <3>2. res # "OK"
      BY DEF Wrong
    <3>3. s13' \in Seq(Int) /\ Len(s13') <= MaxLen
      BY <1>2, <3>1
    <3> QED BY <1>1, <1>9, <2>5, <3>1, <3>2, <3>3, HttpChunkRet
  <2>7. CASE ~(r.res # "OK" \/ Len(all) < s15 + 2)
    <3>1. /\ Http!Collects(SubSeq(all, 1, s15)) /\ s13' = Http!Drop(all, s15 + 2)
          /\ (s1' = "size" /\ s2' = s2 /\ s18' = s18) \/ Http!GivesUp("PRTCL")
      BY <2>1, <2>7
    <3>2. all = s13 \o SubSeq(s12, 1, r.n)
      OBVIOUS
    <3> HIDE DEF all
    <3>3. s15 > 0 /\ Len(all) >= s15 + 2 /\ s15 + 2 \in Nat /\ s15 + 2 <= Len(all)
      BY <1>2, <1>5, <2>3, <2>5, <2>7
    <3>4. /\ SubSeq(all, 1, s15) \in Seq(Int) /\ Len(SubSeq(all, 1, s15)) = s15
          /\ Http!Follow(SubSeq(all, 1, s15), s7 + Len(s14))
          /\ Http!InChunk("size", s7 + Len(s14) + s15, Http!Drop(all, s15 + 2), SubSeq(s12, r.n + 1, Len(s12)),
                          s15, s16, s21)
      <4> DEFINE after == s7 + Len(s14)
      <4>1. /\ after \in Nat /\ s13 \in Seq(Int) /\ s12 \in Seq(Int) /\ s15 \in Nat
            /\ r.n \in 0 .. Len(s12)
        BY <1>2, <1>3, <2>3
      <4>2. Http!InChunk("chunk", after, s13, s12, s15, s16, s21)
        BY <1>3
      <4> HIDE DEF after
      <4>3. s15 > 0 /\ Len(all) >= s15 + 2
        BY ONLY <3>3
      <4>4. SubSeq(all, 1, s15) \in Seq(Int)
        BY ONLY <3>2, <4>1, <4>2, <4>3, HttpChunkIsThere
      <4>5. Len(SubSeq(all, 1, s15)) = s15
        BY ONLY <3>2, <4>1, <4>2, <4>3, HttpChunkIsThere
      <4>6. Http!Follow(SubSeq(all, 1, s15), after)
        BY ONLY <3>2, <4>1, <4>2, <4>3, HttpChunkIsThere
      <4>7. \A piece2, need2 :
              Http!InChunk("size", after + s15, Http!Drop(all, s15 + 2), SubSeq(s12, r.n + 1, Len(s12)),
                           piece2, need2, s21)
        BY ONLY <3>2, <4>1, <4>2, <4>3, HttpChunkIsThere
      <4> QED BY ONLY <4>4, <4>5, <4>6, <4>7 DEF after
    <3>5. Len(SubSeq(all, 1, s15)) <= MaxLen
      BY <1>1, <1>2, <3>4
    <3>6. /\ s14' \in Seq(Int) /\ Len(s14') <= MaxLen /\ Http!Follow(s14', s7')
          /\ s7' + Len(s14') = s7 + Len(s14) + Len(SubSeq(all, 1, s15))
          /\ s7' \in Nat /\ s7' >= s7 /\ s19' \in Nat /\ s7' = s6' + s19'
          /\ s20' \in BOOLEAN /\ (s20 => s20')
      BY <1>1, <1>3, <3>1, <3>4, <3>5, HttpCollects
    <3>7. s13' \in Seq(Int) /\ Len(s13') <= MaxLen
      <4>1. Http!Drop(all, s15 + 2) \in Seq(Int) /\ Len(Http!Drop(all, s15 + 2)) = Len(all) - (s15 + 2)
        BY <2>5, <3>3, HttpBehind DEF Http!Drop
      <4>2. Len(all) <= MaxLen /\ Len(all) \in Nat
        <5>1. Len(s13) \in Nat
          BY <1>2
        <5>2. Len(all) = Len(s13) + r.n
          BY <2>5
        <5> QED BY ONLY <2>2, <2>3, <5>1, <5>2, HttpSizes
      <4> QED BY <1>2, <3>1, <4>1, <4>2
    <3>8. Http!InChunk("size", s7' + Len(s14'), s13', s12', s15', s16', s21')
      BY <1>1, <2>4, <3>1, <3>4, <3>6
    <3>9. (s1' = "size" /\ s2' = s2 /\ s18' = s18) \/ (HttpLeft /\ s18' \in Wrong)
      BY <3>1 DEF Http!GivesUp, HttpLeft, Wrong
    <3> QED BY <1>1, <1>9, <2>5, <3>6, <3>7, <3>8, <3>9, HttpChunkMoves
  <2> QED BY <2>6, <2>7
<1> QED BY <1>4, <1>5

\* A chunk that does not fit is known by what is missing of it.
LEMMA HttpLargeChunk ==
  ASSUME Http!HttpInv, Http!KeptIsTimed', Http!LargeChunk PROVE Http!HttpInv'
<1>1. /\ s1 = "chunk" /\ s3' = s3 /\ s6' = s6 /\ s8' = s8 /\ s17' = s17 /\ s21' = s21 /\ s15' = s15
      /\ s12' = s12 /\ s13' = s13
  BY DEF Http!LargeChunk, Http!goal, Http!link
<1>2. /\ s12 \in Seq(Int) /\ s13 \in Seq(Int) /\ s14 \in Seq(Int) /\ Len(s13) \in Nat /\ Len(s13) <= MaxLen
      /\ s16 \in Nat /\ s16 <= 4 * BodyLen /\ s15 \in 0 .. BodyLen /\ s15 \in Nat /\ s15 <= BodyLen /\ BodyLen \in Nat
      /\ Len(s14) <= MaxLen /\ s7 \in Nat /\ s19 \in Nat /\ s7 = s6 + s19
  BY HttpNumbers, HttpSizes
<1>3. /\ Http!Follow(s14, s7) /\ s7 + Len(s14) \in Nat
      /\ Http!InChunk("chunk", s7 + Len(s14), s13, s12, s15, s16, s21)
  BY <1>1, HttpInChunks
<1>4. CASE s17 \/ s15 <= Len(s13)
  <2>1. PICK res \in Wrong \cup {"OK"} : Http!ChunkRet(res) /\ s16' = s16 /\ (res = "OK" => s17)
    BY <1>4 DEF Http!LargeChunk, Wrong
  <2> QED BY <1>1, <1>2, <2>1, HttpChunkRet
<1>5. CASE ~s17 /\ ~(s15 <= Len(s13))
  <2>1. /\ s1' = "large" /\ s16' = s15 - Len(s13)
        /\ s14' = s14 /\ s2' = s2 /\ s18' = s18 /\ s19' = s19 /\ s20' = s20 /\ s7' = s7
    BY <1>5 DEF Http!LargeChunk, Http!heard
  <2>2. s16' \in Nat /\ s16' <= 4 * BodyLen /\ Len(s13) < s15
    BY <1>2, <1>5, <2>1
  <2>3. Http!InChunk("large", s7 + Len(s14), s13, s12, s15, s15 - Len(s13), s21)
    BY <1>2, <1>3, <2>2, HttpLargeBegins
  <2>4. Http!InChunk("large", s7' + Len(s14'), s13', s12', s15', s16', s21')
    BY <1>1, <2>1, <2>3
  <2>5. s20 \in BOOLEAN
    BY DEF Http!HttpInv, Http!HttpOrder
  <2>6. Http!Follow(s14', s7') /\ s20' \in BOOLEAN /\ (s20 => s20')
    BY <1>3, <2>1, <2>5
  <2>7. /\ s14' \in Seq(Int) /\ Len(s14') <= MaxLen /\ s15' \in 0 .. BodyLen
        /\ s7' \in Nat /\ s7' >= s7 /\ s19' \in Nat /\ s7' = s6' + s19'
        /\ s12' \in Seq(Int) /\ s13' \in Seq(Int) /\ Len(s13') <= MaxLen
    BY <1>1, <1>2, <2>1
  <2>8. s1' = "large" /\ s2' = s2 /\ s18' = s18
    BY <2>1
  <2> QED BY <1>1, <2>2, <2>4, <2>6, <2>7, <2>8, HttpChunkMoves
<1> QED BY <1>4, <1>5

\* It is handed on in parts, in order.
LEMMA HttpLargePart ==
  ASSUME Http!HttpInv, Http!KeptIsTimed', Http!LargePart PROVE Http!HttpInv'
<1>1. s1 = "large" /\ s3' = s3 /\ s6' = s6 /\ s8' = s8 /\ s17' = s17 /\ s21' = s21 /\ s15' = s15
  BY DEF Http!LargePart, Http!goal
<1>2. /\ s12 \in Seq(Int) /\ s13 \in Seq(Int) /\ s14 \in Seq(Int) /\ Len(s13) \in Nat /\ Len(s13) <= MaxLen
      /\ s16 \in Nat /\ s16 <= 4 * BodyLen /\ s15 \in 0 .. BodyLen /\ MaxLen \in Nat /\ BodyLen \in Nat
  BY HttpNumbers, HttpSizes
<1>3. /\ Http!Follow(s14, s7) /\ s7 + Len(s14) \in Nat
      /\ Http!InChunk("large", s7 + Len(s14), s13, s12, s15, s16, s21)
  BY <1>1, HttpInChunks
<1>4. CASE s17
  <2>1. Http!ChunkRet("OK") /\ s12' = s12 /\ s13' = s13 /\ s16' = s16
    BY <1>4 DEF Http!LargePart
  <2> QED BY <1>1, <1>2, <1>4, <2>1, HttpChunkRet
<1>5. CASE ~s17
  <2> DEFINE max == IF MaxLen - Len(s13) > s16 THEN s16 ELSE MaxLen - Len(s13)
  <2>1. PICK r \in Http!Received(max, TRUE) :
          /\ Http!Reads(r) /\ s16' = s16 - r.n
          /\ IF r.res # "OK" THEN Http!ChunkRet(r.res) /\ s13' = s13
             ELSE /\ Http!Collects(s13 \o SubSeq(s12, 1, r.n)) /\ s13' = <<>>
                  /\ s1' = s1 /\ s2' = s2 /\ s18' = s18
    BY <1>5 DEF Http!LargePart
  <2>2. max \in Nat /\ Len(s13) + max <= MaxLen /\ max <= s16
    BY <1>2
  <2> HIDE DEF max
  <2>3. r.n \in 0 .. Len(s12) /\ r.n \in Nat /\ r.n <= max /\ r.n <= Len(s12) /\ r.res \in {"OK", "CLOSED", "CONNECT"}
    BY <1>2, <2>2, HttpReceives
  <2>4. s12' = SubSeq(s12, r.n + 1, Len(s12))
    BY <2>1 DEF Http!Reads
  <2>5. s12' \in Seq(Int)
    BY <1>2, <2>3, <2>4, HttpBehind
  <2>6. r.n <= s16 /\ s16' \in Nat /\ s16' <= 4 * BodyLen
    <3>1. s16' = s16 - r.n
      BY <2>1
    <3>2. s16 \in Nat /\ s16 <= 4 * BodyLen
      BY <1>2
    <3>3. 4 * BodyLen \in Nat
      BY HttpSizes
    <3>4. r.n \in Nat /\ r.n <= s16
      BY ONLY <2>2, <2>3, <3>2
    <3> QED BY ONLY <3>1, <3>2, <3>3, <3>4
  <2>7. CASE r.res # "OK"
    <3>1. Http!ChunkRet(r.res) /\ s13' = s13 /\ r.res \in Wrong \cup {"OK"}
      BY <2>1, <2>3, <2>7 DEF Wrong
    <3>2. s13' \in Seq(Int) /\ Len(s13') <= MaxLen
      BY <1>2, <3>1
    <3> QED BY <1>1, <2>5, <2>6, <2>7, <3>1, <3>2, HttpChunkRet
  <2>8. CASE r.res = "OK"
    <3> DEFINE all == s13 \o SubSeq(s12, 1, r.n)
    <3>1. Http!Collects(all) /\ s13' = <<>> /\ s1' = "large" /\ s2' = s2 /\ s18' = s18
      BY <1>1, <2>1, <2>8
    <3>2. all = s13 \o SubSeq(s12, 1, r.n)
      OBVIOUS
    <3> HIDE DEF all
    <3>3. /\ all \in Seq(Int) /\ Len(all) = Len(s13) + r.n /\ Http!Follow(all, s7 + Len(s14))
          /\ Http!InChunk("large", s7 + Len(s14) + Len(all), <<>>, SubSeq(s12, r.n + 1, Len(s12)), s15, s16 - r.n, s21)
      <4> DEFINE after == s7 + Len(s14)
      <4>1. /\ after \in Nat /\ s13 \in Seq(Int) /\ s12 \in Seq(Int) /\ s16 \in Nat
            /\ r.n \in 0 .. Len(s12)
        BY <1>2, <1>3, <2>3
      <4>2. Http!InChunk("large", after, s13, s12, s15, s16, s21)
        BY <1>3
      <4> HIDE DEF after
      <4>3. r.n <= s16
        BY ONLY <2>6
      <4>4. all \in Seq(Int) /\ Len(all) = Len(s13) + r.n
        BY ONLY <3>2, <4>1, <4>2, <4>3, HttpLargeRead
      <4>5. Http!Follow(all, after)
        BY ONLY <3>2, <4>1, <4>2, <4>3, HttpLargeRead
      <4>6. \A piece2 : Http!InChunk("large", after + Len(all), <<>>, SubSeq(s12, r.n + 1, Len(s12)),
                                    piece2, s16 - r.n, s21)
        BY ONLY <3>2, <4>1, <4>2, <4>3, HttpLargeRead
      <4> QED BY ONLY <4>4, <4>5, <4>6 DEF after
    <3>4. Len(all) <= MaxLen
      <4>1. Len(s13) \in Nat
        BY <1>2
      <4>2. Len(all) = Len(s13) + r.n
        BY <3>3
      <4> QED BY ONLY <2>2, <2>3, <4>1, <4>2, HttpSizes
    <3>5. /\ s14' \in Seq(Int) /\ Len(s14') <= MaxLen /\ Http!Follow(s14', s7')
          /\ s7' + Len(s14') = s7 + Len(s14) + Len(all)
          /\ s7' \in Nat /\ s7' >= s7 /\ s19' \in Nat /\ s7' = s6' + s19'
          /\ s20' \in BOOLEAN /\ (s20 => s20')
      BY <1>1, <1>3, <3>1, <3>3, <3>4, HttpCollects
    <3>6. Http!InChunk("large", s7' + Len(s14'), s13', s12', s15', s16', s21')
      BY <1>1, <2>1, <2>4, <3>1, <3>3, <3>5
    <3>7. s13' \in Seq(Int) /\ Len(s13') <= MaxLen /\ s15' \in 0 .. BodyLen
      BY <1>1, <1>2, <3>1, HttpSizes
    <3>8. s1' = "large" /\ s2' = s2 /\ s18' = s18
      BY <3>1
    <3> QED BY <1>1, <2>5, <2>6, <3>5, <3>6, <3>7, <3>8, HttpChunkMoves
  <2> QED BY <2>7, <2>8
<1> QED BY <1>4, <1>5

\* Behind its last part comes its line end and then the next size.
LEMMA HttpLargeEnds ==
  ASSUME Http!HttpInv, Http!KeptIsTimed', Http!LargeEnds PROVE Http!HttpInv'
<1>1. /\ s1 = "large" /\ s16 = 0 /\ s3' = s3 /\ s6' = s6 /\ s8' = s8 /\ s17' = s17 /\ s21' = s21 /\ s15' = s15
      /\ s13' = s13 /\ s16' = s16
  BY DEF Http!LargeEnds, Http!goal
<1>2. /\ s12 \in Seq(Int) /\ s13 \in Seq(Int) /\ s14 \in Seq(Int) /\ Len(s13) \in Nat /\ Len(s13) <= MaxLen
      /\ s16 \in Nat /\ s16 <= 4 * BodyLen /\ s15 \in 0 .. BodyLen
      /\ Len(s14) <= MaxLen /\ s7 \in Nat /\ s19 \in Nat /\ s7 = s6 + s19
  BY HttpNumbers, HttpSizes
<1>3. /\ Http!Follow(s14, s7) /\ s7 + Len(s14) \in Nat
      /\ Http!InChunk("large", s7 + Len(s14), s13, s12, s15, 0, s21)
  BY <1>1, HttpInChunks
<1>4. PICK r \in Http!Received(2, TRUE) :
          /\ Http!Reads(r)
          /\ IF r.res = "OK" /\ SubSeq(s12, 1, r.n) = <<Http!CR, Http!LF>>
               THEN /\ s1' = "size" /\ s14' = s14 /\ s2' = s2 /\ s18' = s18 /\ s19' = s19 /\ s20' = s20 /\ s7' = s7
               ELSE Http!ChunkRet(IF r.res = "OK" THEN "PRTCL" ELSE r.res)
  BY DEF Http!LargeEnds, Http!heard
<1>5. r.n \in 0 .. Len(s12) /\ r.n \in Nat /\ r.n <= Len(s12) /\ r.res \in {"OK", "CLOSED", "CONNECT"}
  BY <1>2, HttpReceives
<1>6. s12' = SubSeq(s12, r.n + 1, Len(s12))
  BY <1>4 DEF Http!Reads
<1>7. s12' \in Seq(Int)
  BY <1>2, <1>5, <1>6, HttpBehind
<1>8. s13' \in Seq(Int) /\ Len(s13') <= MaxLen /\ s15' \in 0 .. BodyLen /\ s16' \in Nat /\ s16' <= 4 * BodyLen
  BY <1>1, <1>2
<1>9. CASE r.res = "OK" /\ SubSeq(s12, 1, r.n) = <<Http!CR, Http!LF>>
  <2>1. s1' = "size" /\ s14' = s14 /\ s2' = s2 /\ s18' = s18 /\ s19' = s19 /\ s20' = s20 /\ s7' = s7
    BY <1>4, <1>9
  <2>2. r.n = 2 /\ Len(s12) >= 2
    <3>1. Len(SubSeq(s12, 1, r.n)) = r.n
      BY <1>2, <1>5, HttpFront
    <3>2. Len(<<Http!CR, Http!LF>>) = 2
      OBVIOUS
    <3> QED BY <1>5, <1>9, <3>1, <3>2
  <2>3. s12' = SubSeq(s12, 3, Len(s12))
    <3>1. r.n + 1 = 3
      BY <2>2
    <3> QED BY <1>6, <3>1
  <2>4. Http!InChunk("size", s7 + Len(s14), s13, SubSeq(s12, 3, Len(s12)), s15, s16, s21)
    BY <1>2, <1>3, <2>2, HttpLargeDone
  <2>5. Http!InChunk("size", s7' + Len(s14'), s13', s12', s15', s16', s21')
    BY <1>1, <2>1, <2>3, <2>4
  <2>6. s20 \in BOOLEAN
    BY DEF Http!HttpInv, Http!HttpOrder
  <2>7. Http!Follow(s14', s7') /\ s20' \in BOOLEAN /\ (s20 => s20')
    BY <1>3, <2>1, <2>6
  <2>8. /\ s14' \in Seq(Int) /\ Len(s14') <= MaxLen
        /\ s7' \in Nat /\ s7' >= s7 /\ s19' \in Nat /\ s7' = s6' + s19'
    BY <1>1, <1>2, <2>1
  <2>9. s1' = "size" /\ s2' = s2 /\ s18' = s18
    BY <2>1
  <2> QED BY <1>1, <1>7, <1>8, <2>5, <2>7, <2>8, <2>9, HttpChunkMoves
<1>10. CASE ~(r.res = "OK" /\ SubSeq(s12, 1, r.n) = <<Http!CR, Http!LF>>)
  <2>1. PICK res \in Wrong : Http!ChunkRet(res)
    BY <1>4, <1>5, <1>10 DEF Wrong
  <2>2. res # "OK" /\ res \in Wrong \cup {"OK"}
    BY DEF Wrong
  <2> QED BY <1>1, <1>7, <1>8, <2>1, <2>2, HttpChunkRet
<1> QED BY <1>9, <1>10

\* RET of duer_http_get: what was counted stays, what the next get sets is reset.
LEMMA HttpGetEnds ==
  ASSUME Http!HttpInv, Http!KeptIsTimed', Http!GetEnds PROVE Http!HttpInv'
<1>1. /\ s1 = "end" /\ s1' = "idle" /\ s13' = <<>> /\ s14' = <<>> /\ s15' = 0 /\ s16' = 0 /\ s12' = <<>>
      /\ s8' = 0 /\ s2' = 0 /\ s3' = 0 /\ s6' = s6 /\ s7' = s7 /\ s17' = s17 /\ s19' = s19 /\ s20' = s20 /\ s21' = s21
      /\ s18' \in {s18, "FAILED"}
  BY DEF Http!GetEnds, Http!heard
<1>2. Http!HttpTypeOK' /\ Http!HttpCounts'
  <2>1. s3' \in 0 .. REDIRECTION_MAX + 1 /\ s15' \in 0 .. BodyLen /\ s2' \in Nat /\ s2' <= RESUME_COUNT_MAX + 1
    BY <1>1, HttpSizes
  <2>2. s12' \in Seq(Int) /\ s13' \in Seq(Int) /\ s14' \in Seq(Int) /\ Len(s13') <= MaxLen /\ Len(s14') <= MaxLen
    BY <1>1, HttpSizes
  <2>3. s7' \in Nat /\ s7' >= s7 /\ s19' \in Nat /\ s7' = s6' + s19' /\ s21' \in {Http!None, "redirections", "length"}
    BY <1>1, HttpNumbers
  <2>4. s18' \in Wrong \cup {"OK"}
    BY <1>1, HttpNumbers DEF Wrong
  <2>5. s8' \in Nat /\ s8' <= s7 + 4 * BodyLen /\ s16' \in Nat /\ s16' <= 4 * BodyLen
    <3>1. 0 <= s7 + 4 * BodyLen /\ 0 <= 4 * BodyLen
      <4>1. s7 \in Nat /\ BodyLen \in Nat
        BY HttpNumbers, HttpSizes
      <4> QED BY ONLY <4>1
    <3> QED BY <1>1, <3>1
  <2> QED BY <1>1, <2>1, <2>2, <2>3, <2>4, <2>5, HttpMoves
<1>3. Http!HttpPhase'
  BY <1>1 DEF Http!HttpPhase
<1>4. Http!HttpOrder'
  BY <1>1 DEF Http!HttpInv, Http!HttpOrder
<1>5. Http!EndIsWhole'
  BY <1>1 DEF Http!HttpInv, Http!EndIsWhole
<1>6. s1' \notin {"content", "size", "chunk", "large"}
  BY <1>1
<1> QED BY <1>2, <1>3, <1>4, <1>5, <1>6, HttpOutside

\* The timer closes the connection that is kept, nothing else.
LEMMA HttpKeepTimerEnds ==
  ASSUME Http!HttpInv, Http!KeptIsTimed', Http!KeepTimerEnds PROVE Http!HttpInv'
<1>1. /\ s11 /\ s12' = <<>> /\ s1' = s1 /\ s2' = s2 /\ s3' = s3 /\ s6' = s6 /\ s7' = s7 /\ s8' = s8
      /\ s13' = s13 /\ s14' = s14 /\ s15' = s15 /\ s16' = s16 /\ s17' = s17 /\ s18' = s18 /\ s19' = s19
      /\ s20' = s20 /\ s21' = s21
  BY DEF Http!KeepTimerEnds, Http!goal, Http!size, Http!buffers, Http!heard
<1>2. s1 = "idle"
  BY <1>1 DEF Http!HttpInv, Http!KeptIsTimed
<1>3. Http!HttpTypeOK' /\ Http!HttpCounts'
  <2>1. s12' \in Seq(Int)
    BY <1>1
  <2>2. s7' \in Nat /\ s7' >= s7 /\ s19' \in Nat /\ s7' = s6' + s19' /\ s8' \in Nat /\ s8' <= s7 + 4 * BodyLen
        /\ s16' \in Nat /\ s16' <= 4 * BodyLen /\ s15' \in 0 .. BodyLen
    BY <1>1, HttpNumbers
  <2>3. s13' \in Seq(Int) /\ s14' \in Seq(Int) /\ Len(s13') <= MaxLen /\ Len(s14') <= MaxLen
    BY <1>1, HttpNumbers
  <2>4. s3' \in 0 .. REDIRECTION_MAX + 1 /\ s21' \in {Http!None, "redirections", "length"}
        /\ s2' \in Nat /\ s2' <= RESUME_COUNT_MAX + 1 /\ s18' \in Wrong \cup {"OK"}
    BY <1>1, HttpNumbers
  <2> QED BY <1>1, <2>1, <2>2, <2>3, <2>4, HttpMoves
<1>4. Http!HttpPhase'
  BY <1>1 DEF Http!HttpInv, Http!HttpPhase
<1>5. Http!HttpOrder'
  BY <1>1 DEF Http!HttpInv, Http!HttpOrder
<1>6. Http!EndIsWhole'
  BY <1>1 DEF Http!HttpInv, Http!EndIsWhole
<1>7. s1' \notin {"content", "size", "chunk", "large"}
  BY <1>1, <1>2
<1> QED BY <1>3, <1>4, <1>5, <1>6, <1>7, HttpOutside

\* Somebody says stop: the get is told, nothing else.
LEMMA HttpStops ==
  ASSUME Http!HttpInv, Http!KeptIsTimed', Http!Stops PROVE Http!HttpInv'
<1>1. /\ s17' = TRUE /\ s1' = s1 /\ s2' = s2 /\ s3' = s3 /\ s6' = s6 /\ s7' = s7 /\ s8' = s8 /\ s12' = s12
      /\ s13' = s13 /\ s14' = s14 /\ s15' = s15 /\ s16' = s16 /\ s18' = s18 /\ s19' = s19
      /\ s20' = s20 /\ s21' = s21
  BY DEF Http!Stops, Http!goal, Http!size, Http!link, Http!buffers, Http!heard
<1>2. Http!HttpTypeOK' /\ Http!HttpPhase' /\ Http!HttpOrder'
  BY <1>1 DEF Http!HttpInv, Http!HttpTypeOK, Http!HttpPhase, Http!HttpOrder
<1>3. Http!HttpCounts'
  BY <1>1 DEF Http!HttpInv, Http!HttpCounts
<1>4. Http!EndIsWhole'
  BY <1>1 DEF Http!EndIsWhole
<1>5. Http!BodyIsNext' /\ Http!ChunkIsNext'
  BY <1>1 DEF Http!HttpInv, Http!BodyIsNext, Http!ChunkIsNext
<1> QED BY <1>2, <1>3, <1>4, <1>5 DEF Http!HttpInv

\* Whatever step it is.
LEMMA HttpStep ==
  ASSUME Http!HttpInv, Http!Next PROVE Http!HttpInv'
<1>1. Http!KeptIsTimed'
  BY HttpTimer DEF Http!HttpInv
<1> QED BY <1>1, HttpGets, HttpTries, HttpConnects, HttpAskStep, HttpHeadersFail, HttpRedirects,
   HttpAnswers,
   HttpContent, HttpChunkSize, HttpSmallChunk, HttpLargeChunk, HttpLargePart, HttpLargeEnds, HttpGetEnds,
   HttpKeepTimerEnds, HttpStops DEF Http!Next

\* Before the first get nothing is counted and no connection is kept.
LEMMA HttpBegins ==
  ASSUME Http!Init PROVE Http!HttpInv
<1>1. /\ s1 = "idle" /\ s2 = 0 /\ s3 = 0 /\ s6 = 0 /\ s7 = 0 /\ s8 = 0 /\ s12 = <<>> /\ s13 = <<>>
      /\ s14 = <<>> /\ s15 = 0 /\ s16 = 0 /\ s17 = FALSE /\ s18 = "OK" /\ s19 = 0 /\ s20 = TRUE /\ s21 = Http!None
      /\ s10 = Http!Nowhere /\ s11 = FALSE
  BY DEF Http!Init
<1>2. Http!HttpTypeOK
  BY <1>1, HttpSizes DEF Http!HttpTypeOK, Http!SIZE_MAX
<1>3. Http!KeptIsTimed /\ Http!HttpPhase
  BY <1>1 DEF Http!KeptIsTimed, Http!HttpPhase
<1>4. Http!HttpCounts
  <2>1. 0 <= 0 + Http!SIZE_MAX
    BY HttpSizes DEF Http!SIZE_MAX
  <2>2. s6 \in 0 .. 1 /\ s19 \in Nat /\ s7 = s6 + s19
    BY <1>1
  <2>3. s8 \in Nat /\ s8 <= s7 + Http!SIZE_MAX
    <3>1. s8 = 0 /\ s7 = 0
      BY <1>1
    <3> QED BY ONLY <2>1, <3>1
  <2>4. /\ s12 \in Seq(Int) /\ s13 \in Seq(Int) /\ s14 \in Seq(Int)
        /\ s17 \in BOOLEAN /\ s21 \in {Http!None, "redirections", "length"}
    <3>1. s12 = <<>> /\ s13 = <<>> /\ s14 = <<>> /\ s17 = FALSE /\ s21 = Http!None
      BY <1>1
    <3>2. <<>> \in Seq(Int)
      BY EmptySeq
    <3> QED BY ONLY <3>1, <3>2
  <2> QED BY <2>2, <2>3, <2>4 DEF Http!HttpCounts
<1>5. Http!HttpOrder
  BY <1>1, HttpSizes DEF Http!HttpOrder
<1>6. Http!BodyIsNext /\ Http!ChunkIsNext /\ Http!EndIsWhole
  BY <1>1 DEF Http!BodyIsNext, Http!ChunkIsNext, Http!EndIsWhole
<1> QED BY <1>2, <1>3, <1>4, <1>5, <1>6 DEF Http!HttpInv

\* The client stays as it is while another part runs.
LEMMA HttpStays ==
  ASSUME Http!HttpInv, UNCHANGED <<s1, s2, s3, s6, s7, s8, s10, s11, s12, s13, s14, s15, s16, s17, s18, s19, s20, s21>>
  PROVE  Http!HttpInv'
BY DEF Http!HttpInv, Http!HttpTypeOK, Http!KeptIsTimed, Http!HttpPhase, Http!HttpCounts, Http!HttpOrder,
   Http!BodyIsNext, Http!ChunkIsNext, Http!EndIsWhole

\* What the client promises follows from what it keeps.
LEMMA HttpKeepsPromise ==
  ASSUME Http!HttpInv
  PROVE  Http!HttpTypeOK /\ Http!BodyComesInOrder /\ Http!OkIsWhole /\ Http!KeptIsTimed
<1>1. Http!HttpTypeOK /\ Http!KeptIsTimed
  BY DEF Http!HttpInv
<1>2. Http!BodyComesInOrder
  BY DEF Http!HttpInv, Http!HttpCounts, Http!HttpOrder, Http!BodyComesInOrder
<1>3. Http!OkIsWhole
  BY HttpNumbers DEF Http!HttpInv, Http!EndIsWhole, Http!OkIsWhole
<1> QED BY <1>1, <1>2, <1>3
-----------------------------------------------------------------------------
(* The songs.                                                             *)

\* Before the first song every queue is empty.
LEMMA SongsBegin ==
  ASSUME Songs!SongInit PROVE Songs!SongInv
<1>1. s6 \in BOOLEAN
  BY DEF Songs!SongInit
<1>2. QED BY <1>1, SongsAssumption DEF Songs!SongInit, Songs!SongInv, Songs!Null, Songs!Freed, Songs!Fillers

\* Counted anew, the place of the cursor was heard once, or nothing was.
LEMMA CountedAnew ==
  ASSUME NEW c, NEW h, h = {c} \ {0, -1}
  PROVE  /\ Songs!Cardinality(h) = IF c \in {0, -1} THEN 0 ELSE 1
         /\ h = IF c \in {0, -1} THEN {} ELSE {c}
<1>1. Songs!Cardinality({}) = 0 /\ Songs!Cardinality({c}) = 1
  BY FS_EmptySet, FS_Singleton DEF Songs!Cardinality, Cardinality
<1>2. h = IF c \in {0, -1} THEN {} ELSE {c}
  OBVIOUS
<1> QED BY <1>1, <1>2

\* Only the place of the cursor is no step ago.
LEMMA OnlyItself ==
  ASSUME NEW n \in Nat, NEW c \in 1 .. n
  PROVE  {c} = {p \in 1 .. n : (IF p <= c THEN c - p ELSE c - p + n) < 1}
<1>1. \A p \in 1 .. n : (IF p <= c THEN c - p ELSE c - p + n) < 1 <=> p = c
  OBVIOUS
<1> QED BY <1>1

\* A song that comes, is taken or is played leaves every song its turn.
LEMMA SongsStep ==
  ASSUME Songs!SongInv, Songs!SongNext PROVE Songs!SongInv'
<1> USE SongsAssumption DEF Songs!SongInv, Songs!Null, Songs!Freed, Songs!Fillers
<1>6. CASE Songs!Clear
  <2>1. s6' \in BOOLEAN /\ s6'
    BY <1>6 DEF Songs!Clear
  <2>2. QED BY <1>6, <2>1 DEF Songs!Clear
<1>7. CASE Songs!ResetCursor
  <2>1. s6' \in BOOLEAN
    BY <1>7 DEF Songs!ResetCursor
  <2>2. QED BY <1>7, <2>1 DEF Songs!ResetCursor
<1>1. CASE Songs!SetMusicQueue
  <2>1. UNCHANGED <<s2, s3, s6, s7>> /\ s1' = s1 + 1 /\ s1' \in 0 .. MaxLinks
        /\ s4' = {s2'} \ {0, -1} /\ s5' = Songs!Cardinality(s4')
    BY <1>1 DEF Songs!SetMusicQueue, Songs!CountAnew
  <2>2. s2' \in -1 .. s1'
    BY <2>1
  <2>3. /\ s5' = IF s2' \in {0, -1} THEN 0 ELSE 1
        /\ s4' = IF s2' \in {0, -1} THEN {} ELSE {s2'}
    BY ONLY <2>1, CountedAnew
  <2>4. ASSUME ~s6 PROVE s2' # -1 /\ IF s5' = 0 THEN s4' = {} /\ s2' = 0
                         ELSE s2' # 0 /\ s4' = {p \in 1 .. s1' : Songs!Ago(p)' < s5'}
    <3>1. s2' # -1
      BY <2>1, <2>4
    <3>2. CASE s2' = 0
      BY <2>3, <3>2
    <3>3. CASE s2' # 0
      <4>1. s2' \in 1 .. s1' /\ s1' \in Nat /\ s5' = 1 /\ s4' = {s2'}
        BY <2>1, <2>2, <2>3, <3>1, <3>3
      <4>2. s4' = {p \in 1 .. s1' : (IF p <= s2' THEN s2' - p ELSE s2' - p + s1') < 1}
        BY ONLY <4>1, OnlyItself
      <4> QED BY <3>1, <3>3, <4>1, <4>2 DEF Songs!Ago
    <3> QED BY <3>2, <3>3
  <2>5. s5' \in 0 .. MaxLinks
    BY <2>1, <2>3
  <2>6. QED BY <2>1, <2>2, <2>4, <2>5
<1>2. CASE Songs!PlayNext
  <2>1. UNCHANGED <<s1, s6, s7>> /\ s2' \in Songs!GetNext /\ s3' = s2' /\ s4' = s4 \cup {s2'}
        /\ s5' = IF s5 < MaxLinks THEN s5 + 1 ELSE s5
    BY <1>2 DEF Songs!PlayNext
  <2>2. s1 > 0
    BY <1>2 DEF Songs!PlayNext
  <2>3. s2' \in -1 .. s1
    BY <2>1, <2>2 DEF Songs!GetNext
  <2> DEFINE Before(p) == IF p <= s2 THEN s2 - p ELSE s2 - p + s1
             Now(p) == IF p <= s2' THEN s2' - p ELSE s2' - p + s1
  <2>4. ASSUME ~s6 PROVE s2' \in 1 .. s1 /\ s5' # 0 /\ s4' = {p \in 1 .. s1 : Now(p) < s5'}
    <3>1. s2' = (IF s2 = 0 \/ s2 = s1 THEN 1 ELSE s2 + 1) /\ s2' \in 1 .. s1
      BY <2>1, <2>2, <2>4 DEF Songs!GetNext
    <3>2. CASE s5 = 0
      BY <2>1, <2>2, <2>4, <3>1, <3>2
    <3>3. CASE s5 # 0
      <4>1. s4 = {p \in 1 .. s1 : Before(p) < s5}
        BY <2>4, <3>3 DEF Songs!Ago
      <4>2. \A p \in 1 .. s1 : /\ Now(p) = IF p = s2' THEN 0 ELSE Before(p) + 1
                               /\ Now(p) \in 0 .. s1 - 1 /\ Before(p) \in 0 .. s1
        BY <2>4, <3>1, <3>3
      <4> HIDE DEF Now, Before
      <4>3. \A p \in 1 .. s1 : p \in s4' <=> Now(p) < s5'
        BY <2>1, <2>4, <3>1, <3>3, <4>1, <4>2
      <4>4. s4' \subseteq 1 .. s1
        BY <2>1, <2>4, <3>1, <4>1
      <4>5. s4' = {p \in 1 .. s1 : Now(p) < s5'}
        BY <4>3, <4>4
      <4>6. QED BY <2>1, <3>1, <3>3, <4>5
    <3>4. QED BY <3>2, <3>3
  <2>5. QED BY <2>1, <2>3, <2>4 DEF Songs!Ago
<1>3. CASE Songs!PlayPrev
  <2>1. UNCHANGED <<s1, s6, s7>> /\ s2' \in Songs!GetPre /\ s4' = {s2'} \ {0, -1} /\ s5' = Songs!Cardinality(s4')
        /\ s1 > 0 /\ (s3' = s2' \/ s3' = s3)
    BY <1>3 DEF Songs!PlayPrev, Songs!CountAnew
  <2>2. s2' \in -1 .. s1
    BY <2>1 DEF Songs!GetPre
  <2>3. /\ s5' = IF s2' \in {0, -1} THEN 0 ELSE 1
        /\ s4' = IF s2' \in {0, -1} THEN {} ELSE {s2'}
    BY ONLY <2>1, CountedAnew
  <2>4. ASSUME ~s6 PROVE s2' \in 0 .. s1 /\ IF s5' = 0 THEN s4' = {} /\ s2' = 0
                                      ELSE s2' # 0 /\ s4' = {p \in 1 .. s1 : Songs!Ago(p)' < s5'}
    <3>1. s2' \in 0 .. s1
      BY <2>1, <2>4 DEF Songs!GetPre
    <3>2. CASE s2' = 0
      BY <2>3, <3>1, <3>2
    <3>3. CASE s2' # 0
      <4>1. s2' \in 1 .. s1 /\ s1 \in Nat /\ s5' = 1 /\ s4' = {s2'}
        BY <2>3, <3>1, <3>3
      <4>2. s4' = {p \in 1 .. s1 : (IF p <= s2' THEN s2' - p ELSE s2' - p + s1) < 1}
        BY ONLY <4>1, OnlyItself
      <4> QED BY <2>1, <3>1, <3>3, <4>1, <4>2 DEF Songs!Ago
    <3>4. QED BY <3>1, <3>2, <3>3
  <2>5. s5' \in 0 .. MaxLinks
    BY <2>1, <2>3
  <2>6. QED BY <2>1, <2>2, <2>4, <2>5
<1>4. CASE Songs!PlayQueue
  <2>1. s6' \in BOOLEAN /\ s6'
    BY <1>4 DEF Songs!PlayQueue
  <2>2. QED BY <1>4, <2>1 DEF Songs!PlayQueue, Songs!Pop
<1>5. QED BY <1>1, <1>2, <1>3, <1>4, <1>6, <1>7 DEF Songs!SongNext

\* The invariant says that every song has its turn.
LEMMA SongsKeepPromise ==
  ASSUME Songs!SongInv PROVE Songs!EverySongHasItsTurn
<1> USE SongsAssumption DEF Songs!SongInv, Songs!Null, Songs!Freed
<1>1. SUFFICES ASSUME ~s6 PROVE s2 \in 0 .. s1 /\ (s5 >= s1 => s4 = 1 .. s1)
  BY DEF Songs!EverySongHasItsTurn
<1>2. CASE s5 = 0
  BY <1>1, <1>2
<1>3. CASE s5 # 0
  <2> DEFINE Before(p) == IF p <= s2 THEN s2 - p ELSE s2 - p + s1
  <2>1. s4 = {p \in 1 .. s1 : Before(p) < s5}
    BY <1>1, <1>3 DEF Songs!Ago
  <2>2. \A p \in 1 .. s1 : Before(p) \in 0 .. s1 - 1
    BY <1>1, <1>3
  <2> HIDE DEF Before
  <2>3. ASSUME s5 >= s1 PROVE s4 = 1 .. s1
    <3>1. \A p \in 1 .. s1 : Before(p) < s5
      BY <2>2, <2>3
    <3>2. QED BY <2>1, <3>1
  <2>4. QED BY <1>1, <1>3, <2>3
<1>4. QED BY <1>2, <1>3

\* The songs stay as they are while another part runs.
LEMMA SongsStay ==
  ASSUME Songs!SongInv, UNCHANGED <<s1, s2, s3, s4, s5, s6, s7>> PROVE Songs!SongInv'
BY DEF Songs!SongInv, Songs!Ago
-----------------------------------------------------------------------------
(* The progress of a medium.                                              *)

USE ProgressAssumption DEF Progress!ProgressInv, Progress!ProgressTypeOK, Progress!record,
   Progress!history

\* Before the first medium no time has been counted.
LEMMA ProgressBegins ==
  ASSUME Progress!ProgressInit PROVE Progress!ProgressInv
<1>1. {s5, s6, s7, s8, s11, s15} \subseteq BOOLEAN /\ ~s5 /\ ~s6
  BY DEF Progress!ProgressInit
<1>2. QED BY <1>1 DEF Progress!ProgressInit

\* The flags of a step, apart from the numbers: those of the wait and of the
\* stutter go together.
LEMMA ProgressFlags ==
  ASSUME Progress!ProgressInv, Progress!ProgressNext
  PROVE  /\ {s5', s6', s7', s8', s11', s15'} \subseteq BOOLEAN
         /\ (s5' => s6') /\ (s6' => s11')
<1> USE DEF Progress!StopTimer
<1>1. CASE Progress!Tick
  BY <1>1 DEF Progress!Tick
<1>2. CASE Progress!OnStart
  BY <1>2 DEF Progress!OnStart
<1>3. CASE Progress!OnStop
  BY <1>3 DEF Progress!OnStop
<1>4. CASE Progress!OnFinish
  BY <1>4 DEF Progress!OnFinish
<1>5. CASE Progress!OnWaitRead
  BY <1>5 DEF Progress!OnWaitRead
<1>6. CASE Progress!OnReleaseRead
  BY <1>6 DEF Progress!OnReleaseRead
<1>7. CASE Progress!TimerFires
  BY <1>7 DEF Progress!TimerFires
<1>8. CASE Progress!Stucked
  BY <1>8 DEF Progress!Stucked
<1>9. CASE Progress!Restore
  BY <1>9 DEF Progress!Restore
<1>10. CASE Progress!GetProgress
  BY <1>10 DEF Progress!GetProgress
<1>11. QED
  BY <1>1, <1>2, <1>3, <1>4, <1>5, <1>6, <1>7, <1>8, <1>9, <1>10 DEF Progress!ProgressNext

\* A start, a stop, a stutter or a tick counts no moment twice.
LEMMA ProgressStep ==
  ASSUME Progress!ProgressInv, Progress!ProgressNext PROVE Progress!ProgressInv'
<1> USE DEF Progress!StopTimer, Progress!CountTime, Progress!CountAtStop
<1>0. /\ {s5', s6', s7', s8', s11', s15'} \subseteq BOOLEAN
      /\ (s5' => s6') /\ (s6' => s11')
  BY ProgressFlags
<1>1. CASE Progress!Tick
  BY <1>0, <1>1 DEF Progress!Tick
<1>2. CASE Progress!OnStart
  BY <1>0, <1>2 DEF Progress!OnStart
<1>3. CASE Progress!OnStop
  BY <1>0, <1>3 DEF Progress!OnStop
<1>4. CASE Progress!OnFinish
  BY <1>0, <1>4 DEF Progress!OnFinish
<1>5. CASE Progress!OnWaitRead
  BY <1>0, <1>5 DEF Progress!OnWaitRead
<1>6. CASE Progress!OnReleaseRead
  BY <1>0, <1>6 DEF Progress!OnReleaseRead
<1>7. CASE Progress!TimerFires
  BY <1>0, <1>7 DEF Progress!TimerFires
<1>8. CASE Progress!Stucked
  BY <1>0, <1>8 DEF Progress!Stucked
<1>9. CASE Progress!Restore
  BY <1>0, <1>9 DEF Progress!Restore
<1>10. CASE Progress!GetProgress
  BY <1>0, <1>10 DEF Progress!GetProgress
<1>11. QED
  BY <1>1, <1>2, <1>3, <1>4, <1>5, <1>6, <1>7, <1>8, <1>9, <1>10 DEF Progress!ProgressNext

\* The invariant says that time is counted at most once.
LEMMA ProgressKeepsPromise ==
  ASSUME Progress!ProgressInv PROVE Progress!TimeIsCountedOnce /\ Progress!ProgressTypeOK
BY DEF Progress!TimeIsCountedOnce

\* The progress stays as it is while another part runs.
LEMMA ProgressStays ==
  ASSUME Progress!ProgressInv, UNCHANGED <<s1, s2, s3, s4, s5, s6, s7, s8, s9, s10, s11, s12, s13, s14, s15>>
  PROVE  Progress!ProgressInv'
OBVIOUS

HIDE DEF Progress!ProgressInv, Progress!ProgressTypeOK, Progress!record, Progress!history

HIDE ProgressAssumption
-----------------------------------------------------------------------------
(* The volume.                                                            *)

USE VolumeAssumption DEF Vol!VolumeInv, Vol!Volumes, Vol!Threads, Vol!Nobody

\* At first the codec has the default volume.
LEMMA VolumeBegins ==
  ASSUME Vol!VolumeInit PROVE Vol!VolumeInv
<1>1. s7 \in BOOLEAN
  BY DEF Vol!VolumeInit
<1>2. QED BY <1>1 DEF Vol!VolumeInit

\* A call begins in a thread that has none, with a volume in the range.
LEMMA VolumeSets ==
  ASSUME Vol!VolumeInv, NEW t \in Vol!Threads, Vol!Idle(t), NEW vol \in Vol!Volumes, Vol!SetsTo(t, vol)
  PROVE  Vol!VolumeInv'
<1>1. s5' = [s5 EXCEPT ![t] = [at |-> "set", vol |-> vol]] /\ UNCHANGED <<s1, s2, s3, s7>>
  BY DEF Vol!SetsTo
<1>2. s5' \in [Vol!Threads -> {Vol!Nobody} \cup [at : {"set", "say", "tell"}, vol : Vol!Volumes]]
  BY <1>1
<1>3. \A u \in Vol!Threads : s5[u].at = "tell" => s5'[u].at = "tell"
  BY <1>1 DEF Vol!Idle
<1>4. QED BY <1>1, <1>2, <1>3

\* Whoever turns the volume a step up or down.
LEMMA VolumeKeys ==
  ASSUME Vol!VolumeInv, NEW t \in Vol!Threads, Vol!VoiceUpRepeat(t) \/ Vol!VoiceUp(t) \/ Vol!VoiceDown(t)
  PROVE  Vol!VolumeInv'
<1>1. s2 < MAX_VOLUME => Vol!Higher \in Vol!Volumes
  BY DEF Vol!Higher, Vol!Least
<1>2. s2 > MIN_VOLUME => Vol!Lower \in Vol!Volumes
  BY DEF Vol!Lower, Vol!Most
<1>3. MIN_VOLUME \in Vol!Volumes
  OBVIOUS
<1>4. PICK vol \in Vol!Volumes : Vol!Idle(t) /\ Vol!SetsTo(t, vol)
  BY <1>1, <1>2, <1>3 DEF Vol!VoiceUpRepeat, Vol!VoiceUp, Vol!VoiceDown
<1>5. QED BY <1>4, VolumeSets

\* What a call does, step by step.
LEMMA VolumeCalls ==
  ASSUME Vol!VolumeInv, NEW t \in Vol!Threads, Vol!SetVolume(t) \/ Vol!SayVolume(t) \/ Vol!TellCodec(t)
  PROVE  Vol!VolumeInv'
<1> DEFINE Calls == [Vol!Threads -> {Vol!Nobody} \cup [at : {"set", "say", "tell"}, vol : Vol!Volumes]]
<1>0. \A to \in {"say", "tell"} : s5[t].at # "idle" => [s5[t] EXCEPT !.at = to] \in [at : {"set", "say", "tell"}, vol : Vol!Volumes]
  OBVIOUS
<1>1. CASE Vol!SetVolume(t)
  <2>1. UNCHANGED <<s2, s3, s7>> /\ s1' = s5[t].vol /\ s5[t].at = "set"
        /\ s5' \in {[s5 EXCEPT ![t] = Vol!Nobody], [s5 EXCEPT ![t] = [@ EXCEPT !.at = "say"]]}
    BY <1>1 DEF Vol!SetVolume
  <2>2. s5' \in Calls /\ s1' \in Vol!Volumes
    BY <1>0, <2>1
  <2>3. \A u \in Vol!Threads : s5[u].at = "tell" => s5'[u].at = "tell"
    BY <2>1
  <2>4. QED BY <2>1, <2>2, <2>3
<1>2. CASE Vol!SayVolume(t)
  <2>1. UNCHANGED <<s1, s3, s7>> /\ s2' = s1 /\ s5[t].at = "say"
        /\ s5' = IF s2 = s1 THEN [s5 EXCEPT ![t] = Vol!Nobody] ELSE [s5 EXCEPT ![t] = [@ EXCEPT !.at = "tell"]]
    BY <1>2 DEF Vol!SayVolume
  <2>2. s5' \in Calls
    BY <1>0, <2>1
  <2>3. \A u \in Vol!Threads : s5[u].at = "tell" => s5'[u].at = "tell"
    BY <2>1
  <2>4. s2 = s1 \/ s5'[t].at = "tell"
    BY <2>1
  <2>5. QED BY <2>1, <2>2, <2>3, <2>4
<1>3. CASE Vol!TellCodec(t)
  <2>1. UNCHANGED <<s1, s2>> /\ s7' \in BOOLEAN /\ s5' = [s5 EXCEPT ![t] = Vol!Nobody]
        /\ s3' \in {s2, s3} /\ (s3' = s2 \/ s7')
    BY <1>3 DEF Vol!TellCodec
  <2>2. s5' \in Calls
    BY <2>1
  <2>3. QED BY <2>1, <2>2
<1>4. QED BY <1>1, <1>2, <1>3

\* A change of the volume is told to the codec, or somebody is still to tell it.
LEMMA VolumeStep ==
  ASSUME Vol!VolumeInv, Vol!VolumeNext PROVE Vol!VolumeInv'
<1>1. CASE Vol!SpokenFixed
  BY <1>1, VolumeSets DEF Vol!SpokenFixed
<1>2. CASE Vol!MagicVoice
  BY <1>2, VolumeSets DEF Vol!MagicVoice
<1>3. CASE Vol!PlayUrl
  <2>1. s5' = [s5 EXCEPT !["main"] = [at |-> "say", vol |-> s1]] /\ UNCHANGED <<s1, s2, s3, s7>>
    BY <1>3 DEF Vol!PlayUrl
  <2>2. s5' \in [Vol!Threads -> {Vol!Nobody} \cup [at : {"set", "say", "tell"}, vol : Vol!Volumes]]
    BY <2>1
  <2>3. \A u \in Vol!Threads : s5[u].at = "tell" => s5'[u].at = "tell"
    BY <1>3, <2>1 DEF Vol!PlayUrl, Vol!Idle
  <2>4. QED BY <2>1, <2>2, <2>3
<1>4. CASE Vol!PlayerChanges
  BY <1>4 DEF Vol!PlayerChanges
<1>5. CASE \/ Vol!VoiceUpRepeat("main") \/ Vol!VoiceUp("main") \/ Vol!VoiceDown("main") \/ Vol!SpokenStep
  BY <1>5, VolumeKeys DEF Vol!SpokenStep
<1>6. QED BY <1>1, <1>2, <1>3, <1>4, <1>5, VolumeCalls DEF Vol!VolumeNext

\* When nobody is under way the codec has the volume that was set.
LEMMA VolumeKeepsPromise ==
  ASSUME Vol!VolumeInv PROVE Vol!VolumeIsHeard
BY DEF Vol!VolumeIsHeard, Vol!Idle

\* The volume stays as it is while another part runs.
LEMMA VolumeStays ==
  ASSUME Vol!VolumeInv, UNCHANGED <<s1, s2, s3, s4, s5, s6, s7>> PROVE Vol!VolumeInv'
OBVIOUS

HIDE DEF Vol!VolumeInv, Vol!Volumes, Vol!Threads, Vol!Nobody

HIDE VolumeAssumption
-----------------------------------------------------------------------------
(* The keys.                                                              *)

USE KeysAssumption DEF TheKeys!KeysTypeOK, TheKeys!Keys, TheKeys!Message

\* At first no key is down and no message waits.
LEMMA KeysBegin ==
  ASSUME TheKeys!KeysInit PROVE TheKeys!KeysInv
<1>1. {s3, s5, s7, s9} \subseteq BOOLEAN /\ ~s5
  BY DEF TheKeys!KeysInit
<1>2. s2 = NoMessage /\ s1 = {} /\ s6 = {} /\ s4 \in TheKeys!Keys /\ s8 = [k \in TheKeys!Keys |-> 0]
  BY DEF TheKeys!KeysInit
<1>3. \A k \in TheKeys!Keys : ~TheKeys!IsPressed(k) /\ ~TheKeys!IsReleased(k)
  BY <1>2 DEF TheKeys!IsPressed, TheKeys!IsReleased
<1>4. QED BY <1>1, <1>2, <1>3 DEF TheKeys!KeysInv, TheKeys!Owed, TheKeys!Goes

\* Where the presses of the other keys are is not changed by a message of k.
LEMMA KeyFallsOrRises ==
  ASSUME TheKeys!KeysInv, TheKeys!KeyFall \/ TheKeys!KeyRise PROVE TheKeys!KeysInv'
<1> USE DEF TheKeys!KeysInv
<1>1. CASE TheKeys!KeyFall
  <2>1. PICK k \in TheKeys!Keys \ s1 :
           /\ TheKeys!Reports("KEY_PRESS", k) /\ s1' = s1 \cup {k}
           /\ s8' = [s8 EXCEPT ![k] = IF s7 THEN 0 ELSE @ + 1]
           /\ UNCHANGED <<s4, s5, s6, s7>>
    BY <1>1 DEF TheKeys!KeyFall
  <2>2. s2' = [evt |-> "KEY_PRESS", idx |-> k] /\ {s3', s9'} \subseteq BOOLEAN /\ (~s9' => ~s9 /\ s2 = NoMessage)
    BY <2>1 DEF TheKeys!Reports
  <2>3. TheKeys!KeysTypeOK'
    BY <2>1, <2>2
  <2>4. ASSUME ~s9'
        PROVE  /\ \A x \in TheKeys!Keys : s8'[x] = TheKeys!Owed(x)' /\ ~TheKeys!IsReleased(x)'
                                          /\ (TheKeys!IsPressed(x)' => x \in s1')
               /\ s5' /\ s4' \in LongKeys /\ ~s7' => TheKeys!Goes(s4)' /\ s4' \notin s6' /\ ~TheKeys!IsPressed(s4)'
    <3>1. \A x \in TheKeys!Keys : ~TheKeys!IsReleased(x)' /\ (TheKeys!IsPressed(x)' <=> x = k)
      BY <2>2 DEF TheKeys!IsPressed, TheKeys!IsReleased
    <3>2. \A x \in TheKeys!Keys : ~TheKeys!IsReleased(x) /\ ~TheKeys!IsPressed(x)
      BY <2>2, <2>4 DEF TheKeys!IsPressed, TheKeys!IsReleased
    <3>3. \A x \in TheKeys!Keys : s8'[x] = TheKeys!Owed(x)'
      BY <2>1, <2>2, <2>4, <3>1, <3>2 DEF TheKeys!Owed, TheKeys!Goes
    <3>4. s5 /\ s4 \in LongKeys /\ ~s7 => s4 \in s1 /\ s4 \notin s6
      BY <2>2, <2>4, <3>2 DEF TheKeys!Goes
    <3>5. QED BY <2>1, <3>1, <3>3, <3>4 DEF TheKeys!Goes
  <2>5. QED BY <2>3, <2>4
<1>2. CASE TheKeys!KeyRise
  <2>1. PICK k \in s1 : TheKeys!Reports("KEY_RELEASE", k) /\ s1' = s1 \ {k} /\ UNCHANGED <<s4, s5, s6, s7, s8>>
    BY <1>2 DEF TheKeys!KeyRise
  <2>2. s2' = [evt |-> "KEY_RELEASE", idx |-> k] /\ {s3', s9'} \subseteq BOOLEAN /\ (~s9' => ~s9 /\ s2 = NoMessage)
    BY <2>1 DEF TheKeys!Reports
  <2>3. TheKeys!KeysTypeOK'
    BY <2>1, <2>2
  <2>4. ASSUME ~s9'
        PROVE  /\ \A x \in TheKeys!Keys : s8'[x] = TheKeys!Owed(x)' /\ ~TheKeys!IsPressed(x)'
                                          /\ (TheKeys!IsReleased(x)' => x \notin s1')
               /\ s5' /\ s4' \in LongKeys /\ ~s7' => TheKeys!Goes(s4)' /\ s4' \notin s6' /\ ~TheKeys!IsPressed(s4)'
    <3>1. \A x \in TheKeys!Keys : ~TheKeys!IsPressed(x)' /\ (TheKeys!IsReleased(x)' <=> x = k)
      BY <2>2 DEF TheKeys!IsPressed, TheKeys!IsReleased
    <3>2. \A x \in TheKeys!Keys : ~TheKeys!IsReleased(x) /\ ~TheKeys!IsPressed(x)
      BY <2>2, <2>4 DEF TheKeys!IsPressed, TheKeys!IsReleased
    <3>3. \A x \in TheKeys!Keys : TheKeys!Goes(x)' <=> TheKeys!Goes(x)
      BY <2>1, <3>1, <3>2 DEF TheKeys!Goes
    <3>4. \A x \in TheKeys!Keys : s8'[x] = TheKeys!Owed(x)'
      BY <2>1, <2>2, <2>4, <3>1, <3>2, <3>3 DEF TheKeys!Owed
    <3>5. s5 /\ s4 \in LongKeys /\ ~s7 => TheKeys!Goes(s4)' /\ s4 \notin s6
      BY <2>1, <2>2, <2>4, <3>1, <3>2 DEF TheKeys!Goes
    <3>6. QED BY <2>1, <3>1, <3>4, <3>5 DEF TheKeys!Goes
  <2>5. QED BY <2>3, <2>4
<1>3. QED BY <1>1, <1>2

\* The thread that answers keys handles a press or a release.
LEMMA KeyIsHandled ==
  ASSUME TheKeys!KeysInv, TheKeys!KeyPress \/ TheKeys!KeyRelease PROVE TheKeys!KeysInv'
<1> USE DEF TheKeys!KeysInv, TheKeys!TakesMessage, TheKeys!Nobody, TheKeys!Answers
<1>1. CASE TheKeys!KeyPress
  <2>1. PICK k \in TheKeys!Keys :
           /\ s2 = [evt |-> "KEY_PRESS", idx |-> k] /\ s4' = k /\ s2' = NoMessage
           /\ s6' = s6 \ {k} /\ UNCHANGED <<s1, s7, s9>>
           /\ s8' = IF k \in FallKeys /\ ~s7 THEN [s8 EXCEPT ![k] = @ - 1] ELSE s8
    BY <1>1 DEF TheKeys!KeyPress
  <2>2. {s3', s5'} \subseteq BOOLEAN /\ (s5' => s5 \/ (k \in LongKeys /\ ~s7))
    BY <1>1, <2>1 DEF TheKeys!KeyPress
  <2>3. TheKeys!KeysTypeOK'
    BY <2>1, <2>2
  <2>4. ASSUME ~s9'
        PROVE  /\ \A x \in TheKeys!Keys : s8'[x] = TheKeys!Owed(x)' /\ ~TheKeys!IsPressed(x)' /\ ~TheKeys!IsReleased(x)'
               /\ s5' /\ s4' \in LongKeys /\ ~s7' => TheKeys!Goes(s4)' /\ s4' \notin s6' /\ ~TheKeys!IsPressed(s4)'
    <3>1. \A x \in TheKeys!Keys : ~TheKeys!IsPressed(x)' /\ ~TheKeys!IsReleased(x)'
      BY <2>1 DEF TheKeys!IsPressed, TheKeys!IsReleased
    <3>2. \A x \in TheKeys!Keys : ~TheKeys!IsReleased(x) /\ (TheKeys!IsPressed(x) <=> x = k)
      BY <2>1 DEF TheKeys!IsPressed, TheKeys!IsReleased
    <3>3. k \in s1
      BY <2>1, <2>4, <3>2
    <3>4. \A x \in TheKeys!Keys : s8'[x] = TheKeys!Owed(x)'
      BY <2>1, <2>4, <3>1, <3>2, <3>3 DEF TheKeys!Owed, TheKeys!Goes
    <3>5. QED BY <2>1, <3>1, <3>3, <3>4 DEF TheKeys!Goes
  <2>5. QED BY <2>3, <2>4
<1>2. CASE TheKeys!KeyRelease
  <2>1. PICK k \in TheKeys!Keys :
           /\ s2 = [evt |-> "KEY_RELEASE", idx |-> k] /\ s4' = k /\ s2' = NoMessage
           /\ s6' = s6 \ {k} /\ UNCHANGED <<s1, s7, s9>>
           /\ s8' = IF k \in LongKeys \ s6 /\ ~s7 THEN [s8 EXCEPT ![k] = @ - 1] ELSE s8
    BY <1>2 DEF TheKeys!KeyRelease
  <2>2. {s3', s5'} \subseteq BOOLEAN /\ (s5' => k \in FallKeys \/ s7)
    BY <1>2, <2>1 DEF TheKeys!KeyRelease
  <2>3. TheKeys!KeysTypeOK'
    BY <2>1, <2>2
  <2>4. ASSUME ~s9'
        PROVE  /\ \A x \in TheKeys!Keys : s8'[x] = TheKeys!Owed(x)' /\ ~TheKeys!IsPressed(x)' /\ ~TheKeys!IsReleased(x)'
               /\ ~(s5' /\ s4' \in LongKeys /\ ~s7')
    <3>1. \A x \in TheKeys!Keys : ~TheKeys!IsPressed(x)' /\ ~TheKeys!IsReleased(x)'
      BY <2>1 DEF TheKeys!IsPressed, TheKeys!IsReleased
    <3>2. \A x \in TheKeys!Keys : ~TheKeys!IsPressed(x) /\ (TheKeys!IsReleased(x) <=> x = k)
      BY <2>1 DEF TheKeys!IsPressed, TheKeys!IsReleased
    <3>3. k \notin s1
      BY <2>1, <2>4, <3>2
    <3>4. \A x \in TheKeys!Keys : s8'[x] = TheKeys!Owed(x)'
      BY <2>1, <2>4, <3>1, <3>2, <3>3 DEF TheKeys!Owed, TheKeys!Goes
    <3>5. QED BY <2>1, <2>2, <3>1, <3>4
  <2>5. QED BY <2>3, <2>4
<1>3. QED BY <1>1, <1>2

\* The timer says that a key is held, or the handlers are taken away.
LEMMA KeyIsHeld ==
  ASSUME TheKeys!KeysInv, TheKeys!KeyLongPress \/ TheKeys!KeyClear PROVE TheKeys!KeysInv'
<1> USE DEF TheKeys!KeysInv, TheKeys!Nobody, TheKeys!Answers
<1>0. \A x \in TheKeys!Keys : /\ TheKeys!IsPressed(x)' <=> TheKeys!IsPressed(x)
                              /\ TheKeys!IsReleased(x)' <=> TheKeys!IsReleased(x)
                              /\ TheKeys!Goes(x)' <=> TheKeys!Goes(x)
  BY DEF TheKeys!KeyLongPress, TheKeys!KeyClear, TheKeys!IsPressed, TheKeys!IsReleased, TheKeys!Goes
<1>1. CASE TheKeys!KeyLongPress
  <2>1. s5 /\ ~s5' /\ s5' \in BOOLEAN /\ UNCHANGED <<s1, s2, s3, s4, s7, s9>>
    BY <1>1 DEF TheKeys!KeyLongPress
  <2>2. CASE s4 \in LongKeys /\ ~s7
    <3>1. s8' = [s8 EXCEPT ![s4] = @ - 1] /\ s6' = s6 \cup {s4}
      BY <1>1, <2>2 DEF TheKeys!KeyLongPress
    <3>2. TheKeys!KeysTypeOK'
      BY <2>1, <2>2, <3>1
    <3>3. ASSUME ~s9 PROVE \A x \in TheKeys!Keys : s8'[x] = TheKeys!Owed(x)'
      BY <1>0, <2>1, <2>2, <3>1, <3>3 DEF TheKeys!Owed
    <3>4. QED BY <1>0, <2>1, <3>2, <3>3
  <2>3. CASE ~(s4 \in LongKeys /\ ~s7)
    <3>1. s8' = s8 /\ s6' = s6
      BY <1>1, <2>3 DEF TheKeys!KeyLongPress
    <3>2. QED BY <1>0, <2>1, <3>1 DEF TheKeys!Owed
  <2>4. QED BY <2>2, <2>3
<1>2. CASE TheKeys!KeyClear
  <2>1. s7' /\ s7' \in BOOLEAN /\ UNCHANGED <<s1, s2, s3, s4, s5, s6, s9>> /\ s8' = [k \in TheKeys!Keys |-> 0]
    BY <1>2 DEF TheKeys!KeyClear
  <2>2. QED BY <1>0, <2>1 DEF TheKeys!Owed
<1>3. QED BY <1>1, <1>2

\* Whatever a finger or the timer does, no answer is owed twice.
LEMMA KeysStep ==
  ASSUME TheKeys!KeysInv, TheKeys!KeysNext PROVE TheKeys!KeysInv'
BY KeyFallsOrRises, KeyIsHandled, KeyIsHeld DEF TheKeys!KeysNext

\* The invariant says that a press is answered once.
LEMMA KeysKeepPromise ==
  ASSUME TheKeys!KeysInv PROVE TheKeys!PressIsAnsweredOnce
<1> USE DEF TheKeys!KeysInv, TheKeys!Owed, TheKeys!Goes
<1>1. \A k \in TheKeys!Keys : s2 = NoMessage => ~TheKeys!IsReleased(k)
  BY DEF TheKeys!IsReleased
<1>2. QED BY <1>1 DEF TheKeys!PressIsAnsweredOnce

\* The keys stay as they are while another part runs.
LEMMA KeysStay ==
  ASSUME TheKeys!KeysInv, UNCHANGED <<s1, s2, s3, s4, s5, s6, s7, s8, s9>> PROVE TheKeys!KeysInv'
BY DEF TheKeys!KeysInv, TheKeys!Owed, TheKeys!Goes, TheKeys!IsPressed, TheKeys!IsReleased

HIDE DEF TheKeys!KeysTypeOK, TheKeys!Keys, TheKeys!Message

HIDE KeysAssumption
-----------------------------------------------------------------------------
(* The modes of the toy.                                                  *)

USE ToyAssumption DEF TheToy!ToyInv, TheToy!ToyTypeOK, TheToy!Media, TheToy!None, TheToy!Keys,
   TheToy!Refused, TheToy!Asks, TheToy!Play, TheToy!PlaySong

\* A message joins a queue at its end or leaves it at its front.
LEMMA EventsAreQueued ==
  ASSUME NEW S, NEW q \in Seq(S), NEW e \in S
  PROVE /\ Append(q, e) \in Seq(S) /\ Len(Append(q, e)) = Len(q) + 1
        /\ q # <<>> => Tail(q) \in Seq(S) /\ Len(Tail(q)) = Len(q) - 1
OBVIOUS

\* At first the toy is idle and has been asked nothing.
LEMMA ToyBegins ==
  ASSUME TheToy!Init PROVE TheToy!ToyInv
<1>1. {s6, s7, s13} \subseteq BOOLEAN
  BY DEF TheToy!Init
<1>2. QED BY <1>1 DEF TheToy!Init

\* A medium begins, ends or fails.
LEMMA PlayerTurns ==
  ASSUME TheToy!ToyInv, TheToy!PlayerStarts \/ TheToy!PlayerEnds \/ TheToy!PlayFails \/ TheToy!OtherPlays
  PROVE TheToy!ToyInv'
<1> USE DEF TheToy!asking, TheToy!history, TheToy!Busy
<1>1. CASE TheToy!PlayerStarts
  BY <1>1 DEF TheToy!PlayerStarts
<1>2. CASE TheToy!PlayerEnds
  <2>1. UNCHANGED <<s5, s6, s7, s8, s9, s10, s11, s12, s13>> /\ s2' = "IDLE" /\ s3' = "none"
    BY <1>2 DEF TheToy!PlayerEnds
  <2>2. s4' \in TheToy!Media \cup {"none"}
    BY <1>2 DEF TheToy!PlayerEnds, TheToy!OnFinish
  <2>3. s1' = s1 \/ \E e \in {"REC_PRESS", "START_RECORD", "ENTER_BT"} : s1' = TheToy!Triggered(e)
    BY <1>2 DEF TheToy!PlayerEnds, TheToy!OnFinish
  <2>4. s1' \in Seq(TheToy!Keys \cup {"START_RECORD", "ENTER_BT"}) /\ Len(s1') <= ToyQueue
    <3>1. /\ s1 \in Seq(TheToy!Keys \cup {"START_RECORD", "ENTER_BT"}) /\ Len(s1) <= ToyQueue
          /\ {"REC_PRESS", "START_RECORD", "ENTER_BT"} \subseteq TheToy!Keys \cup {"START_RECORD", "ENTER_BT"}
          /\ Len(s1) \in Nat
      OBVIOUS
    <3>2. ASSUME NEW e \in {"REC_PRESS", "START_RECORD", "ENTER_BT"}, s1' = TheToy!Triggered(e)
          PROVE s1' \in Seq(TheToy!Keys \cup {"START_RECORD", "ENTER_BT"}) /\ Len(s1') <= ToyQueue
      <4> HIDE DEF TheToy!ToyInv, TheToy!Keys
      <4> QED BY <3>1, <3>2, EventsAreQueued DEF TheToy!Triggered
    <3> QED BY <2>3, <3>1, <3>2
  <2> QED BY <2>1, <2>2, <2>4
<1>3. CASE TheToy!PlayFails
  BY <1>3 DEF TheToy!PlayFails
<1>4. CASE TheToy!OtherPlays
  BY <1>4 DEF TheToy!OtherPlays
<1>5. QED BY <1>1, <1>2, <1>3, <1>4

\* A key, or a message of the queue that the toy takes.
LEMMA ToyHears ==
  ASSUME TheToy!ToyInv,
         TheToy!Key \/ TheToy!Unhandled \/ TheToy!TalkStart \/ TheToy!StartRecorder \/ TheToy!SwitchMode
           \/ TheToy!StartBt \/ TheToy!PlayPause \/ TheToy!PlayPrevNext \/ TheToy!ResetWifi
  PROVE TheToy!ToyInv'
<1> USE DEF TheToy!player, TheToy!asking, TheToy!history, TheToy!Event, TheToy!Taken, TheToy!Busy
<1>1. CASE TheToy!Key
  BY <1>1 DEF TheToy!Key
<1>2. ASSUME s1 # <<>>, s1' = Tail(s1) \/ s1' = Append(Tail(s1), "RESET_WIFI")
      PROVE s1' \in Seq(TheToy!Keys \cup {"START_RECORD", "ENTER_BT"}) /\ Len(s1') <= ToyQueue
  <2>1. /\ s1 \in Seq(TheToy!Keys \cup {"START_RECORD", "ENTER_BT"}) /\ Len(s1) <= ToyQueue
        /\ "RESET_WIFI" \in TheToy!Keys \cup {"START_RECORD", "ENTER_BT"}
        /\ Len(s1) \in Nat
    OBVIOUS
  <2>2. Tail(s1) \in Seq(TheToy!Keys \cup {"START_RECORD", "ENTER_BT"}) /\ Len(Tail(s1)) = Len(s1) - 1
    <3> HIDE DEF TheToy!ToyInv, TheToy!Keys
    <3> QED BY <1>2, <2>1, EventsAreQueued
  <2> HIDE DEF TheToy!ToyInv, TheToy!Keys
  <2> QED BY <1>2, <2>1, <2>2, EventsAreQueued
<1>3. CASE TheToy!Unhandled
  BY <1>2, <1>3 DEF TheToy!Unhandled
<1>4. CASE TheToy!TalkStart
  <2>1. UNCHANGED <<s2, s3, s5, s6, s7, s8, s9, s10, s11, s12, s13>>
    BY <1>4 DEF TheToy!TalkStart
  <2>2. s4' \in TheToy!Media \cup {"none"}
    BY <1>4 DEF TheToy!TalkStart
  <2>3. s1 # <<>> /\ (s1' = Tail(s1) \/ s1' = Append(Tail(s1), "RESET_WIFI"))
    BY <1>4 DEF TheToy!TalkStart
  <2> QED BY <1>2, <2>1, <2>2, <2>3
<1>5. CASE TheToy!StartRecorder
  <2>1. UNCHANGED <<s3, s4, s6, s7, s8, s10, s11>> /\ s1 # <<>> /\ s1' = Tail(s1)
    BY <1>5 DEF TheToy!StartRecorder
  <2>2. CASE s2 = "IDLE" /\ ~TheToy!Busy
    <3>1. /\ s2' = "RECORDING" /\ s5' = "recording" /\ s12' = 0
          /\ s9' = s9 + 1 /\ s9 < ToyNumbers
      BY <1>5, <2>2 DEF TheToy!StartRecorder
    <3>2. s13' = (s7 \/ s6 \/ TheToy!Owes(s9 + 1))
      BY <1>5, <2>2 DEF TheToy!StartRecorder
    <3>3. s13' \in BOOLEAN
      BY <3>2
    <3>4. ~s13' => ~s7' /\ ~s6'
      BY <2>1, <3>2
    <3>5. ~s13' => \A i \in DOMAIN s10' : s10'[i] # s9'
      BY <2>1, <3>1, <3>2 DEF TheToy!Owes
    <3> QED BY <1>2, <2>1, <3>1, <3>3, <3>4, <3>5 DEF TheToy!Busy
  <2>3. CASE ~(s2 = "IDLE" /\ ~TheToy!Busy)
    <3>1. UNCHANGED <<s2, s5, s12, s9, s13>>
      BY <1>5, <2>3 DEF TheToy!StartRecorder
    <3> QED BY <1>2, <2>1, <3>1 DEF TheToy!Busy
  <2> QED BY <2>2, <2>3
<1>6. CASE TheToy!SwitchMode
  BY <1>2, <1>6 DEF TheToy!SwitchMode
<1>7. CASE TheToy!StartBt
  BY <1>2, <1>7 DEF TheToy!StartBt
<1>8. CASE TheToy!PlayPause
  BY <1>2, <1>8 DEF TheToy!PlayPause
<1>9. CASE TheToy!PlayPrevNext
  BY <1>2, <1>9 DEF TheToy!PlayPrevNext
<1>10. CASE TheToy!ResetWifi
  BY <1>2, <1>10 DEF TheToy!ResetWifi
<1>11. QED BY <1>1, <1>3, <1>4, <1>5, <1>6, <1>7, <1>8, <1>9, <1>10

\* A question ends or its timer is started, runs out or is stopped, and the
\* numbers begin again.
LEMMA ToyAsks ==
  ASSUME TheToy!ToyInv,
         TheToy!RecOnStop \/ TheToy!ArmTimer \/ TheToy!ResultTimeout \/ TheToy!DclStart \/ TheToy!DclStop
  PROVE TheToy!ToyInv'
<1> USE DEF TheToy!player, TheToy!history
<1>1. CASE TheToy!RecOnStop
  <2>1. TheToy!Busy /\ UNCHANGED <<s1, s3, s7, s9, s8, s11, s13>> /\ s2' \in {s2, "IDLE"}
    BY <1>1 DEF TheToy!RecOnStop
  <2>2. CASE /\ s5 = "recording" /\ Len(s10) < ToyOwed
             /\ s5' = "sent" /\ s6' = TRUE /\ s10' = Append(s10, s9)
             /\ UNCHANGED <<s4, s12>>
    <3>1. s10' \in Seq(0 .. ToyNumbers) /\ Len(s10') <= ToyOwed /\ Len(s10') = Len(s10) + 1
      BY <2>2
    <3>2. ~s13 => \A i \in DOMAIN s10 : s10[i] # s9
      BY <2>2
    <3>3. \A i \in 1 .. Len(s10) : s10'[i] = s10[i]
      BY <2>2
    <3>4. ~s13' => \A i \in DOMAIN s10' : s10'[i] = s9' => s5' = "sent" /\ i = Len(s10')
      BY <2>1, <2>2, <3>1, <3>2, <3>3
    <3>5. ~s13' => s12' = 0
      BY <2>1, <2>2 DEF TheToy!Busy
    <3>6. s6' \in BOOLEAN
      BY <2>2
    <3> QED BY <2>1, <2>2, <3>1, <3>4, <3>5, <3>6 DEF TheToy!Busy
  <2>3. CASE /\ s5' = "none" /\ s4' \in {s4, "prompt"}
             /\ s12' \in {s12, IF s13 THEN s12 ELSE s12 + 1} /\ UNCHANGED <<s6, s10>>
    BY <2>1, <2>3 DEF TheToy!Busy
  <2>4. QED BY <1>1, <2>2, <2>3 DEF TheToy!RecOnStop, TheToy!Reacts
<1>2. CASE TheToy!ArmTimer
  <2>1. UNCHANGED <<s1, s2, s3, s4, s5, s9, s10, s8, s11, s12>>
    BY <1>2 DEF TheToy!ArmTimer
  <2>2. {s6', s7', s13'} \subseteq BOOLEAN /\ s6 /\ ~s6' /\ (s13' <=> s13 \/ s5 # "sent")
    BY <1>2 DEF TheToy!ArmTimer
  <2> QED BY <2>1, <2>2 DEF TheToy!Busy
<1>3. ASSUME TheToy!ResetNumber, UNCHANGED s10
      PROVE /\ s9' = 0 /\ s13' \in BOOLEAN /\ (s13 => s13')
            /\ ~s13' => \A i \in DOMAIN s10' : s10'[i] # s9'
  <2>1. s9' = 0 /\ s13' = (s13 \/ TheToy!Owes(0))
    BY <1>3 DEF TheToy!ResetNumber
  <2> QED BY <1>3, <2>1 DEF TheToy!Owes
<1>4. CASE TheToy!ResultTimeout
  <2>1. UNCHANGED <<s1, s2, s3, s6, s10, s8, s11>> /\ TheToy!ResetNumber /\ s4' \in {s4, "prompt"}
    BY <1>4 DEF TheToy!ResultTimeout
  <2>2. s7' \in BOOLEAN /\ s7 /\ ~s7'
    BY <1>4 DEF TheToy!ResultTimeout
  <2>3. CASE TheToy!Busy
    BY <1>3, <1>4, <2>1, <2>2, <2>3 DEF TheToy!ResultTimeout, TheToy!Cut, TheToy!Busy
  <2>4. CASE ~TheToy!Busy
    <3>1. s5' = "none" /\ s12' = (IF s13 THEN s12 ELSE s12 + 1)
      BY <1>4, <2>4 DEF TheToy!ResultTimeout, TheToy!Reacts
    <3> QED BY <1>3, <2>1, <2>2, <2>4, <3>1 DEF TheToy!Busy
  <2> QED BY <2>3, <2>4
<1>5. CASE TheToy!DclStart
  <2>1. UNCHANGED <<s1, s2, s3, s4, s6, s7, s10, s8, s11, s12>> /\ TheToy!ResetNumber
    BY <1>5 DEF TheToy!DclStart
  <2>2. s5' = s5 \/ (s5 = "recording" /\ s5' = "lost")
    BY <1>5 DEF TheToy!DclStart, TheToy!Cut
  <2> QED BY <1>3, <2>1, <2>2 DEF TheToy!Busy
<1>6. CASE TheToy!DclStop
  <2>1. UNCHANGED <<s1, s2, s3, s4, s5, s6, s9, s10, s8, s11, s12, s13>>
    BY <1>6 DEF TheToy!DclStop
  <2>2. s7' \in BOOLEAN /\ ~s7'
    BY <1>6 DEF TheToy!DclStop
  <2> QED BY <2>1, <2>2 DEF TheToy!Busy
<1>7. QED BY <1>1, <1>2, <1>4, <1>5, <1>6

\* An answer that does not count leaves those to come as they were owed.
LEMMA AnswerIsTaken ==
  ASSUME TheToy!ToyInv, s10 # <<>>, s10' = Tail(s10), UNCHANGED <<s5, s9>>
  PROVE /\ s10' \in Seq(0 .. ToyNumbers) /\ Len(s10') <= ToyOwed
        /\ ~s13 => \A i \in DOMAIN s10' : s10'[i] = s9' => s5' = "sent" /\ i = Len(s10')
<1>1. s10' \in Seq(0 .. ToyNumbers) /\ Len(s10') = Len(s10) - 1
  OBVIOUS
<1>2. \A i \in 1 .. Len(s10') : s10'[i] = s10[i + 1]
  OBVIOUS
<1>3. ASSUME ~s13, NEW i \in DOMAIN s10', s10'[i] = s9'
      PROVE s5' = "sent" /\ i = Len(s10')
  <2>1. i \in 1 .. Len(s10') /\ i + 1 \in DOMAIN s10 /\ s10[i + 1] = s9
    BY <1>1, <1>2, <1>3
  <2>2. s5 = "sent" /\ i + 1 = Len(s10)
    BY <1>3, <2>1
  <2> QED BY <1>1, <2>1, <2>2
<1> QED BY <1>1, <1>3

\* An answer that counts, while nothing is excused, is the last question's and
\* the only one to come.
LEMMA AnswerCounts ==
  ASSUME TheToy!ToyInv, TheToy!Answered
  PROVE /\ s10' \in Seq(0 .. ToyNumbers) /\ Len(s10') <= ToyOwed /\ UNCHANGED s9
        /\ s5' \in {"none", s5} /\ s7' \in BOOLEAN /\ ~s7'
        /\ ~s13 => /\ s5 = "sent" /\ s5' = "none" /\ s12 = 0
                   /\ \A i \in DOMAIN s10' : s10'[i] # s9'
<1>1. s10 # <<>> /\ s10' = Tail(s10) /\ s10[1] = s9 /\ UNCHANGED s9
  BY DEF TheToy!Answered, TheToy!NextAnswer
<1>2. s5' = IF s5 = "sent" /\ Len(s10) = 1 THEN "none" ELSE s5
  BY DEF TheToy!Answered, TheToy!NextAnswer
<1>3. s7' \in BOOLEAN /\ ~s7'
  BY DEF TheToy!Answered
<1>4. 1 \in DOMAIN s10 /\ s10' \in Seq(0 .. ToyNumbers) /\ Len(s10') = Len(s10) - 1
  BY <1>1
<1>5. ~s13 => s5 = "sent" /\ Len(s10) = 1
  BY <1>1, <1>4
<1>6. Len(s10) = 1 => DOMAIN s10' = {}
  BY <1>4
<1>7. ~s13 => s12 = 0
  BY <1>5
<1> QED BY <1>1, <1>2, <1>3, <1>4, <1>5, <1>6, <1>7

\* An answer comes: for the last question, for one before it, or as an error.
LEMMA ToyIsAnswered ==
  ASSUME TheToy!ToyInv,
         TheToy!OnResultIgnored \/ TheToy!OnResultError \/ TheToy!OnResultChat \/ TheToy!OnResultLink
           \/ TheToy!OnResultVolume
  PROVE TheToy!ToyInv'
<1> USE DEF TheToy!player, TheToy!history, TheToy!Reacts
<1>1. CASE TheToy!OnResultIgnored
  <2>1. /\ UNCHANGED <<s1, s2, s3, s4, s5, s6, s7, s9, s8, s11, s12, s13>>
        /\ s10 # <<>> /\ s10' = Tail(s10) /\ s10[1] # s9
    BY <1>1 DEF TheToy!OnResultIgnored
  <2>2. s10' \in Seq(0 .. ToyNumbers) /\ Len(s10') <= ToyOwed
    BY <2>1, AnswerIsTaken
  <2>3. ~s13 => \A i \in DOMAIN s10' : s10'[i] = s9' => s5' = "sent" /\ i = Len(s10')
    BY <2>1, AnswerIsTaken
  <2> QED BY <2>1, <2>2, <2>3 DEF TheToy!Busy
<1>2. ASSUME TheToy!Answered, UNCHANGED <<s1, s2, s3, s6, s13>>, s4' \in TheToy!Media \cup {"none"},
             s8' \in 0 .. 2, s11' \in 0 .. s8', s12' \in {s12, IF s13 THEN s12 ELSE s12 + 1}
      PROVE TheToy!ToyInv'
  <2>1. /\ s10' \in Seq(0 .. ToyNumbers) /\ Len(s10') <= ToyOwed /\ UNCHANGED s9
        /\ s5' \in {"none", s5} /\ s7' \in BOOLEAN /\ ~s7'
    BY <1>2, AnswerCounts
  <2>2. ~s13 => /\ s5' = "none" /\ s12 = 0 /\ \A i \in DOMAIN s10' : s10'[i] # s9'
    BY <1>2, AnswerCounts
  <2>3. s12' \in Nat /\ (~s13 => s12' <= 1)
    BY <1>2, <2>2
  <2> QED BY <1>2, <2>1, <2>2, <2>3 DEF TheToy!Busy
<1>3. CASE TheToy!OnResultError
  BY <1>2, <1>3 DEF TheToy!OnResultError
<1>4. CASE TheToy!OnResultChat
  <2> PICK hears \in BOOLEAN, bye \in BOOLEAN : TheToy!Chat(hears, bye)
    BY <1>4 DEF TheToy!OnResultChat
  <2>1. TheToy!Answered /\ UNCHANGED <<s1, s2, s3, s6, s13>>
    BY DEF TheToy!Chat
  <2>2. s4' \in TheToy!Media \cup {"none"}
    BY DEF TheToy!Chat
  <2>3. s12' \in {s12, IF s13 THEN s12 ELSE s12 + 1}
    BY DEF TheToy!Chat
  <2>4. s8' \in 0 .. 2 /\ s11' \in 0 .. s8'
    BY DEF TheToy!Chat, TheToy!Counted
  <2> QED BY <1>2, <2>1, <2>2, <2>3, <2>4
<1>5. CASE TheToy!OnResultLink
  BY <1>2, <1>5 DEF TheToy!OnResultLink
<1>6. CASE TheToy!OnResultVolume
  BY <1>2, <1>6 DEF TheToy!OnResultVolume
<1>7. QED BY <1>1, <1>3, <1>4, <1>5, <1>6

\* Whatever the toy does, the silences it counts and its reactions stay as
\* promised.
LEMMA ToyStep ==
  ASSUME TheToy!ToyInv, TheToy!Next PROVE TheToy!ToyInv'
BY PlayerTurns, ToyHears, ToyAsks, ToyIsAnswered DEF TheToy!Next

\* The invariant says that silence ends a dialogue and a question has one
\* reaction.
LEMMA ToyKeepsPromise ==
  ASSUME TheToy!ToyInv PROVE TheToy!SilenceEndsDialogue /\ TheToy!OneReaction /\ TheToy!ToyTypeOK
BY DEF TheToy!SilenceEndsDialogue, TheToy!OneReaction, TheToy!Busy

\* The toy stays as it is while another part runs.
LEMMA ToyStays ==
  ASSUME TheToy!ToyInv, UNCHANGED <<s1, s2, s3, s4, s5, s6, s7, s8, s9, s10, s11, s12, s13>>
  PROVE TheToy!ToyInv'
BY DEF TheToy!Busy

HIDE DEF TheToy!ToyInv, TheToy!ToyTypeOK, TheToy!Media, TheToy!None, TheToy!Keys, TheToy!Refused,
   TheToy!Asks, TheToy!Play, TheToy!PlaySong

HIDE ToyAssumption
-----------------------------------------------------------------------------
(* The codec.                                                             *)

USE CodecAssumption DEF TheCodec!CodecInv, TheCodec!Statuses, TheCodec!CodecStatuses, TheCodec!Busy

\* At first the player and the codec are at rest.
LEMMA CodecBegins ==
  ASSUME TheCodec!CodecInit PROVE TheCodec!CodecInv
<1>1. {s3, s5} \subseteq BOOLEAN /\ ~s3 /\ ~s5
  BY DEF TheCodec!CodecInit
<1> QED BY <1>1 DEF TheCodec!CodecInit, TheCodec!StatusTells, TheCodec!SleeperWillWake,
   TheCodec!HandInHand,
   TheCodec!CodecTypeOK

\* The main thread is asked for something and begins.
LEMMA MainAsks ==
  ASSUME TheCodec!CodecInv,
         TheCodec!AskPlay \/ TheCodec!AskStop \/ TheCodec!AskPause \/ TheCodec!AskResume
           \/ TheCodec!AskBtMode \/ TheCodec!AskUartMode \/ TheCodec!AskRecord
  PROVE TheCodec!CodecInv'
<1> USE DEF TheCodec!Calls, TheCodec!MainKeeps
<1> DEFINE Statuses == s1 \in TheCodec!Statuses /\ s2 \in TheCodec!CodecStatuses /\ s9 \in TheCodec!Statuses
           Stages == /\ s4 \in {"loop", "asleep", "awake", "start", "write", "end", "wait"}
                     /\ s8 \in {"idle", "stop", "silence", "wake", "pause", "resume", "resumed", "bt", "bt mode",
                                "uart", "uart mode", "record", "recording"}
                     /\ s10 \in {"none", "reads", "stopped"}
           Counts == /\ s6 \in 0 .. CodecMedia /\ s7 \in Nat /\ s6 \in Nat /\ s6 <= s7 /\ s7 <= CodecMedia
           History == s11 \subseteq {"check", "start", "wait", "pause"}
           Flags == s3 \in BOOLEAN /\ s5 \in BOOLEAN
<1>1. CASE TheCodec!AskPlay
  BY <1>1 DEF TheCodec!AskPlay, TheCodec!StatusTells, TheCodec!SleeperWillWake, TheCodec!HandInHand,
     TheCodec!CodecTypeOK
<1>2. CASE TheCodec!AskStop
  BY <1>2 DEF TheCodec!AskStop, TheCodec!StatusTells, TheCodec!SleeperWillWake, TheCodec!HandInHand,
     TheCodec!CodecTypeOK
<1>3. CASE TheCodec!AskPause
  BY <1>3 DEF TheCodec!AskPause, TheCodec!StatusTells, TheCodec!SleeperWillWake, TheCodec!HandInHand,
     TheCodec!CodecTypeOK
<1>4. CASE TheCodec!AskResume
  BY <1>4 DEF TheCodec!AskResume, TheCodec!StatusTells, TheCodec!SleeperWillWake, TheCodec!HandInHand,
     TheCodec!CodecTypeOK
<1>5. CASE TheCodec!AskBtMode
  BY <1>5 DEF TheCodec!AskBtMode, TheCodec!StatusTells, TheCodec!SleeperWillWake, TheCodec!HandInHand,
     TheCodec!CodecTypeOK
<1>6. CASE TheCodec!AskUartMode
  BY <1>6 DEF TheCodec!AskUartMode, TheCodec!StatusTells, TheCodec!SleeperWillWake, TheCodec!HandInHand,
     TheCodec!CodecTypeOK
<1>7. CASE TheCodec!AskRecord
  BY <1>7 DEF TheCodec!AskRecord, TheCodec!StatusTells, TheCodec!SleeperWillWake, TheCodec!HandInHand,
     TheCodec!CodecTypeOK
<1>8. QED BY <1>1, <1>2, <1>3, <1>4, <1>5, <1>6, <1>7

\* The main thread sets the status of the player or of the codec.
LEMMA MainSets ==
  ASSUME TheCodec!CodecInv,
         TheCodec!StopStatus \/ TheCodec!StopCodec \/ TheCodec!StopWakes \/ TheCodec!SetPause
           \/ TheCodec!SetSignal \/ TheCodec!SetPlaying \/ TheCodec!BtStatus \/ TheCodec!BtCodec
           \/ TheCodec!UartCodec \/ TheCodec!UartStatus \/ TheCodec!RecordStatus \/ TheCodec!RecordCodec
  PROVE TheCodec!CodecInv'
<1> USE DEF TheCodec!MainKeeps, TheCodec!data
<1> DEFINE Statuses == s1 \in TheCodec!Statuses /\ s2 \in TheCodec!CodecStatuses /\ s9 \in TheCodec!Statuses
           Stages == /\ s4 \in {"loop", "asleep", "awake", "start", "write", "end", "wait"}
                     /\ s8 \in {"idle", "stop", "silence", "wake", "pause", "resume", "resumed", "bt", "bt mode",
                                "uart", "uart mode", "record", "recording"}
                     /\ s10 \in {"none", "reads", "stopped"}
           Counts == /\ s6 \in 0 .. CodecMedia /\ s7 \in Nat /\ s6 \in Nat /\ s6 <= s7 /\ s7 <= CodecMedia
           History == s11 \subseteq {"check", "start", "wait", "pause"}
           Flags == s3 \in BOOLEAN /\ s5 \in BOOLEAN
<1>1. CASE TheCodec!StopStatus
  <2>1. s11' = {} => s11 = {} /\ ~(s1 \in {"BT", "RECORDING"}) /\ s4 \notin {"start", "write"}
    BY <1>1 DEF TheCodec!StopStatus
  <2> QED BY <1>1, <2>1 DEF TheCodec!StopStatus, TheCodec!StatusTells, TheCodec!SleeperWillWake,
     TheCodec!HandInHand, TheCodec!CodecTypeOK
<1>2. CASE TheCodec!StopCodec
  BY <1>2 DEF TheCodec!StopCodec, TheCodec!StopPlay, TheCodec!CodecPlays, TheCodec!StatusTells,
     TheCodec!SleeperWillWake, TheCodec!HandInHand, TheCodec!CodecTypeOK
<1>3. CASE TheCodec!StopWakes
  <2>1. s3' \in BOOLEAN /\ (s3' <=> s3 \/ s9 = "PAUSE")
    BY <1>3 DEF TheCodec!StopWakes
  <2> QED BY <1>3, <2>1 DEF TheCodec!StopWakes, TheCodec!StatusTells, TheCodec!SleeperWillWake,
     TheCodec!HandInHand, TheCodec!CodecTypeOK
<1>4. CASE TheCodec!SetPause
  <2>1. s11' = {} => s11 = {} /\ s1 = "PLAYING"
    BY <1>4 DEF TheCodec!SetPause
  <2> QED BY <1>4, <2>1 DEF TheCodec!SetPause, TheCodec!StatusTells, TheCodec!SleeperWillWake,
     TheCodec!HandInHand, TheCodec!CodecTypeOK
<1>5. CASE TheCodec!SetSignal
  <2>1. s3' \in BOOLEAN /\ s3'
    BY <1>5 DEF TheCodec!SetSignal
  <2> QED BY <1>5, <2>1 DEF TheCodec!SetSignal, TheCodec!StatusTells, TheCodec!SleeperWillWake,
     TheCodec!HandInHand, TheCodec!CodecTypeOK
<1>6. CASE TheCodec!SetPlaying
  <2>1. s11' = {} => s11 = {} /\ s1 = "PAUSE"
    BY <1>6 DEF TheCodec!SetPlaying
  <2> QED BY <1>6, <2>1 DEF TheCodec!SetPlaying, TheCodec!StatusTells, TheCodec!SleeperWillWake,
     TheCodec!HandInHand, TheCodec!CodecTypeOK
<1>7. CASE TheCodec!BtStatus
  <2>1. s11' = {} => s11 = {} /\ s1 = "IDLE"
    BY <1>7 DEF TheCodec!BtStatus
  <2>2. Statuses'
    BY <1>7 DEF TheCodec!BtStatus, TheCodec!CodecTypeOK
  <2>3. Stages'
    BY <1>7 DEF TheCodec!BtStatus, TheCodec!CodecTypeOK
  <2>4. Counts'
    BY <1>7 DEF TheCodec!BtStatus, TheCodec!CodecTypeOK
  <2>5. History'
    BY <1>7 DEF TheCodec!BtStatus, TheCodec!CodecTypeOK
  <2>6. Flags'
    BY <1>7, <2>1 DEF TheCodec!BtStatus, TheCodec!CodecTypeOK
  <2>7. s11' = {} => s11 = {} /\ TheCodec!StatusTells'
    BY <1>7, <2>1 DEF TheCodec!BtStatus, TheCodec!StatusTells, TheCodec!SleeperWillWake,
       TheCodec!HandInHand, TheCodec!CodecTypeOK
  <2>8. s11' = {} => TheCodec!SleeperWillWake'
    BY <1>7, <2>1, <2>7 DEF TheCodec!BtStatus, TheCodec!StatusTells, TheCodec!SleeperWillWake,
       TheCodec!HandInHand, TheCodec!CodecTypeOK
  <2> QED BY <2>2, <2>3, <2>4, <2>5, <2>6, <2>7, <2>8, Zenon DEF TheCodec!CodecTypeOK
<1>8. CASE TheCodec!BtCodec
  <2>1. Statuses'
    BY <1>8 DEF TheCodec!BtCodec, TheCodec!SetBtMode, TheCodec!CodecTypeOK
  <2>2. Stages'
    BY <1>8 DEF TheCodec!BtCodec, TheCodec!SetBtMode, TheCodec!CodecTypeOK
  <2>3. Counts'
    BY <1>8 DEF TheCodec!BtCodec, TheCodec!SetBtMode, TheCodec!CodecTypeOK
  <2>4. History'
    BY <1>8 DEF TheCodec!BtCodec, TheCodec!SetBtMode, TheCodec!CodecTypeOK
  <2>5. Flags'
    BY <1>8 DEF TheCodec!BtCodec, TheCodec!SetBtMode, TheCodec!CodecTypeOK
  <2>6. s11' = {} => s11 = {} /\ TheCodec!StatusTells'
    BY <1>8 DEF TheCodec!BtCodec, TheCodec!SetBtMode, TheCodec!StatusTells, TheCodec!SleeperWillWake,
       TheCodec!HandInHand, TheCodec!CodecTypeOK
  <2>7. s11' = {} => TheCodec!SleeperWillWake'
    BY <1>8, <2>6 DEF TheCodec!BtCodec, TheCodec!SetBtMode, TheCodec!StatusTells,
       TheCodec!SleeperWillWake, TheCodec!HandInHand, TheCodec!CodecTypeOK
  <2> QED BY <2>1, <2>2, <2>3, <2>4, <2>5, <2>6, <2>7, Zenon DEF TheCodec!CodecTypeOK
<1>9. CASE TheCodec!UartCodec
  <2>1. Statuses'
    BY <1>9 DEF TheCodec!UartCodec, TheCodec!SetUartMode, TheCodec!CodecTypeOK
  <2>2. Stages'
    BY <1>9 DEF TheCodec!UartCodec, TheCodec!SetUartMode, TheCodec!CodecTypeOK
  <2>3. Counts'
    BY <1>9 DEF TheCodec!UartCodec, TheCodec!SetUartMode, TheCodec!CodecTypeOK
  <2>4. History'
    BY <1>9 DEF TheCodec!UartCodec, TheCodec!SetUartMode, TheCodec!CodecTypeOK
  <2>5. Flags'
    BY <1>9 DEF TheCodec!UartCodec, TheCodec!SetUartMode, TheCodec!CodecTypeOK
  <2>6. s11' = {} => s11 = {} /\ TheCodec!StatusTells'
    BY <1>9 DEF TheCodec!UartCodec, TheCodec!SetUartMode, TheCodec!StatusTells, TheCodec!SleeperWillWake,
       TheCodec!HandInHand, TheCodec!CodecTypeOK
  <2>7. s11' = {} => TheCodec!SleeperWillWake'
    BY <1>9, <2>6 DEF TheCodec!UartCodec, TheCodec!SetUartMode, TheCodec!StatusTells,
       TheCodec!SleeperWillWake, TheCodec!HandInHand, TheCodec!CodecTypeOK
  <2> QED BY <2>1, <2>2, <2>3, <2>4, <2>5, <2>6, <2>7, Zenon DEF TheCodec!CodecTypeOK
<1>10. CASE TheCodec!UartStatus
  <2>1. Statuses'
    BY <1>10 DEF TheCodec!UartStatus, TheCodec!CodecTypeOK
  <2>2. Stages'
    BY <1>10 DEF TheCodec!UartStatus, TheCodec!CodecTypeOK
  <2>3. Counts'
    BY <1>10 DEF TheCodec!UartStatus, TheCodec!CodecTypeOK
  <2>4. History'
    BY <1>10 DEF TheCodec!UartStatus, TheCodec!CodecTypeOK
  <2>5. Flags'
    BY <1>10 DEF TheCodec!UartStatus, TheCodec!CodecTypeOK
  <2>6. s11' = {} => s11 = {} /\ TheCodec!StatusTells'
    BY <1>10 DEF TheCodec!UartStatus, TheCodec!StatusTells, TheCodec!SleeperWillWake,
       TheCodec!HandInHand, TheCodec!CodecTypeOK
  <2>7. s11' = {} => TheCodec!SleeperWillWake'
    BY <1>10, <2>6 DEF TheCodec!UartStatus, TheCodec!StatusTells, TheCodec!SleeperWillWake,
       TheCodec!HandInHand, TheCodec!CodecTypeOK
  <2> QED BY <2>1, <2>2, <2>3, <2>4, <2>5, <2>6, <2>7, Zenon DEF TheCodec!CodecTypeOK
<1>11. CASE TheCodec!RecordStatus
  <2>1. s11' = {} => s11 = {} /\ s1 = "IDLE" /\ s4 \notin {"wait", "end"}
    BY <1>11 DEF TheCodec!RecordStatus
  <2> QED BY <1>11, <2>1 DEF TheCodec!RecordStatus, TheCodec!StatusTells, TheCodec!SleeperWillWake,
     TheCodec!HandInHand, TheCodec!CodecTypeOK
<1>12. CASE TheCodec!RecordCodec
  BY <1>12 DEF TheCodec!RecordCodec, TheCodec!StartRecord, TheCodec!StatusTells,
     TheCodec!SleeperWillWake, TheCodec!HandInHand, TheCodec!CodecTypeOK
<1>13. QED BY <1>1, <1>2, <1>3, <1>4, <1>5, <1>6, <1>7, <1>8, <1>9, <1>10, <1>11, <1>12

\* The main thread ends what it does, or the thread of the codec goes on by a
\* step.
LEMMA ThreadsGoOn ==
  ASSUME TheCodec!CodecInv,
         TheCodec!StopsRecord \/ TheCodec!RecordEnds \/ TheCodec!PauseCodec \/ TheCodec!Wakes
           \/ TheCodec!Start \/ TheCodec!StartCodec \/ TheCodec!Continue \/ TheCodec!WriteCodec
           \/ TheCodec!Stop \/ TheCodec!EndCodec \/ TheCodec!PlayStopped
  PROVE TheCodec!CodecInv'
<1> USE DEF TheCodec!PlayerKeeps, TheCodec!RecKeeps, TheCodec!data
<1> DEFINE Statuses == s1 \in TheCodec!Statuses /\ s2 \in TheCodec!CodecStatuses /\ s9 \in TheCodec!Statuses
           Stages == /\ s4 \in {"loop", "asleep", "awake", "start", "write", "end", "wait"}
                     /\ s8 \in {"idle", "stop", "silence", "wake", "pause", "resume", "resumed", "bt", "bt mode",
                                "uart", "uart mode", "record", "recording"}
                     /\ s10 \in {"none", "reads", "stopped"}
           Counts == /\ s6 \in 0 .. CodecMedia /\ s7 \in Nat /\ s6 \in Nat /\ s6 <= s7 /\ s7 <= CodecMedia
           History == s11 \subseteq {"check", "start", "wait", "pause"}
           Flags == s3 \in BOOLEAN /\ s5 \in BOOLEAN
<1>1. CASE TheCodec!StopsRecord
  <2>1. Statuses'
    BY <1>1 DEF TheCodec!StopsRecord, TheCodec!StopRecord, TheCodec!CodecTypeOK
  <2>2. Stages'
    BY <1>1 DEF TheCodec!StopsRecord, TheCodec!StopRecord, TheCodec!CodecTypeOK
  <2>3. Counts'
    BY <1>1 DEF TheCodec!StopsRecord, TheCodec!StopRecord, TheCodec!CodecTypeOK
  <2>4. History'
    BY <1>1 DEF TheCodec!StopsRecord, TheCodec!StopRecord, TheCodec!CodecTypeOK
  <2>5. Flags'
    BY <1>1 DEF TheCodec!StopsRecord, TheCodec!StopRecord, TheCodec!CodecTypeOK
  <2>6. s11' = {} => s11 = {} /\ TheCodec!StatusTells'
    BY <1>1 DEF TheCodec!StopsRecord, TheCodec!StopRecord, TheCodec!StatusTells,
       TheCodec!SleeperWillWake, TheCodec!HandInHand, TheCodec!CodecTypeOK
  <2>7. s11' = {} => TheCodec!SleeperWillWake'
    BY <1>1, <2>6 DEF TheCodec!StopsRecord, TheCodec!StopRecord, TheCodec!StatusTells,
       TheCodec!SleeperWillWake, TheCodec!HandInHand, TheCodec!CodecTypeOK
  <2> QED BY <2>1, <2>2, <2>3, <2>4, <2>5, <2>6, <2>7, Zenon DEF TheCodec!CodecTypeOK
<1>2. CASE TheCodec!RecordEnds
  <2>1. Statuses'
    BY <1>2 DEF TheCodec!RecordEnds, TheCodec!CodecTypeOK
  <2>2. Stages'
    BY <1>2 DEF TheCodec!RecordEnds, TheCodec!CodecTypeOK
  <2>3. Counts'
    BY <1>2 DEF TheCodec!RecordEnds, TheCodec!CodecTypeOK
  <2>4. History'
    BY <1>2 DEF TheCodec!RecordEnds, TheCodec!CodecTypeOK
  <2>5. Flags'
    BY <1>2 DEF TheCodec!RecordEnds, TheCodec!CodecTypeOK
  <2>6. s11' = {} => s11 = {} /\ TheCodec!StatusTells'
    BY <1>2 DEF TheCodec!RecordEnds, TheCodec!StatusTells, TheCodec!SleeperWillWake, TheCodec!HandInHand,
       TheCodec!CodecTypeOK
  <2>7. s11' = {} => TheCodec!SleeperWillWake'
    BY <1>2, <2>6 DEF TheCodec!RecordEnds, TheCodec!StatusTells, TheCodec!SleeperWillWake,
       TheCodec!HandInHand, TheCodec!CodecTypeOK
  <2> QED BY <2>1, <2>2, <2>3, <2>4, <2>5, <2>6, <2>7, Zenon DEF TheCodec!CodecTypeOK
<1>3. CASE TheCodec!PauseCodec
  <2>1. Statuses'
    BY <1>3 DEF TheCodec!PauseCodec, TheCodec!PausePlay, TheCodec!CodecTypeOK
  <2>2. Stages'
    BY <1>3 DEF TheCodec!PauseCodec, TheCodec!PausePlay, TheCodec!CodecTypeOK
  <2>3. Counts'
    BY <1>3 DEF TheCodec!PauseCodec, TheCodec!PausePlay, TheCodec!CodecTypeOK
  <2>4. History'
    BY <1>3 DEF TheCodec!PauseCodec, TheCodec!PausePlay, TheCodec!CodecTypeOK
  <2>5. Flags'
    BY <1>3 DEF TheCodec!PauseCodec, TheCodec!PausePlay, TheCodec!CodecTypeOK
  <2>6. s11' = {} => s11 = {} /\ TheCodec!StatusTells'
    BY <1>3 DEF TheCodec!PauseCodec, TheCodec!PausePlay, TheCodec!StatusTells, TheCodec!SleeperWillWake,
       TheCodec!HandInHand, TheCodec!CodecTypeOK
  <2>7. s11' = {} => TheCodec!SleeperWillWake'
    BY <1>3, <2>6 DEF TheCodec!PauseCodec, TheCodec!PausePlay, TheCodec!StatusTells,
       TheCodec!SleeperWillWake, TheCodec!HandInHand, TheCodec!CodecTypeOK
  <2> QED BY <2>1, <2>2, <2>3, <2>4, <2>5, <2>6, <2>7, Zenon DEF TheCodec!CodecTypeOK
<1>4. CASE TheCodec!Wakes
  <2>1. s3 /\ s3' \in BOOLEAN /\ ~s3'
    BY <1>4 DEF TheCodec!Wakes
  <2>2. Statuses'
    BY <1>4 DEF TheCodec!Wakes, TheCodec!CodecTypeOK
  <2>3. Stages'
    BY <1>4 DEF TheCodec!Wakes, TheCodec!CodecTypeOK
  <2>4. Counts'
    BY <1>4 DEF TheCodec!Wakes, TheCodec!CodecTypeOK
  <2>5. History'
    BY <1>4 DEF TheCodec!Wakes, TheCodec!CodecTypeOK
  <2>6. Flags'
    BY <1>4, <2>1 DEF TheCodec!Wakes, TheCodec!CodecTypeOK
  <2>7. s11' = {} => s11 = {} /\ TheCodec!StatusTells'
    BY <1>4, <2>1 DEF TheCodec!Wakes, TheCodec!StatusTells, TheCodec!SleeperWillWake,
       TheCodec!HandInHand, TheCodec!CodecTypeOK
  <2>8. s11' = {} => TheCodec!SleeperWillWake'
    BY <1>4, <2>1, <2>7 DEF TheCodec!Wakes, TheCodec!StatusTells, TheCodec!SleeperWillWake,
       TheCodec!HandInHand, TheCodec!CodecTypeOK
  <2> QED BY <2>2, <2>3, <2>4, <2>5, <2>6, <2>7, <2>8, Zenon DEF TheCodec!CodecTypeOK
<1>5. CASE TheCodec!Start
  <2>1. ~s5 /\ s5' \in BOOLEAN /\ s5'
    BY <1>5 DEF TheCodec!Start
  <2>2. s11' = {} => s11 = {} /\ s8 \notin {"silence", "wake"}
    BY <1>5 DEF TheCodec!Start
  <2>3. Statuses'
    BY <1>5 DEF TheCodec!Start, TheCodec!Takes, TheCodec!CodecTypeOK
  <2>4. Stages'
    BY <1>5 DEF TheCodec!Start, TheCodec!Takes, TheCodec!CodecTypeOK
  <2>5. Counts'
    <3>1. s7' = s7 /\ s6 > 0 /\ s6' = s6 - 1
      BY <1>5 DEF TheCodec!Start
    <3>2. s6 \in 0 .. CodecMedia /\ s7 \in Nat /\ s6 <= s7 /\ s7 <= CodecMedia
      BY DEF TheCodec!CodecTypeOK
    <3> QED BY ONLY <3>1, <3>2, CodecAssumption DEF Counts
  <2>6. History'
    <3>1. s11' \subseteq s11 \cup {"start"}
      BY <1>5 DEF TheCodec!Start
    <3>2. s11 \subseteq {"check", "start", "wait", "pause"}
      OBVIOUS
    <3> QED BY ONLY <3>1, <3>2 DEF History
  <2>7. Flags'
    BY <1>5, <2>1, <2>2 DEF TheCodec!Start, TheCodec!Takes, TheCodec!CodecTypeOK
  <2>8. s11' = {} => s11 = {} /\ TheCodec!StatusTells'
    BY <1>5, <2>1, <2>2 DEF TheCodec!Start, TheCodec!Takes, TheCodec!StatusTells,
       TheCodec!SleeperWillWake, TheCodec!HandInHand, TheCodec!CodecTypeOK
  <2>9. s11' = {} => TheCodec!SleeperWillWake'
    BY <1>5, <2>1, <2>2, <2>8 DEF TheCodec!Start, TheCodec!Takes, TheCodec!StatusTells,
       TheCodec!SleeperWillWake, TheCodec!HandInHand, TheCodec!CodecTypeOK
  <2> QED BY <2>3, <2>4, <2>5, <2>6, <2>7, <2>8, <2>9, Zenon DEF TheCodec!CodecTypeOK
<1>6. CASE TheCodec!StartCodec
  <2>1. Statuses'
    BY <1>6 DEF TheCodec!StartCodec, TheCodec!StartPlay, TheCodec!CodecTypeOK
  <2>2. Stages'
    BY <1>6 DEF TheCodec!StartCodec, TheCodec!StartPlay, TheCodec!CodecTypeOK
  <2>3. Counts'
    BY <1>6 DEF TheCodec!StartCodec, TheCodec!StartPlay, TheCodec!CodecTypeOK
  <2>4. History'
    BY <1>6 DEF TheCodec!StartCodec, TheCodec!StartPlay, TheCodec!CodecTypeOK
  <2>5. Flags'
    BY <1>6 DEF TheCodec!StartCodec, TheCodec!StartPlay, TheCodec!CodecTypeOK
  <2>6. s11' = {} => s11 = {} /\ TheCodec!StatusTells'
    BY <1>6 DEF TheCodec!StartCodec, TheCodec!StartPlay, TheCodec!StatusTells, TheCodec!SleeperWillWake,
       TheCodec!HandInHand, TheCodec!CodecTypeOK
  <2>7. s11' = {} => TheCodec!SleeperWillWake'
    BY <1>6, <2>6 DEF TheCodec!StartCodec, TheCodec!StartPlay, TheCodec!StatusTells,
       TheCodec!SleeperWillWake, TheCodec!HandInHand, TheCodec!CodecTypeOK
  <2> QED BY <2>1, <2>2, <2>3, <2>4, <2>5, <2>6, <2>7, Zenon DEF TheCodec!CodecTypeOK
<1>7. CASE TheCodec!Continue
  <2>1. Statuses'
    BY <1>7 DEF TheCodec!Continue, TheCodec!Takes, TheCodec!CodecTypeOK
  <2>2. Stages'
    BY <1>7 DEF TheCodec!Continue, TheCodec!Takes, TheCodec!CodecTypeOK
  <2>3. Counts'
    BY <1>7 DEF TheCodec!Continue, TheCodec!Takes, TheCodec!CodecTypeOK
  <2>4. History'
    BY <1>7 DEF TheCodec!Continue, TheCodec!Takes, TheCodec!CodecTypeOK
  <2>5. Flags'
    BY <1>7 DEF TheCodec!Continue, TheCodec!Takes, TheCodec!CodecTypeOK
  <2>6. s11' = {} => s11 = {} /\ TheCodec!StatusTells'
    BY <1>7 DEF TheCodec!Continue, TheCodec!Takes, TheCodec!StatusTells, TheCodec!SleeperWillWake,
       TheCodec!HandInHand, TheCodec!CodecTypeOK
  <2>7. s11' = {} => TheCodec!SleeperWillWake'
    BY <1>7, <2>6 DEF TheCodec!Continue, TheCodec!Takes, TheCodec!StatusTells, TheCodec!SleeperWillWake,
       TheCodec!HandInHand, TheCodec!CodecTypeOK
  <2> QED BY <2>1, <2>2, <2>3, <2>4, <2>5, <2>6, <2>7, Zenon DEF TheCodec!CodecTypeOK
<1>8. CASE TheCodec!WriteCodec
  <2>1. Statuses'
    BY <1>8 DEF TheCodec!WriteCodec, TheCodec!WriteData, TheCodec!CodecPlays, TheCodec!CodecTypeOK
  <2>2. Stages'
    BY <1>8 DEF TheCodec!WriteCodec, TheCodec!WriteData, TheCodec!CodecPlays, TheCodec!CodecTypeOK
  <2>3. Counts'
    BY <1>8 DEF TheCodec!WriteCodec, TheCodec!WriteData, TheCodec!CodecPlays, TheCodec!CodecTypeOK
  <2>4. History'
    BY <1>8 DEF TheCodec!WriteCodec, TheCodec!WriteData, TheCodec!CodecPlays, TheCodec!CodecTypeOK
  <2>5. Flags'
    BY <1>8 DEF TheCodec!WriteCodec, TheCodec!WriteData, TheCodec!CodecPlays, TheCodec!CodecTypeOK
  <2>6. s11' = {} => s11 = {} /\ TheCodec!StatusTells'
    BY <1>8 DEF TheCodec!WriteCodec, TheCodec!WriteData, TheCodec!CodecPlays, TheCodec!StatusTells,
       TheCodec!SleeperWillWake, TheCodec!HandInHand, TheCodec!CodecTypeOK
  <2>7. s11' = {} => TheCodec!SleeperWillWake'
    BY <1>8, <2>6 DEF TheCodec!WriteCodec, TheCodec!WriteData, TheCodec!CodecPlays, TheCodec!StatusTells,
       TheCodec!SleeperWillWake, TheCodec!HandInHand, TheCodec!CodecTypeOK
  <2> QED BY <2>1, <2>2, <2>3, <2>4, <2>5, <2>6, <2>7, Zenon DEF TheCodec!CodecTypeOK
<1>9. CASE TheCodec!Stop
  <2>1. s5 /\ s5' \in BOOLEAN /\ ~s5'
    BY <1>9 DEF TheCodec!Stop
  <2>2. Statuses'
    BY <1>9 DEF TheCodec!Stop, TheCodec!Takes, TheCodec!CodecTypeOK
  <2>3. Stages'
    BY <1>9 DEF TheCodec!Stop, TheCodec!Takes, TheCodec!CodecTypeOK
  <2>4. Counts'
    BY <1>9 DEF TheCodec!Stop, TheCodec!Takes, TheCodec!CodecTypeOK
  <2>5. History'
    BY <1>9 DEF TheCodec!Stop, TheCodec!Takes, TheCodec!CodecTypeOK
  <2>6. Flags'
    BY <1>9, <2>1 DEF TheCodec!Stop, TheCodec!Takes, TheCodec!CodecTypeOK
  <2>7. s11' = {} => s11 = {} /\ TheCodec!StatusTells'
    BY <1>9, <2>1 DEF TheCodec!Stop, TheCodec!Takes, TheCodec!StatusTells, TheCodec!SleeperWillWake,
       TheCodec!HandInHand, TheCodec!CodecTypeOK
  <2>8. s11' = {} => TheCodec!SleeperWillWake'
    BY <1>9, <2>1, <2>7 DEF TheCodec!Stop, TheCodec!Takes, TheCodec!StatusTells,
       TheCodec!SleeperWillWake, TheCodec!HandInHand, TheCodec!CodecTypeOK
  <2> QED BY <2>2, <2>3, <2>4, <2>5, <2>6, <2>7, <2>8, Zenon DEF TheCodec!CodecTypeOK
<1>10. CASE TheCodec!EndCodec
  <2>1. Statuses'
    BY <1>10 DEF TheCodec!EndCodec, TheCodec!WriteEnd, TheCodec!CodecPlays, TheCodec!CodecTypeOK
  <2>2. Stages'
    BY <1>10 DEF TheCodec!EndCodec, TheCodec!WriteEnd, TheCodec!CodecPlays, TheCodec!CodecTypeOK
  <2>3. Counts'
    BY <1>10 DEF TheCodec!EndCodec, TheCodec!WriteEnd, TheCodec!CodecPlays, TheCodec!CodecTypeOK
  <2>4. History'
    BY <1>10 DEF TheCodec!EndCodec, TheCodec!WriteEnd, TheCodec!CodecPlays, TheCodec!CodecTypeOK
  <2>5. Flags'
    BY <1>10 DEF TheCodec!EndCodec, TheCodec!WriteEnd, TheCodec!CodecPlays, TheCodec!CodecTypeOK
  <2>6. s11' = {} => s11 = {} /\ TheCodec!StatusTells'
    BY <1>10 DEF TheCodec!EndCodec, TheCodec!WriteEnd, TheCodec!CodecPlays, TheCodec!StatusTells,
       TheCodec!SleeperWillWake, TheCodec!HandInHand, TheCodec!CodecTypeOK
  <2>7. s11' = {} => TheCodec!SleeperWillWake'
    BY <1>10, <2>6 DEF TheCodec!EndCodec, TheCodec!WriteEnd, TheCodec!CodecPlays, TheCodec!StatusTells,
       TheCodec!SleeperWillWake, TheCodec!HandInHand, TheCodec!CodecTypeOK
  <2> QED BY <2>1, <2>2, <2>3, <2>4, <2>5, <2>6, <2>7, Zenon DEF TheCodec!CodecTypeOK
<1>11. CASE TheCodec!PlayStopped
  <2>1. s11' = {} => s11 = {} /\ s1 \notin {"BT", "RECORDING"}
    BY <1>11 DEF TheCodec!PlayStopped
  <2>2. Statuses'
    BY <1>11 DEF TheCodec!PlayStopped, TheCodec!CodecPlays, TheCodec!CodecTypeOK
  <2>3. Stages'
    BY <1>11 DEF TheCodec!PlayStopped, TheCodec!CodecPlays, TheCodec!CodecTypeOK
  <2>4. Counts'
    BY <1>11 DEF TheCodec!PlayStopped, TheCodec!CodecPlays, TheCodec!CodecTypeOK
  <2>5. History'
    BY <1>11 DEF TheCodec!PlayStopped, TheCodec!CodecPlays, TheCodec!CodecTypeOK
  <2>6. Flags'
    BY <1>11, <2>1 DEF TheCodec!PlayStopped, TheCodec!CodecPlays, TheCodec!CodecTypeOK
  <2>7. s11' = {} => s11 = {} /\ TheCodec!StatusTells'
    BY <1>11, <2>1 DEF TheCodec!PlayStopped, TheCodec!CodecPlays, TheCodec!StatusTells,
       TheCodec!SleeperWillWake, TheCodec!HandInHand, TheCodec!CodecTypeOK
  <2>8. s11' = {} => TheCodec!SleeperWillWake'
    BY <1>11, <2>1, <2>7 DEF TheCodec!PlayStopped, TheCodec!CodecPlays, TheCodec!StatusTells,
       TheCodec!SleeperWillWake, TheCodec!HandInHand, TheCodec!CodecTypeOK
  <2> QED BY <2>2, <2>3, <2>4, <2>5, <2>6, <2>7, <2>8, Zenon DEF TheCodec!CodecTypeOK
<1>12. QED BY <1>1, <1>2, <1>3, <1>4, <1>5, <1>6, <1>7, <1>8, <1>9, <1>10, <1>11

\* As long as no thread was overtaken, the status of the player tells what the
\* codec does.
LEMMA CodecStep ==
  ASSUME TheCodec!CodecInv, TheCodec!CodecNext PROVE TheCodec!CodecInv'
BY MainAsks, MainSets, ThreadsGoOn DEF TheCodec!CodecNext

\* The invariant says that the player and the codec agree, and that who sleeps
\* is paused.
LEMMA CodecKeepsPromise ==
  ASSUME TheCodec!CodecInv
  PROVE  TheCodec!PlayerAndCodecAgree /\ TheCodec!SleeperIsPaused /\ TheCodec!CodecTypeOK
BY DEF TheCodec!PlayerAndCodecAgree, TheCodec!SleeperIsPaused, TheCodec!AtRest, TheCodec!StatusTells,
   TheCodec!SleeperWillWake, TheCodec!HandInHand,
   TheCodec!CodecTypeOK

\* The codec stays as it is while another part runs.
LEMMA CodecStays ==
  ASSUME TheCodec!CodecInv, UNCHANGED <<s1, s2, s3, s4, s5, s6, s7, s8, s9, s10, s11>>
  PROVE TheCodec!CodecInv'
<1> DEFINE Statuses == s1 \in TheCodec!Statuses /\ s2 \in TheCodec!CodecStatuses /\ s9 \in TheCodec!Statuses
           Stages == /\ s4 \in {"loop", "asleep", "awake", "start", "write", "end", "wait"}
                     /\ s8 \in {"idle", "stop", "silence", "wake", "pause", "resume", "resumed", "bt", "bt mode",
                                "uart", "uart mode", "record", "recording"}
                     /\ s10 \in {"none", "reads", "stopped"}
           Counts == /\ s6 \in 0 .. CodecMedia /\ s7 \in Nat /\ s6 \in Nat /\ s6 <= s7 /\ s7 <= CodecMedia
           History == s11 \subseteq {"check", "start", "wait", "pause"}
           Flags == s3 \in BOOLEAN /\ s5 \in BOOLEAN
<1>1. TheCodec!StatusTells' <=> TheCodec!StatusTells
  BY DEF TheCodec!StatusTells, TheCodec!HandInHand
<1>2. TheCodec!SleeperWillWake' <=> TheCodec!SleeperWillWake
  BY DEF TheCodec!SleeperWillWake
<1>3. Statuses'
  BY DEF TheCodec!CodecTypeOK
<1>4. Stages'
  BY DEF TheCodec!CodecTypeOK
<1>5. Counts'
  BY DEF TheCodec!CodecTypeOK
<1>6. Flags'
  BY DEF TheCodec!CodecTypeOK
<1>7. History'
  BY DEF TheCodec!CodecTypeOK
<1> QED BY <1>1, <1>2, <1>3, <1>4, <1>5, <1>6, <1>7, Zenon DEF TheCodec!CodecTypeOK

HIDE DEF TheCodec!CodecInv, TheCodec!Statuses, TheCodec!CodecStatuses, TheCodec!Busy

HIDE CodecAssumption
-----------------------------------------------------------------------------
(* The memos.                                                             *)

\* Of the things that are ordered one is the first.
LEMMA FirstOfOrder ==
  ASSUME NEW T, IsFiniteSet(T), T # {}, NEW R,
         \A x, y, z \in T : <<x, y>> \in R /\ <<y, z>> \in R => <<x, z>> \in R,
         \A x \in T : <<x, x>> \notin R,
         \A x, y \in T : x = y \/ <<x, y>> \in R \/ <<y, x>> \in R
  PROVE  \E x \in T : \A y \in T : x = y \/ <<x, y>> \in R
<1> SUFFICES ASSUME ~\E x \in T : \A y \in T : x = y \/ <<x, y>> \in R PROVE FALSE
  OBVIOUS
<1> DEFINE Before(x) == {y \in T : <<y, x>> \in R}
           n == Cardinality(T)
           f == [x \in T |-> Cardinality(Before(x))]
<1>1. n \in Nat /\ n # 0
  BY FS_CardinalityType, FS_EmptySet
<1>2. ASSUME NEW x \in T PROVE Cardinality(Before(x)) \in 1 .. n - 1
  <2>1. Before(x) \in SUBSET T /\ x \notin Before(x) /\ Before(x) # {}
    OBVIOUS
  <2>2. IsFiniteSet(Before(x)) /\ Cardinality(Before(x)) <= n /\ (n = Cardinality(Before(x)) => T = Before(x))
    BY <2>1, FS_Subset
  <2>3. Cardinality(Before(x)) \in Nat /\ Cardinality(Before(x)) # 0
    BY <2>1, <2>2, FS_CardinalityType, FS_EmptySet
  <2> HIDE DEF Before, n
  <2> QED BY <1>1, <2>1, <2>2, <2>3
<1>3. ASSUME NEW x \in T, NEW y \in T, <<x, y>> \in R PROVE Cardinality(Before(x)) # Cardinality(Before(y))
  <2>1. Before(y) \in SUBSET T /\ Before(x) \in SUBSET Before(y) /\ x \in Before(y) /\ x \notin Before(x)
    BY <1>3
  <2>2. IsFiniteSet(Before(y))
    BY <2>1, FS_Subset
  <2>3. Cardinality(Before(y)) = Cardinality(Before(x)) => Before(y) = Before(x)
    BY <2>1, <2>2, FS_Subset
  <2> QED BY <2>1, <2>3
<1>4. IsFiniteSet(1 .. n - 1) /\ Cardinality(1 .. n - 1) < n
  <2>1. 1 \in Int /\ n - 1 \in Int
    BY <1>1
  <2>2. Cardinality(1 .. n - 1) = (IF 1 > n - 1 THEN 0 ELSE n - 1 - 1 + 1) /\ IsFiniteSet(1 .. n - 1)
    BY <2>1, FS_Interval
  <2> HIDE DEF n
  <2> QED BY <1>1, <2>2
<1>5. f \in [T -> 1 .. n - 1]
  BY <1>2
<1> HIDE DEF n
<1>6. PICK x \in T, y \in T : x # y /\ f[x] = f[y]
  <2> HIDE DEF f
  <2>1. Cardinality(1 .. n - 1) < Cardinality(T) /\ IsFiniteSet(T)
    BY <1>4 DEF n
  <2>2. \E x, y \in T : x # y /\ f[x] = f[y]
    BY ONLY <1>4, <1>5, <2>1, FS_PigeonHole
  <2> QED BY <2>2
<1>7. f[x] = Cardinality(Before(x)) /\ f[y] = Cardinality(Before(y))
  OBVIOUS
<1> HIDE DEF f, Before
<1> QED BY <1>3, <1>6, <1>7

\* A service counts its places as everybody does.
LEMMA MemoCounts ==
  ASSUME NEW S PROVE Memos!Cardinality(S) = Cardinality(S)
BY DEF Memos!Cardinality, Cardinality

\* There are places, and finitely many.
LEMMA MemoPlaces ==
  /\ IsFiniteSet(Memos!Places) /\ Memos!Places \subseteq Nat /\ Memos!Places # {} /\ 0 \notin Memos!Places
  /\ \A S \in SUBSET Memos!Places : IsFiniteSet(S) /\ Cardinality(S) \in Nat
<1>1. 1 \in Int /\ MEMO_EVENT_MAX \in Int /\ 1 \in 1 .. MEMO_EVENT_MAX
  BY MemosAssumption
<1>2. IsFiniteSet(Memos!Places)
  BY <1>1, FS_Interval DEF Memos!Places
<1>3. \A S \in SUBSET Memos!Places : IsFiniteSet(S)
  BY <1>2, FS_Subset
<1>4. \A S \in SUBSET Memos!Places : Cardinality(S) \in Nat
  BY <1>3, FS_CardinalityType
<1>5. Memos!Places \subseteq Nat /\ Memos!Places # {} /\ 0 \notin Memos!Places
  BY <1>1 DEF Memos!Places
<1> QED BY <1>2, <1>3, <1>4, <1>5

\* The place for the next memo is one of the places, and if one is free, a
\* free one.
LEMMA MemoIsPlaced ==
  ASSUME s2 \in [Memos!Places -> Memos!Place]
  PROVE  Memos!PlaceForNext \in Memos!Places /\ (Memos!Free # {} => Memos!PlaceForNext \in Memos!Free)
<1>1. CASE Memos!Free # {}
  <2> DEFINE R == {e \in Memos!Free \X Memos!Free : e[1] < e[2]}
  <2>1. Memos!Free \in SUBSET Memos!Places /\ Memos!Free \subseteq Nat
    BY MemoPlaces DEF Memos!Free
  <2>2. \A x, y \in Memos!Free : <<x, y>> \in R <=> x < y
    OBVIOUS
  <2> HIDE DEF R
  <2>3. /\ \A x, y, z \in Memos!Free : <<x, y>> \in R /\ <<y, z>> \in R => <<x, z>> \in R
        /\ \A x \in Memos!Free : <<x, x>> \notin R
        /\ \A x, y \in Memos!Free : x = y \/ <<x, y>> \in R \/ <<y, x>> \in R
    BY <2>1, <2>2
  <2>4. \E x \in Memos!Free : \A y \in Memos!Free : x = y \/ <<x, y>> \in R
    <3>1. IsFiniteSet(Memos!Free)
      BY <2>1, MemoPlaces
    <3> QED BY ONLY <1>1, <2>3, <3>1, FirstOfOrder
  <2>5. \E x \in Memos!Free : \A y \in Memos!Free : x <= y
    <3> PICK x \in Memos!Free : \A y \in Memos!Free : x = y \/ <<x, y>> \in R
      BY <2>4
    <3>1. \A y \in Memos!Free : x = y \/ x < y
      BY <2>2
    <3> QED BY <2>1, <3>1
  <2> QED BY <1>1, <2>1, <2>5 DEF Memos!PlaceForNext
<1>2. CASE Memos!Free = {}
  <2> DEFINE at(x) == s2[x].set_time
             Less(x, y) == at(x) < at(y) \/ (at(x) = at(y) /\ x < y)
             R == {e \in Memos!Places \X Memos!Places : Less(e[1], e[2])}
  <2>1. Memos!Places \subseteq Nat /\ \A x \in Memos!Places : at(x) \in Nat
    BY MemoPlaces, MemosAssumption DEF Memos!Place
  <2>2. \A x, y \in Memos!Places : <<x, y>> \in R <=> Less(x, y)
    OBVIOUS
  <2> HIDE DEF R, at
  <2>3. /\ \A x, y, z \in Memos!Places : <<x, y>> \in R /\ <<y, z>> \in R => <<x, z>> \in R
        /\ \A x \in Memos!Places : <<x, x>> \notin R
        /\ \A x, y \in Memos!Places : x = y \/ <<x, y>> \in R \/ <<y, x>> \in R
    BY <2>1, <2>2
  <2>4. PICK x \in Memos!Places : \A y \in Memos!Places : x = y \/ <<x, y>> \in R
    <3>1. IsFiniteSet(Memos!Places) /\ Memos!Places # {}
      BY MemoPlaces
    <3>2. \E x \in Memos!Places : \A y \in Memos!Places : x = y \/ <<x, y>> \in R
      BY ONLY <2>3, <3>1, FirstOfOrder
    <3> QED BY <3>2
  <2>5. \A y \in Memos!Places : at(x) < at(y) \/ (at(x) = at(y) /\ x <= y)
    <3>1. \A y \in Memos!Places : x = y \/ Less(x, y)
      BY <2>2, <2>4
    <3> QED BY <2>1, <3>1
  <2>6. Memos!Eldest \in Memos!Places
    BY <2>5 DEF Memos!Eldest, at
  <2> QED BY <1>2, <2>6 DEF Memos!PlaceForNext
<1> QED BY <1>1, <1>2

\* Timers that are acquired at once have numbers of their own, greater than
\* those before them.
LEMMA MemoTimersDiffer ==
  ASSUME s7 \in Nat, NEW ps \in SUBSET Memos!Places
  PROVE  /\ \A p \in ps : Memos!Fresh(ps)[p] \in Nat /\ Memos!Fresh(ps)[p] > s7
         /\ \A p, q \in ps : p < q => Memos!Fresh(ps)[p] < Memos!Fresh(ps)[q]
         /\ \A p \in ps, gained \in SUBSET ps :
               {q \in ps : q <= p} \subseteq gained => Memos!Fresh(ps)[p] <= s7 + Cardinality(gained)
<1> DEFINE Upto(p) == {q \in ps : q <= p}
<1>1. \A p \in ps : Memos!Fresh(ps)[p] = s7 + Cardinality(Upto(p))
  BY MemoCounts DEF Memos!Fresh
<1>2. ps \subseteq Nat /\ \A S \in SUBSET ps : IsFiniteSet(S) /\ Cardinality(S) \in Nat
  BY MemoPlaces
<1>3. ASSUME NEW p \in ps PROVE Upto(p) \in SUBSET ps /\ Cardinality(Upto(p)) \in Nat /\ Cardinality(Upto(p)) # 0
  <2>1. p \in Upto(p) /\ Upto(p) \in SUBSET ps
    BY <1>2
  <2> QED BY <1>2, <2>1, FS_EmptySet
<1>4. ASSUME NEW p \in ps, NEW q \in ps, p < q PROVE Cardinality(Upto(p)) < Cardinality(Upto(q))
  <2>1. Upto(p) \in SUBSET Upto(q) /\ q \in Upto(q) /\ q \notin Upto(p)
    <3>1. \A r \in ps : r <= p => r <= q
      BY <1>2, <1>4
    <3>2. q <= q /\ ~(q <= p)
      BY <1>2, <1>4
    <3> QED BY <3>1, <3>2
  <2>2. IsFiniteSet(Upto(q))
    BY <1>2, <1>3
  <2>3. Cardinality(Upto(p)) <= Cardinality(Upto(q)) /\ (Cardinality(Upto(q)) = Cardinality(Upto(p)) => Upto(q) = Upto(p))
    BY <2>1, <2>2, FS_Subset
  <2>4. Cardinality(Upto(p)) \in Nat /\ Cardinality(Upto(q)) \in Nat
    BY <1>3
  <2> HIDE DEF Upto
  <2> QED BY <2>1, <2>3, <2>4
<1>5. ASSUME NEW p \in ps, NEW gained \in SUBSET ps, Upto(p) \subseteq gained PROVE Cardinality(Upto(p)) <= Cardinality(gained)
  BY <1>2, <1>5, FS_Subset
<1> HIDE DEF Upto
<1>6. \A p, q \in ps : p < q => Memos!Fresh(ps)[p] < Memos!Fresh(ps)[q]
  BY <1>1, <1>3, <1>4
<1>7. \A p \in ps : Memos!Fresh(ps)[p] \in Nat /\ Memos!Fresh(ps)[p] > s7
  BY <1>1, <1>3
<1>8. \A p \in ps, gained \in SUBSET ps : Upto(p) \subseteq gained => Memos!Fresh(ps)[p] <= s7 + Cardinality(gained)
  BY <1>1, <1>2, <1>3, <1>5
<1> QED BY <1>6, <1>7, <1>8 DEF Upto

\* No more timers are acquired than there are.
LEMMA MemoTimersSuffice ==
  ASSUME s7 \in Nat, s7 <= MaxTimers, NEW ps \in SUBSET Memos!Places,
         NEW gained \in SUBSET ps, \A p \in gained : Memos!Fresh(ps)[p] <= MaxTimers
  PROVE  Cardinality(gained) \in Nat /\ s7 + Cardinality(gained) <= MaxTimers
<1> DEFINE f == [p \in gained |-> Memos!Fresh(ps)[p]]
           T == s7 + 1 .. MaxTimers
<1>1. /\ \A p \in gained : Memos!Fresh(ps)[p] \in T
      /\ \A p, q \in gained : Memos!Fresh(ps)[p] = Memos!Fresh(ps)[q] => p = q
  <2>1. gained \subseteq Nat
    BY MemoPlaces
  <2>2. \A p \in gained : Memos!Fresh(ps)[p] \in Nat /\ Memos!Fresh(ps)[p] > s7
    BY MemoTimersDiffer
  <2>3. \A p, q \in gained : p < q => Memos!Fresh(ps)[p] < Memos!Fresh(ps)[q]
    BY MemoTimersDiffer
  <2>4. \A p \in gained : Memos!Fresh(ps)[p] \in T
    BY <2>2, MemosAssumption
  <2>5. ASSUME NEW p \in gained, NEW q \in gained, Memos!Fresh(ps)[p] = Memos!Fresh(ps)[q] PROVE p = q
    BY <2>1, <2>2, <2>3, <2>5
  <2> QED BY <2>4, <2>5
<1>2. f \in Injection(gained, T)
  <2>1. f \in [gained -> T]
    BY <1>1
  <2>2. \A p, q \in gained : f[p] = f[q] => p = q
    BY <1>1
  <2> HIDE DEF f, T
  <2> QED BY <2>1, <2>2 DEF Injection, IsInjective
<1>3. IsFiniteSet(T) /\ Cardinality(T) = MaxTimers - s7
  <2>1. s7 + 1 \in Int /\ MaxTimers \in Int
    BY MemosAssumption
  <2>2. IsFiniteSet(T) /\ Cardinality(T) = IF s7 + 1 > MaxTimers THEN 0 ELSE MaxTimers - (s7 + 1) + 1
    BY <2>1, FS_Interval
  <2> HIDE DEF T
  <2> QED BY <2>2, MemosAssumption
<1> HIDE DEF f, T
<1>4. Cardinality(gained) <= Cardinality(T)
  BY <1>2, <1>3, FS_Injection
<1>5. Cardinality(gained) \in Nat
  BY MemoPlaces
<1> QED BY <1>3, <1>4, <1>5, MemosAssumption

\* What start_one_memo leaves of the places and timers when it is called for
\* a set of places.
MemosAreStarted(ps, works, places, runs) ==
  /\ s7' \in 0 .. MaxTimers /\ s7 <= s7'
  /\ s2' \in [Memos!Places -> Memos!Place]
  /\ \A p \in Memos!Places : s2'[p].memo = places[p].memo /\ s2'[p].timer <= s7'
  /\ \A p \in Memos!Places \ ps : s2'[p] = places[p]
  /\ \A p \in ps : s2'[p].timer = places[p].timer \/ (places[p].timer = 0 /\ s7 < s2'[p].timer)
  /\ \A p, q \in ps : s2'[p].timer = s2'[q].timer /\ s2'[p].timer > s7 => p = q
  /\ \A p \in ps : p \in works /\ s2'[p].timer # 0 => s2'[p].is_valid
  /\ \A p \in ps : ~(p \in works /\ s2'[p].timer # 0) => (s2'[p].is_valid <=> places[p].is_valid)
  /\ s6' = runs \cup {[timer |-> s2'[p].timer, place |-> p] : p \in {q \in ps \cap works : s2'[q].timer # 0}}

\* What start_one_memo does to the places it is called for, and to the others.
LEMMA MemosStart ==
  ASSUME s7 \in 0 .. MaxTimers, NEW ps \in SUBSET Memos!Places, NEW works,
         NEW places \in [Memos!Places -> Memos!Place], NEW runs, NEW now \in 1 .. MaxTime,
         \A p \in Memos!Places : places[p].timer <= s7,
         Memos!StartMemos(ps, works, places, runs, now)
  PROVE  MemosAreStarted(ps, works, places, runs)
<1> DEFINE needs == {p \in ps : places[p].timer = Memos!NoTimer}
           gained == {p \in needs : Memos!Fresh(needs)[p] <= MaxTimers}
           Timer(p) == IF p \in gained THEN Memos!Fresh(needs)[p] ELSE places[p].timer
           started == {p \in ps \cap works : Timer(p) # Memos!NoTimer}
<1>1. /\ s7' = s7 + Cardinality(gained)
      /\ s6' = runs \cup {[timer |-> Timer(p), place |-> p] : p \in started}
      /\ s2' = [p \in Memos!Places |->
             IF p \notin ps THEN places[p]
             ELSE IF p \in started
               THEN [places[p] EXCEPT !.timer = Timer(p), !.is_valid = TRUE, !.set_time = now]
             ELSE [places[p] EXCEPT !.timer = Timer(p)]]
  BY MemoCounts DEF Memos!StartMemos
<1>2. needs \in SUBSET Memos!Places /\ needs \subseteq ps /\ gained \in SUBSET needs /\ s7 \in Nat /\ s7 <= MaxTimers
  BY MemosAssumption
<1>3. Cardinality(gained) \in Nat /\ s7 + Cardinality(gained) <= MaxTimers
  BY <1>2, MemoTimersSuffice
<1>4. /\ \A p \in needs : Memos!Fresh(needs)[p] \in Nat /\ Memos!Fresh(needs)[p] > s7
      /\ \A p, q \in needs : p < q => Memos!Fresh(needs)[p] < Memos!Fresh(needs)[q]
  BY <1>2, MemoTimersDiffer
<1>5. ASSUME NEW p \in gained PROVE Memos!Fresh(needs)[p] <= s7 + Cardinality(gained)
  <2>1. {q \in needs : q <= p} \subseteq gained
    <3> SUFFICES ASSUME NEW q \in needs, q <= p PROVE Memos!Fresh(needs)[q] <= MaxTimers
      OBVIOUS
    <3>1. p \in Nat /\ q \in Nat
      BY <1>2, MemoPlaces
    <3>2. CASE q = p
      BY <3>2
    <3>3. CASE q # p
      <4>1. q < p
        BY <3>1, <3>3
      <4>2. Memos!Fresh(needs)[q] < Memos!Fresh(needs)[p] /\ Memos!Fresh(needs)[p] <= MaxTimers
        BY <1>4, <4>1
      <4> QED BY <1>4, <4>2, MemosAssumption
    <3> QED BY <3>2, <3>3
  <2> HIDE DEF needs, gained
  <2> QED BY <1>2, <2>1, MemoTimersDiffer
<1>6. s7' \in 0 .. MaxTimers /\ s7 <= s7'
  <2>1. s7' = s7 + Cardinality(gained)
    BY <1>1
  <2> HIDE DEF gained, needs
  <2> QED BY ONLY <1>2, <1>3, <2>1, MemosAssumption
<1>7. \A p \in Memos!Places : /\ places[p].timer \in 0 .. MaxTimers /\ places[p].timer <= s7
                             /\ places[p].is_valid \in BOOLEAN
                             /\ places[p].set_time \in 0 .. MaxTime /\ places[p].memo \in 0 .. MaxMemos
  BY DEF Memos!Place
<1>8. /\ \A p \in ps : Timer(p) = places[p].timer \/ (places[p].timer = 0 /\ Timer(p) > s7)
      /\ \A p \in ps : Timer(p) \in 0 .. MaxTimers /\ Timer(p) <= s7'
  <2>1. \A p \in gained : Memos!Fresh(needs)[p] \in Nat /\ Memos!Fresh(needs)[p] > s7 /\ places[p].timer = 0
                    /\ Memos!Fresh(needs)[p] <= MaxTimers /\ Memos!Fresh(needs)[p] <= s7'
    BY <1>1, <1>4, <1>5 DEF Memos!NoTimer
  <2> HIDE DEF needs, gained
  <2>2. \A p \in ps : places[p].timer \in 0 .. MaxTimers /\ places[p].timer <= s7'
    BY <1>2, <1>6, <1>7
  <2> QED BY <2>1, <2>2, MemosAssumption
<1>9. \A p, q \in ps : Timer(p) = Timer(q) /\ Timer(p) > s7 => p = q
  <2> SUFFICES ASSUME NEW p \in ps, NEW q \in ps, Timer(p) = Timer(q), Timer(p) > s7 PROVE p = q
    OBVIOUS
  <2>1. p \in gained /\ q \in gained
    BY <1>2, <1>7
  <2>2. p \in needs /\ q \in needs /\ Memos!Fresh(needs)[p] = Memos!Fresh(needs)[q] /\ p \in Nat /\ q \in Nat
    BY <1>2, <2>1, MemoPlaces
  <2> HIDE DEF needs, gained, Timer
  <2> QED BY <1>4, <2>2
<1>10. \A p \in Memos!Places : places[p] \in [timer : 0 .. MaxTimers, is_valid : BOOLEAN, set_time : 0 .. MaxTime, memo : 0 .. MaxMemos]
  BY DEF Memos!Place
<1>11. 1 .. MaxTime \subseteq 0 .. MaxTime /\ TRUE \in BOOLEAN
  BY MemosAssumption
<1> HIDE DEF needs, gained, Timer
<1>12. ASSUME NEW p \in Memos!Places
       PROVE  /\ s2'[p] \in Memos!Place /\ s2'[p].memo = places[p].memo
              /\ p \notin ps => s2'[p] = places[p]
              /\ p \in ps => s2'[p].timer = Timer(p)
              /\ p \in ps /\ p \in started => s2'[p].is_valid
              /\ p \in ps /\ p \notin started => (s2'[p].is_valid <=> places[p].is_valid)
  <2>1. CASE p \notin ps
    BY <1>1, <2>1
  <2>2. CASE p \in ps /\ p \in started
    <3>1. s2'[p] = [places[p] EXCEPT !.timer = Timer(p), !.is_valid = TRUE, !.set_time = now]
      BY <1>1, <2>2
    <3> HIDE DEF started
    <3> QED BY <1>8, <1>10, <1>11, <2>2, <3>1 DEF Memos!Place
  <2>3. CASE p \in ps /\ p \notin started
    <3>1. s2'[p] = [places[p] EXCEPT !.timer = Timer(p)]
      BY <1>1, <2>3
    <3> HIDE DEF started
    <3> QED BY <1>8, <1>10, <2>3, <3>1 DEF Memos!Place
  <2> QED BY <2>1, <2>2, <2>3
<1>13. s2' \in [Memos!Places -> Memos!Place]
  BY <1>1, <1>12
<1>14. \A p \in ps : s2'[p].timer = Timer(p) /\ (p \in started <=> p \in works /\ s2'[p].timer # 0)
  BY <1>12 DEF Memos!NoTimer
<1>15. s6' = runs \cup {[timer |-> s2'[p].timer, place |-> p] : p \in {q \in ps \cap works : s2'[q].timer # 0}}
  <2>1. started = {q \in ps \cap works : s2'[q].timer # 0}
    BY <1>14
  <2>2. started \subseteq ps
    OBVIOUS
  <2> HIDE DEF started
  <2>3. {[timer |-> Timer(p), place |-> p] : p \in started} = {[timer |-> s2'[p].timer, place |-> p] : p \in started}
    BY <1>14, <2>2
  <2> QED BY <1>1, <2>1, <2>3
<1>16. \A p \in Memos!Places : s2'[p].timer <= s7'
  <2>1. \A p \in Memos!Places : p \notin ps => s2'[p].timer <= s7'
    BY <1>6, <1>7, <1>12
  <2> QED BY <1>8, <1>14, <2>1
<1> HIDE DEF started
<1>17. \A p \in ps : p \in works /\ s2'[p].timer # 0 => s2'[p].is_valid
  BY <1>12, <1>14
<1>19. \A p \in ps : ~(p \in works /\ s2'[p].timer # 0) => (s2'[p].is_valid <=> places[p].is_valid)
  BY <1>12, <1>14
<1>18. /\ \A p \in ps : s2'[p].timer = places[p].timer \/ (places[p].timer = 0 /\ s7 < s2'[p].timer)
       /\ \A p, q \in ps : s2'[p].timer = s2'[q].timer /\ s2'[p].timer > s7 => p = q
  BY <1>8, <1>9, <1>14
<1> QED BY ONLY <1>6, <1>12, <1>13, <1>15, <1>16, <1>17, <1>18, <1>19 DEF MemosAreStarted

\* What the places, timers and memos are numbered with.
LEMMA MemoNumbers ==
  ASSUME Memos!MemoIsOrderly
  PROVE  /\ s2 \in [Memos!Places -> Memos!Place] /\ s8 \in [Memos!Places -> Memos!Place]
         /\ \A p \in Memos!Places : /\ s2[p].timer \in 0 .. MaxTimers /\ s2[p].timer <= s7
                                    /\ s2[p].memo \in 0 .. MaxMemos /\ s2[p].memo <= s10
                                    /\ s8[p].memo \in 0 .. MaxMemos /\ s8[p].memo <= s10
         /\ \A t \in s6 : t.timer \in 1 .. MaxTimers /\ t.place \in Memos!Places
                          /\ t = [timer |-> t.timer, place |-> t.place]
         /\ s7 \in 0 .. MaxTimers /\ s10 \in 0 .. MaxMemos
         /\ s3 \in {0} \cup Memos!Places /\ s4 \in -1 .. MaxMemos /\ s4 <= s10
         /\ \A m \in Memos!Memos : m \in Nat /\ m # 0 /\ s12[m] \in Nat
<1>1. s2 \in [Memos!Places -> Memos!Place] /\ s8 \in [Memos!Places -> Memos!Place]
  BY DEF Memos!MemoIsOrderly, Memos!MemoTypeOK
<1>2. \A p \in Memos!Places : s2[p] \in Memos!Place /\ s8[p] \in Memos!Place
  BY <1>1
<1>3. \A p \in Memos!Places : /\ s2[p].timer \in 0 .. MaxTimers /\ s2[p].memo \in 0 .. MaxMemos
                              /\ s8[p].memo \in 0 .. MaxMemos
  BY <1>2 DEF Memos!Place
<1>4. \A p \in Memos!Places : s2[p].timer <= s7 /\ s2[p].memo <= s10 /\ s8[p].memo <= s10
  BY DEF Memos!MemoIsOrderly
<1>5. s6 \subseteq [timer : 1 .. MaxTimers, place : Memos!Places]
  BY DEF Memos!MemoIsOrderly, Memos!MemoTypeOK
<1>6. \A t \in s6 : t.timer \in 1 .. MaxTimers /\ t.place \in Memos!Places /\ t = [timer |-> t.timer, place |-> t.place]
  BY <1>5
<1>7. s7 \in 0 .. MaxTimers /\ s10 \in 0 .. MaxMemos /\ s4 <= s10 /\ s4 \in -1 .. MaxMemos /\ s3 \in {0} \cup Memos!Places
  BY DEF Memos!MemoIsOrderly, Memos!MemoTypeOK, Memos!Quiet, Memos!NoPlace
<1>8. \A m \in Memos!Memos : m \in Nat /\ m # 0 /\ s12[m] \in Nat
  BY DEF Memos!MemoIsOrderly, Memos!MemoTypeOK, Memos!Memos
<1> QED BY <1>1, <1>3, <1>4, <1>6, <1>7, <1>8

\* The service begins with empty places.
LEMMA MemosBegin == Memos!Init => Memos!MemoInv
<1> SUFFICES ASSUME Memos!Init PROVE Memos!MemoInv
  OBVIOUS
<1>1. /\ s1 = "MEMO_IDLE" /\ s2 = [p \in Memos!Places |-> Memos!Empty] /\ s3 = 0 /\ s4 = -1 /\ s5 = {}
      /\ s6 = {} /\ s7 = 0 /\ s8 = s2 /\ s9 = 0 /\ s10 = 0
      /\ s11 = [m \in Memos!Memos |-> "none"] /\ s12 = [m \in Memos!Memos |-> 0]
  BY DEF Memos!Init, Memos!NoPlace, Memos!Quiet
<1>2. s13 \in BOOLEAN /\ ~s13
  BY DEF Memos!Init
<1>3. Memos!Empty \in Memos!Place /\ Memos!Empty.timer = 0 /\ Memos!Empty.memo = 0
  BY MemosAssumption DEF Memos!Empty, Memos!Place, Memos!NoTimer
<1>4. ~Memos!Empty.is_valid
  BY DEF Memos!Empty
<1>5. s2 \in [Memos!Places -> Memos!Place] /\ \A p \in Memos!Places : s2[p] = Memos!Empty
  BY <1>1, <1>3
<1>6. Memos!MemoTypeOK
  BY <1>1, <1>5, MemosAssumption DEF Memos!MemoTypeOK, Memos!NoPlace, Memos!Quiet
<1>7. Memos!MemoIsOrderly
  <2>1. \A p \in Memos!Places : s2[p].timer <= s7 /\ s2[p].memo <= s10 /\ s8[p].memo <= s10
    BY <1>1, <1>3, <1>5
  <2>2. s10 \in 0 .. MaxMemos /\ s9 \in Nat /\ s4 <= s10
    BY <1>1, MemosAssumption
  <2>3. s11 \in [Memos!Memos -> {"none", "kept", "spoken", "silent", "missed", "dropped", "displaced",
                                 "overwritten", "unsaved"}]
        /\ \A m \in Memos!Memos : m > s10 => s12[m] = 0 /\ s11[m] = "none"
    BY <1>1
  <2> QED BY <1>2, <1>6, <2>1, <2>2, <2>3 DEF Memos!MemoIsOrderly
<1>8. Memos!PlacesAreApart /\ Memos!CurrentIsTaken
  BY <1>1, <1>3, <1>5 DEF Memos!PlacesAreApart, Memos!CurrentIsTaken, Memos!NoPlace, Memos!NoTimer,
     Memos!Quiet
<1>9. Memos!KeptIsSomewhere
  BY <1>1 DEF Memos!KeptIsSomewhere
<1>10. Memos!SpokenIsGone
  BY <1>1, <1>4, <1>5 DEF Memos!SpokenIsGone, Memos!InSomePlace
<1> QED BY <1>7, <1>8, <1>9, <1>10 DEF Memos!MemoInv, Memos!PlacesAreTidy

\* The timer's thread takes the next event, or misses it.
LEMMA TimerFires ==
  ASSUME Memos!MemoInv, Memos!MemoEventHandle PROVE Memos!MemoInv'
<1>1. PICK t \in s6 :
        /\ s6' = s6 \ {t}
        /\ IF s3 = 0 THEN s3' = t.place /\ s11' = s11
           ELSE /\ s11' = [m \in Memos!Memos |-> IF m = s2[t.place].memo THEN "missed" ELSE s11[m]]
                /\ s3' = s3
  BY DEF Memos!MemoEventHandle, Memos!NoPlace
<1>2. s4 = -1 /\ UNCHANGED <<s1, s2, s4, s5, s7, s8, s9, s10, s12, s13>>
  BY DEF Memos!MemoEventHandle, Memos!Quiet
<1>3. Memos!MemoIsOrderly /\ (~s13 => Memos!PlacesAreTidy)
  BY DEF Memos!MemoInv
<1> USE MemoNumbers
<1>4. Memos!MemoIsOrderly'
  <2>1. s3' \in {0} \cup Memos!Places /\ s6' \subseteq s6
    BY <1>1, <1>3
  <2>2. Memos!MemoTypeOK'
    BY <1>2, <1>3, <2>1 DEF Memos!MemoIsOrderly, Memos!MemoTypeOK, Memos!NoPlace
  <2>3. s11' \in [Memos!Memos -> {"none", "kept", "spoken", "silent", "missed", "dropped", "displaced",
                                  "overwritten", "unsaved"}]
    BY <1>1, <1>3 DEF Memos!MemoIsOrderly
  <2>4. \A m \in Memos!Memos : m > s10 => s12[m] = 0 /\ s11'[m] = "none"
    <3>1. \A m \in Memos!Memos : m > s10 => m # s2[t.place].memo /\ s12[m] = 0 /\ s11[m] = "none"
      BY <1>3 DEF Memos!MemoIsOrderly
    <3>2. \A m \in Memos!Memos : m # s2[t.place].memo => s11'[m] = s11[m]
      BY <1>1
    <3> QED BY <3>1, <3>2
  <2> QED BY <1>2, <1>3, <2>2, <2>3, <2>4 DEF Memos!MemoIsOrderly
<1>5. ASSUME ~s13 PROVE Memos!PlacesAreTidy'
  <2>1. Memos!PlacesAreApart /\ Memos!CurrentIsTaken /\ Memos!KeptIsSomewhere /\ Memos!SpokenIsGone
    BY <1>3, <1>5 DEF Memos!PlacesAreTidy
  <2>2. Memos!PlacesAreApart' /\ Memos!SpokenIsGone'
    <3>1. s6' \subseteq s6
      BY <1>1
    <3>2. Memos!PlacesAreApart'
      BY <1>2, <2>1, <3>1 DEF Memos!PlacesAreApart
    <3>3. Memos!SpokenIsGone'
      BY <1>2, <2>1 DEF Memos!SpokenIsGone, Memos!InSomePlace
    <3> QED BY <3>2, <3>3
  <2>3. \A u \in s6' : u \in s6 /\ u.place # t.place
    <3> SUFFICES ASSUME NEW u \in s6, u.place = t.place PROVE u = t
      BY <1>1
    <3>1. u.timer = t.timer
      BY <2>1 DEF Memos!PlacesAreApart
    <3> QED BY <1>3, <3>1
  <2>4. t.place \in Memos!Places /\ t.place # 0 /\ s2[t.place].is_valid /\ s2[t.place].timer # 0
    <3>1. t.place \in Memos!Places /\ t.timer # 0
      BY <1>3
    <3>2. s2[t.place].is_valid /\ s2[t.place].timer = t.timer
      BY <2>1 DEF Memos!PlacesAreApart
    <3> QED BY <3>1, <3>2, MemoPlaces
  <2>5. Memos!CurrentIsTaken'
    <3>1. CASE s3 = 0
      BY <1>1, <1>2, <2>3, <2>4, <3>1 DEF Memos!CurrentIsTaken, Memos!NoPlace, Memos!NoTimer,
         Memos!Quiet
    <3>2. CASE s3 # 0
      BY <1>1, <1>2, <2>1, <3>2 DEF Memos!CurrentIsTaken, Memos!NoPlace, Memos!NoTimer, Memos!Quiet
    <3> QED BY <3>1, <3>2
  <2>6. ASSUME NEW m \in Memos!Memos, s11'[m] = "kept"
        PROVE  /\ \A p \in Memos!Places : s2[p].memo = m => s2[p].is_valid /\ Memos!Waits(p)'
               /\ \/ \E p \in Memos!Places : s2[p].memo = m
                  \/ s1 # "MEMO_LOOP" /\ \E p \in Memos!Places : Memos!InSomePlace(s8, p, m)
    <3>1. s11[m] = "kept" /\ (s3 # 0 => m # s2[t.place].memo)
      BY <1>1, <2>6
    <3>2. /\ \A p \in Memos!Places : s2[p].memo = m => s2[p].is_valid /\ Memos!Waits(p)
          /\ \/ \E p \in Memos!Places : s2[p].memo = m
             \/ s1 # "MEMO_LOOP" /\ \E p \in Memos!Places : Memos!InSomePlace(s8, p, m)
      BY <2>1, <3>1 DEF Memos!KeptIsSomewhere
    <3>3. ASSUME NEW p \in Memos!Places, s2[p].memo = m PROVE Memos!Waits(p)'
      <4>1. s3 = p \/ \E u \in s6 : u.place = p
        BY <3>2, <3>3 DEF Memos!Waits
      <4>2. s3 = 0 => s3' = p \/ \E u \in s6' : u.place = p
        BY <1>1, <4>1, MemoPlaces
      <4>3. s3 # 0 => s3' = p \/ \E u \in s6' : u.place = p
        BY <1>1, <3>1, <3>3, <4>1
      <4> QED BY <4>2, <4>3 DEF Memos!Waits
    <3> QED BY <3>2, <3>3
  <2>7. Memos!KeptIsSomewhere'
    BY <1>2, <2>6 DEF Memos!KeptIsSomewhere, Memos!InSomePlace
  <2> QED BY <2>2, <2>5, <2>7 DEF Memos!PlacesAreTidy
<1> QED BY <1>2, <1>4, <1>5 DEF Memos!MemoInv

\* The service's thread begins, and takes the current event.
LEMMA ServiceGoesOn ==
  ASSUME Memos!MemoInv, Memos!BeginInit \/ Memos!ProcessBegins PROVE Memos!MemoInv'
<1>1. CASE Memos!BeginInit
  <2>1. s1 = "MEMO_IDLE" /\ s1' = "MEMO_INIT" /\ UNCHANGED <<s2, s3, s4, s5, s6, s7, s8, s9, s10, s11, s12, s13>>
    BY <1>1 DEF Memos!BeginInit, Memos!clock, Memos!history
  <2>2. Memos!MemoIsOrderly'
    BY <2>1 DEF Memos!MemoInv, Memos!MemoIsOrderly, Memos!MemoTypeOK
  <2>3. ASSUME Memos!PlacesAreTidy PROVE Memos!PlacesAreTidy'
    <3>1. Memos!PlacesAreApart' /\ Memos!CurrentIsTaken'
      BY <2>1, <2>3 DEF Memos!PlacesAreTidy, Memos!PlacesAreApart, Memos!CurrentIsTaken
    <3>2. Memos!KeptIsSomewhere' /\ Memos!SpokenIsGone'
      BY <2>1, <2>3 DEF Memos!PlacesAreTidy, Memos!KeptIsSomewhere, Memos!SpokenIsGone, Memos!Waits,
         Memos!InSomePlace
    <3> QED BY <3>1, <3>2 DEF Memos!PlacesAreTidy
  <2> QED BY <2>1, <2>2, <2>3 DEF Memos!MemoInv
<1>2. CASE Memos!ProcessBegins
  <2>1. /\ s1 = "MEMO_LOOP" /\ s3 # 0 /\ s4' = s2[s3].memo
        /\ UNCHANGED <<s1, s2, s3, s5, s6, s7, s8, s9, s10, s11, s12, s13>>
    BY <1>2 DEF Memos!ProcessBegins, Memos!clock, Memos!history, Memos!NoPlace
  <2>2. s4' \in -1 .. MaxMemos /\ s4' <= s10
    <3>1. s3 \in Memos!Places
      BY <2>1, MemoNumbers DEF Memos!MemoInv
    <3> QED BY <2>1, <3>1, MemoNumbers, MemosAssumption DEF Memos!MemoInv
  <2>3. Memos!MemoIsOrderly'
    BY <2>1, <2>2 DEF Memos!MemoInv, Memos!MemoIsOrderly, Memos!MemoTypeOK, Memos!Quiet
  <2>4. ASSUME Memos!PlacesAreTidy PROVE Memos!PlacesAreTidy'
    <3>1. Memos!PlacesAreApart' /\ Memos!CurrentIsTaken'
      BY <2>1, <2>4 DEF Memos!PlacesAreTidy, Memos!PlacesAreApart, Memos!CurrentIsTaken, Memos!NoPlace
    <3>2. Memos!KeptIsSomewhere' /\ Memos!SpokenIsGone'
      BY <2>1, <2>4 DEF Memos!PlacesAreTidy, Memos!KeptIsSomewhere, Memos!SpokenIsGone, Memos!Waits,
         Memos!InSomePlace
    <3> QED BY <3>1, <3>2 DEF Memos!PlacesAreTidy
  <2> QED BY <2>1, <2>3, <2>4 DEF Memos!MemoInv
<1> QED BY <1>1, <1>2

\* The current event is spoken, or not, and its place becomes free.
LEMMA MemoIsSpoken ==
  ASSUME Memos!MemoInv, Memos!ProcessEnds PROVE Memos!MemoInv'
<1> DEFINE same == {p \in Memos!Places : s2[p].timer = s2[s3].timer}
           first == CHOOSE p \in same : \A q \in same : p <= q
<1>1. /\ s4 # -1 /\ s4' = -1 /\ s3' = 0 /\ s5' = s5 \cup {"service"}
      /\ s2' = [s2 EXCEPT ![first].is_valid = FALSE]
      /\ UNCHANGED <<s1, s6, s7, s8, s9, s10, s13>>
  BY DEF Memos!ProcessEnds, Memos!clock, Memos!Quiet, Memos!NoPlace
<1>2. PICK told \in BOOLEAN :
        /\ s12' = [m \in Memos!Memos |-> IF told /\ m = s4 THEN s12[m] + 1 ELSE s12[m]]
        /\ s11' = [m \in Memos!Memos |-> IF m = s4 /\ s11[m] = "kept" THEN IF told THEN "spoken" ELSE "silent"
                                         ELSE s11[m]]
  BY DEF Memos!ProcessEnds, Memos!Spoken
<1>3. Memos!MemoIsOrderly /\ (~s13 => Memos!PlacesAreTidy)
  BY DEF Memos!MemoInv
<1> HIDE DEF first
<1>4. s2' \in [Memos!Places -> Memos!Place]
      /\ \A p \in Memos!Places : /\ s2'[p].timer = s2[p].timer /\ s2'[p].memo = s2[p].memo
                                 /\ p # first => s2'[p] = s2[p]
  <2>1. s2 \in [Memos!Places -> Memos!Place]
    BY <1>3, MemoNumbers
  <2>2. FALSE \in BOOLEAN
    OBVIOUS
  <2> QED BY <1>1, <2>1, <2>2 DEF Memos!Place
<1>5. Memos!MemoIsOrderly'
  <2>1. s12' \in [Memos!Memos -> Nat]
    BY <1>2, <1>3, MemoNumbers
  <2>2. s5' \subseteq {"service", "asr"} /\ s4' \in -1 .. MaxMemos /\ s4' <= s10 /\ s3' \in {0} \cup Memos!Places
    <3>1. s5' \subseteq {"service", "asr"}
      BY <1>1, <1>3 DEF Memos!MemoIsOrderly, Memos!MemoTypeOK
    <3>2. s10 \in Nat
      BY <1>3, MemoNumbers, MemosAssumption
    <3> QED BY <1>1, <3>1, <3>2, MemosAssumption
  <2>3. Memos!MemoTypeOK'
    BY <1>1, <1>3, <1>4, <2>1, <2>2 DEF Memos!MemoIsOrderly, Memos!MemoTypeOK, Memos!Quiet,
       Memos!NoPlace
  <2>4. s11' \in [Memos!Memos -> {"none", "kept", "spoken", "silent", "missed", "dropped", "displaced",
                                  "overwritten", "unsaved"}]
    BY <1>2, <1>3 DEF Memos!MemoIsOrderly
  <2>5. \A m \in Memos!Memos : m > s10 => s12'[m] = 0 /\ s11'[m] = "none"
    <3>1. \A m \in Memos!Memos : m > s10 => m # s4 /\ s12[m] = 0 /\ s11[m] = "none"
      BY <1>3, MemoNumbers DEF Memos!MemoIsOrderly
    <3> QED BY <1>2, <3>1
  <2>6. \A p \in Memos!Places : s2'[p].timer <= s7 /\ s2'[p].memo <= s10 /\ s8[p].memo <= s10
    BY <1>3, <1>4 DEF Memos!MemoIsOrderly
  <2> QED BY <1>1, <1>3, <2>2, <2>3, <2>4, <2>5, <2>6 DEF Memos!MemoIsOrderly
<1>6. ASSUME ~s13 PROVE Memos!PlacesAreTidy'
  <2>1. Memos!PlacesAreApart /\ Memos!CurrentIsTaken /\ Memos!KeptIsSomewhere /\ Memos!SpokenIsGone
    BY <1>3, <1>6 DEF Memos!PlacesAreTidy
  <2>2. /\ s1 = "MEMO_LOOP" /\ s3 # 0 /\ s4 = s2[s3].memo /\ s2[s3].is_valid /\ s2[s3].timer # 0
        /\ \A t \in s6 : t.place # s3
    BY <1>1, <2>1 DEF Memos!CurrentIsTaken, Memos!Quiet, Memos!NoPlace, Memos!NoTimer
  <2>3. s3 \in Memos!Places /\ s4 \in 0 .. MaxMemos
    BY <1>3, <2>2, MemoNumbers
  <2>4. first = s3
    <3>1. same = {s3}
      BY <2>1, <2>2, <2>3 DEF Memos!PlacesAreApart, Memos!NoTimer
    <3>2. s3 <= s3
      BY <2>3, MemoPlaces
    <3> QED BY <3>1, <3>2 DEF first
  <2>5. ~s2'[s3].is_valid
    <3>1. s2 \in [Memos!Places -> Memos!Place]
      BY <1>3, MemoNumbers
    <3> QED BY <1>1, <2>3, <2>4, <3>1 DEF Memos!Place
  <2>6. Memos!PlacesAreApart'
    <3>1. \A t \in s6 : t.place \in Memos!Places /\ s2'[t.place] = s2[t.place]
      BY <1>3, <1>4, <2>2, <2>4, MemoNumbers
    <3>2. \A t \in s6 : s2'[t.place].is_valid /\ s2'[t.place].timer = t.timer
      BY <2>1, <3>1 DEF Memos!PlacesAreApart
    <3> QED BY <1>1, <1>4, <2>1, <3>2 DEF Memos!PlacesAreApart
  <2>7. Memos!CurrentIsTaken'
    BY <1>1 DEF Memos!CurrentIsTaken, Memos!NoPlace, Memos!Quiet
  <2>8. \A p \in Memos!Places : s2[p].memo = s4 /\ s4 # 0 => p = s3
    BY <2>1, <2>2, <2>3 DEF Memos!PlacesAreApart
  <2>9. Memos!KeptIsSomewhere'
    <3> SUFFICES ASSUME NEW m \in Memos!Memos, s11'[m] = "kept"
                 PROVE  /\ \A p \in Memos!Places : s2'[p].memo = m => s2'[p].is_valid /\ Memos!Waits(p)'
                        /\ \E p \in Memos!Places : s2'[p].memo = m
      BY DEF Memos!KeptIsSomewhere
    <3>1. s11[m] = "kept" /\ m # s4
      BY <1>2
    <3>2. /\ \A p \in Memos!Places : s2[p].memo = m => s2[p].is_valid /\ Memos!Waits(p)
          /\ \E p \in Memos!Places : s2[p].memo = m
      BY <2>1, <2>2, <3>1 DEF Memos!KeptIsSomewhere
    <3>3. ASSUME NEW p \in Memos!Places, s2'[p].memo = m PROVE s2'[p].is_valid /\ Memos!Waits(p)'
      <4>1. p # s3 /\ s2'[p] = s2[p]
        BY <1>4, <2>2, <2>4, <3>1, <3>3
      <4>2. s2[p].is_valid /\ Memos!Waits(p)
        BY <3>2, <3>3, <4>1
      <4>3. \E t \in s6 : t.place = p
        BY <4>1, <4>2 DEF Memos!Waits
      <4> QED BY <1>1, <4>1, <4>2, <4>3 DEF Memos!Waits
    <3> QED BY <1>4, <3>2, <3>3
  <2>10. Memos!SpokenIsGone'
    <3>1. ASSUME NEW m \in Memos!Memos PROVE s12'[m] <= 1
      <4>1. s12[m] \in Nat /\ s12[m] <= 1
        BY <1>3, <2>1, MemoNumbers DEF Memos!SpokenIsGone
      <4>2. m = s4 => s12[m] = 0
        BY <2>1, <2>2, <2>3 DEF Memos!SpokenIsGone, Memos!InSomePlace
      <4>3. s12'[m] = s12[m] \/ (m = s4 /\ s12'[m] = s12[m] + 1)
        BY <1>2
      <4> QED BY <4>1, <4>2, <4>3
    <3>2. ASSUME NEW p \in Memos!Places, NEW m \in Memos!Memos, s2'[p].memo = m, s2'[p].is_valid PROVE s12'[m] = 0
      <4>1. p # s3 /\ s2'[p] = s2[p]
        BY <1>4, <2>4, <2>5, <3>2
      <4>2. m # s4
        BY <1>3, <2>8, <3>2, <4>1, MemoNumbers
      <4>3. s12[m] = 0
        BY <2>1, <3>2, <4>1 DEF Memos!SpokenIsGone, Memos!InSomePlace
      <4> QED BY <1>2, <4>2, <4>3
    <3> QED BY <1>1, <2>2, <3>1, <3>2 DEF Memos!SpokenIsGone, Memos!InSomePlace
  <2> QED BY <2>6, <2>7, <2>9, <2>10 DEF Memos!PlacesAreTidy
<1> QED BY <1>1, <1>5, <1>6 DEF Memos!MemoInv

\* init_memo loads the places of the flash.
LEMMA PlacesAreLoaded ==
  ASSUME Memos!MemoInv, Memos!InitMemo PROVE Memos!MemoInv'
<1>1. s1 = "MEMO_INIT" /\ UNCHANGED <<s3, s4, s5, s9, s10>>
  BY DEF Memos!InitMemo
<1>2. Memos!MemoIsOrderly /\ (~s13 => Memos!PlacesAreTidy)
  BY DEF Memos!MemoInv
<1>3. CASE s1' = "MEMO_IDLE" /\ UNCHANGED <<s2, s6, s7, s8, s11, s12, s13>>
  <2>1. Memos!MemoIsOrderly'
    BY <1>1, <1>2, <1>3 DEF Memos!MemoIsOrderly, Memos!MemoTypeOK
  <2>2. ASSUME Memos!PlacesAreTidy PROVE Memos!PlacesAreTidy'
    <3>1. Memos!PlacesAreApart' /\ Memos!CurrentIsTaken'
      BY <1>1, <1>3, <2>2 DEF Memos!PlacesAreTidy, Memos!PlacesAreApart, Memos!CurrentIsTaken
    <3>2. Memos!KeptIsSomewhere' /\ Memos!SpokenIsGone'
      BY <1>1, <1>3, <2>2 DEF Memos!PlacesAreTidy, Memos!KeptIsSomewhere, Memos!SpokenIsGone,
         Memos!Waits, Memos!InSomePlace
    <3> QED BY <3>1, <3>2 DEF Memos!PlacesAreTidy
  <2> QED BY <1>2, <1>3, <2>1, <2>2 DEF Memos!MemoInv
<1>4. ASSUME NEW past \in SUBSET Memos!Places, NEW works \in SUBSET Memos!Places, NEW now \in 1 .. MaxTime,
             LET old == {p \in Memos!Places : Memos!Restorable(p, past)}
                 places == [p \in Memos!Places |->
                               IF p \in old THEN [s8[p] EXCEPT !.timer = Memos!NoTimer, !.is_valid = FALSE]
                               ELSE Memos!Empty]
             IN /\ Memos!StartMemos(old, works, places, s6, now)
                /\ s8' = s2'
                /\ s11' = [m \in Memos!Memos |->
                      IF s11[m] = "kept" /\ ~\E p \in old \cap works : s2'[p].memo = m /\ s2'[p].is_valid
                        THEN "dropped" ELSE s11[m]]
                /\ s13' = (s13 \/ s6 # {} \/ s3 # Memos!NoPlace)
                /\ s1' \in {"MEMO_IDLE", "MEMO_LOOP"} /\ UNCHANGED s12
      PROVE  Memos!MemoInv'
  <2> DEFINE old == {p \in Memos!Places : Memos!Restorable(p, past)}
             places == [p \in Memos!Places |->
                               IF p \in old THEN [s8[p] EXCEPT !.timer = Memos!NoTimer, !.is_valid = FALSE]
                               ELSE Memos!Empty]
  <2>1. /\ Memos!StartMemos(old, works, places, s6, now)
        /\ s8' = s2' /\ s12' = s12 /\ s1' \in {"MEMO_IDLE", "MEMO_LOOP"}
        /\ s11' = [m \in Memos!Memos |->
              IF s11[m] = "kept" /\ ~\E p \in old \cap works : s2'[p].memo = m /\ s2'[p].is_valid
                THEN "dropped" ELSE s11[m]]
    BY <1>4
  <2>2. s13' \in BOOLEAN /\ (~s13' => ~s13 /\ s6 = {} /\ s3 = 0)
    BY <1>2, <1>4 DEF Memos!MemoIsOrderly, Memos!NoPlace
  <2>3. Memos!Empty \in Memos!Place /\ Memos!Empty.timer = 0 /\ Memos!Empty.memo = 0
    BY MemosAssumption DEF Memos!Empty, Memos!Place, Memos!NoTimer
  <2>4. ~Memos!Empty.is_valid
    BY DEF Memos!Empty
  <2>5. old \in SUBSET Memos!Places /\ \A p \in old : s8[p].is_valid
    BY DEF Memos!Restorable
  <2> HIDE DEF old
  <2>6. /\ places \in [Memos!Places -> Memos!Place]
        /\ \A p \in Memos!Places : /\ places[p].timer = 0
                                   /\ p \in old => places[p].memo = s8[p].memo
                                   /\ p \notin old => places[p].memo = 0
    <3>1. 0 \in 0 .. MaxTimers /\ FALSE \in BOOLEAN
      BY MemosAssumption
    <3>2. s8 \in [Memos!Places -> Memos!Place]
      BY <1>2, MemoNumbers
    <3> QED BY <2>3, <3>1, <3>2 DEF Memos!Place, Memos!NoTimer
  <2>7. \A p \in Memos!Places : ~places[p].is_valid
    <3>1. s8 \in [Memos!Places -> Memos!Place]
      BY <1>2, MemoNumbers
    <3> QED BY <2>4, <3>1 DEF Memos!Place
  <2> HIDE DEF places
  <2>8. s7 \in 0 .. MaxTimers /\ \A p \in Memos!Places : places[p].timer <= s7
    BY <1>2, <2>6, MemoNumbers, MemosAssumption
  <2>8a. MemosAreStarted(old, works, places, s6)
    <3>1. Memos!StartMemos(old, works, places, s6, now) /\ now \in 1 .. MaxTime
      BY <2>1
    <3> QED BY ONLY <2>5, <2>6, <2>8, <3>1, MemosStart
  <2>9. /\ s7' \in 0 .. MaxTimers /\ s7 <= s7'
        /\ s2' \in [Memos!Places -> Memos!Place]
        /\ \A p \in Memos!Places : s2'[p].memo = places[p].memo /\ s2'[p].timer <= s7'
        /\ \A p \in Memos!Places \ old : s2'[p] = places[p]
        /\ \A p \in old : s2'[p].timer = places[p].timer \/ (places[p].timer = 0 /\ s7 < s2'[p].timer)
        /\ \A p, q \in old : s2'[p].timer = s2'[q].timer /\ s2'[p].timer > s7 => p = q
        /\ s6' = s6 \cup {[timer |-> s2'[p].timer, place |-> p] : p \in {q \in old \cap works : s2'[q].timer # 0}}
    BY ONLY <2>8a DEF MemosAreStarted
  <2>9a. \A p \in old : p \in works /\ s2'[p].timer # 0 => s2'[p].is_valid
    BY ONLY <2>8a, Zenon DEF MemosAreStarted
  <2>9b. \A p \in old : ~(p \in works /\ s2'[p].timer # 0) => (s2'[p].is_valid <=> places[p].is_valid)
    BY ONLY <2>8a, Zenon DEF MemosAreStarted
  <2> DEFINE begun == {q \in old \cap works : s2'[q].timer # 0}
  <2>10. \A p \in Memos!Places : s2'[p].timer \in 0 .. MaxTimers /\ s2'[p].memo \in 0 .. MaxMemos
    BY <2>9 DEF Memos!Place
  <2>11. /\ \A t \in s6' : t \in s6 \/ (t.place \in begun /\ t.timer = s2'[t.place].timer
                                       /\ t = [timer |-> s2'[t.place].timer, place |-> t.place])
         /\ \A p \in begun : [timer |-> s2'[p].timer, place |-> p] \in s6'
    BY <2>9
  <2>12. \A p \in Memos!Places : s2'[p].is_valid => p \in begun
    <3>1. \A p \in Memos!Places \ old : ~s2'[p].is_valid
      BY <2>7, <2>9
    <3>2. \A p \in old : s2'[p].is_valid => p \in works /\ s2'[p].timer # 0
      BY <2>5, <2>7, <2>9b
    <3> QED BY <3>1, <3>2
  <2>13. begun \subseteq old /\ \A p \in begun : p \in works /\ s2'[p].timer # 0
    OBVIOUS
  <2> HIDE DEF begun
  <2>14. Memos!MemoIsOrderly'
    <3>1. s6' \subseteq [timer : 1 .. MaxTimers, place : Memos!Places]
      <4> SUFFICES ASSUME NEW t \in s6' PROVE t \in [timer : 1 .. MaxTimers, place : Memos!Places]
        OBVIOUS
      <4>1. CASE t \in s6
        BY <1>2, <4>1 DEF Memos!MemoIsOrderly, Memos!MemoTypeOK
      <4>2. CASE t \notin s6
        <5>1. t.place \in begun /\ t = [timer |-> s2'[t.place].timer, place |-> t.place]
          BY <2>11, <4>2
        <5>2. t.place \in Memos!Places /\ s2'[t.place].timer # 0
          BY <2>5, <2>13, <5>1
        <5>3. s2'[t.place].timer \in 1 .. MaxTimers
          BY <2>10, <5>2, MemosAssumption
        <5> QED BY <5>1, <5>2, <5>3
      <4> QED BY <4>1, <4>2
    <3>2. Memos!MemoTypeOK'
      BY <1>1, <1>2, <2>1, <2>9, <3>1 DEF Memos!MemoIsOrderly, Memos!MemoTypeOK
    <3>3. s11' \in [Memos!Memos -> {"none", "kept", "spoken", "silent", "missed", "dropped", "displaced",
                                    "overwritten", "unsaved"}]
          /\ \A m \in Memos!Memos : m > s10 => s12[m] = 0 /\ s11'[m] = "none"
      BY <1>2, <2>1 DEF Memos!MemoIsOrderly
    <3>4. \A p \in Memos!Places : s2'[p].memo <= s10
      <4>1. \A p \in Memos!Places : s8[p].memo <= s10 /\ s10 \in Nat
        BY <1>2, MemoNumbers, MemosAssumption
      <4> QED BY <2>6, <2>9, <4>1
    <3> QED BY <1>1, <1>2, <2>1, <2>2, <2>9, <3>2, <3>3, <3>4 DEF Memos!MemoIsOrderly
  <2>15. ASSUME ~s13' PROVE Memos!PlacesAreTidy'
    <3>1. s6 = {} /\ s3 = 0 /\ Memos!PlacesAreApart /\ Memos!CurrentIsTaken /\ Memos!SpokenIsGone
      BY <1>2, <2>2, <2>15 DEF Memos!PlacesAreTidy
    <3>2. Memos!CurrentIsTaken'
      BY <1>1, <3>1 DEF Memos!CurrentIsTaken, Memos!NoPlace
    <3>3. \A p, q \in Memos!Places : s2'[p].memo = s2'[q].memo /\ s2'[p].memo # 0 => p = q
      <4>1. \A p \in Memos!Places : s2'[p].memo # 0 => p \in old /\ s2'[p].memo = s8[p].memo
        BY <2>6, <2>9
      <4> QED BY <3>1, <4>1 DEF Memos!PlacesAreApart
    <3>4. \A p, q \in Memos!Places : s2'[p].timer = s2'[q].timer /\ s2'[p].timer # 0 => p = q
      <4>1. \A p \in Memos!Places : s2'[p].timer # 0 => p \in old /\ s2'[p].timer > s7
        BY <2>6, <2>8, <2>9, <2>10
      <4> QED BY <2>9, <4>1
    <3>5. \A t \in s6' : t.place \in begun /\ t.timer = s2'[t.place].timer
      BY <2>11, <3>1
    <3>6. \A t \in s6' : s2'[t.place].is_valid
      <4>1. \A p \in begun : s2'[p].is_valid
        BY <2>9a, <2>13
      <4> QED BY <3>5, <4>1
    <3>7. Memos!PlacesAreApart'
      BY <2>1, <3>3, <3>4, <3>5, <3>6 DEF Memos!PlacesAreApart, Memos!NoTimer
    <3>8. Memos!KeptIsSomewhere'
      <4> SUFFICES ASSUME NEW m \in Memos!Memos, s11'[m] = "kept"
                   PROVE  /\ \A p \in Memos!Places : s2'[p].memo = m => s2'[p].is_valid /\ Memos!Waits(p)'
                          /\ \E p \in Memos!Places : s2'[p].memo = m
        BY DEF Memos!KeptIsSomewhere
      <4>1. PICK q \in old \cap works : s2'[q].memo = m /\ s2'[q].is_valid
        BY <2>1
      <4>2. \A p \in Memos!Places : s2'[p].memo = m => p = q
        BY <1>2, <2>5, <3>3, <4>1, MemoNumbers
      <4>3. q \in begun
        BY <2>5, <2>12, <4>1
      <4>4. Memos!Waits(q)'
        <5>1. [timer |-> s2'[q].timer, place |-> q] \in s6'
          BY <2>11, <4>3
        <5> QED BY <5>1 DEF Memos!Waits
      <4> QED BY <2>5, <4>1, <4>2, <4>4
    <3>9. Memos!SpokenIsGone'
      <4>1. ASSUME NEW p \in Memos!Places, NEW m \in Memos!Memos, s2'[p].memo = m, s2'[p].is_valid PROVE s12[m] = 0
        <5>1. p \in old /\ s8[p].memo = m
          BY <2>6, <2>9, <2>12, <2>13, <4>1
        <5> QED BY <1>1, <2>5, <3>1, <5>1 DEF Memos!SpokenIsGone, Memos!InSomePlace
      <4> QED BY <2>1, <3>1, <4>1 DEF Memos!SpokenIsGone, Memos!InSomePlace
    <3> QED BY <3>2, <3>7, <3>8, <3>9 DEF Memos!PlacesAreTidy
  <2> QED BY <2>14, <2>15 DEF Memos!MemoInv
<1>5. (s1' = "MEMO_IDLE" /\ UNCHANGED <<s2, s6, s7, s8, s11, s12, s13>>)
      \/ \E past \in SUBSET Memos!Places, works \in SUBSET Memos!Places, now \in 1 .. MaxTime :
             LET old == {p \in Memos!Places : Memos!Restorable(p, past)}
                 places == [p \in Memos!Places |->
                               IF p \in old THEN [s8[p] EXCEPT !.timer = Memos!NoTimer, !.is_valid = FALSE]
                               ELSE Memos!Empty]
             IN /\ Memos!StartMemos(old, works, places, s6, now)
                /\ s8' = s2'
                /\ s11' = [m \in Memos!Memos |->
                      IF s11[m] = "kept" /\ ~\E p \in old \cap works : s2'[p].memo = m /\ s2'[p].is_valid
                        THEN "dropped" ELSE s11[m]]
                /\ s13' = (s13 \/ s6 # {} \/ s3 # Memos!NoPlace)
                /\ s1' \in {"MEMO_IDLE", "MEMO_LOOP"} /\ UNCHANGED s12
  BY DEF Memos!InitMemo, Memos!clock, Memos!history
<1> QED BY <1>3, <1>4, <1>5

\* The power goes.
LEMMA PowerGoes ==
  ASSUME Memos!MemoInv, Memos!Restart PROVE Memos!MemoInv'
<1>1. /\ s9' = s9 + 1 /\ s1' = "MEMO_IDLE" /\ s2' = [p \in Memos!Places |-> Memos!Empty]
      /\ s3' = 0 /\ s4' = -1 /\ s5' = {} /\ s6' = {} /\ s7' = 0 /\ UNCHANGED <<s8, s10, s12>>
      /\ s11' = [m \in Memos!Memos |->
            IF s11[m] = "kept" /\ ~\E p \in Memos!Places : s8[p].memo = m /\ s8[p].is_valid
              THEN "unsaved" ELSE s11[m]]
  BY DEF Memos!Restart, Memos!NoPlace, Memos!Quiet
<1>2. Memos!MemoIsOrderly /\ (~s13 => Memos!PlacesAreTidy)
  BY DEF Memos!MemoInv
<1>3. s13' \in BOOLEAN
      /\ (~s13' => ~s13 /\ \A p \in Memos!Places, m \in Memos!Memos : s8[p].is_valid /\ s8[p].memo = m => ~(s12[m] > 0))
  BY <1>2 DEF Memos!Restart, Memos!MemoIsOrderly
<1>4. Memos!Empty \in Memos!Place /\ Memos!Empty.timer = 0 /\ Memos!Empty.memo = 0
  BY MemosAssumption DEF Memos!Empty, Memos!Place, Memos!NoTimer
<1>5. ~Memos!Empty.is_valid
  BY DEF Memos!Empty
<1>6. s2' \in [Memos!Places -> Memos!Place] /\ \A p \in Memos!Places : s2'[p] = Memos!Empty
  BY <1>1, <1>4
<1>7. Memos!MemoIsOrderly'
  <2>1. Memos!MemoTypeOK'
    BY <1>1, <1>2, <1>6, MemosAssumption DEF Memos!MemoIsOrderly, Memos!MemoTypeOK, Memos!NoPlace,
       Memos!Quiet
  <2>2. s10 \in 0 .. MaxMemos /\ s9' \in Nat /\ s4' <= s10
    <3>1. s10 \in 0 .. MaxMemos /\ s9 \in Nat
      BY <1>2 DEF Memos!MemoIsOrderly
    <3> QED BY <1>1, <3>1, MemosAssumption
  <2>3. \A p \in Memos!Places : s2'[p].timer <= s7' /\ s2'[p].memo <= s10 /\ s8[p].memo <= s10
    BY <1>1, <1>2, <1>4, <1>6, <2>2, MemosAssumption DEF Memos!MemoIsOrderly
  <2>4. s11' \in [Memos!Memos -> {"none", "kept", "spoken", "silent", "missed", "dropped", "displaced",
                                  "overwritten", "unsaved"}]
        /\ \A m \in Memos!Memos : m > s10 => s12[m] = 0 /\ s11'[m] = "none"
    BY <1>1, <1>2 DEF Memos!MemoIsOrderly
  <2> QED BY <1>1, <1>3, <2>1, <2>2, <2>3, <2>4 DEF Memos!MemoIsOrderly
<1>8. ASSUME ~s13' PROVE Memos!PlacesAreTidy'
  <2>1. Memos!PlacesAreApart /\ Memos!SpokenIsGone
    BY <1>2, <1>3, <1>8 DEF Memos!PlacesAreTidy
  <2>2. Memos!PlacesAreApart' /\ Memos!CurrentIsTaken'
    BY <1>1, <1>4, <1>6, <2>1 DEF Memos!PlacesAreApart, Memos!CurrentIsTaken, Memos!NoPlace,
       Memos!NoTimer, Memos!Quiet
  <2>3. Memos!KeptIsSomewhere'
    <3> SUFFICES ASSUME NEW m \in Memos!Memos, s11'[m] = "kept"
                 PROVE  /\ \A p \in Memos!Places : s2'[p].memo # m
                        /\ \E p \in Memos!Places : s8[p].memo = m /\ s8[p].is_valid
      BY <1>1 DEF Memos!KeptIsSomewhere, Memos!InSomePlace
    <3>1. \A p \in Memos!Places : s2'[p].memo # m
      BY <1>2, <1>4, <1>6, MemoNumbers
    <3> QED BY <1>1, <3>1
  <2>4. Memos!SpokenIsGone'
    <3>1. \A p \in Memos!Places, m \in Memos!Memos : s8[p].is_valid /\ s8[p].memo = m => s12[m] = 0
      BY <1>2, <1>3, <1>8, MemoNumbers
    <3> QED BY <1>1, <1>5, <1>6, <2>1, <3>1 DEF Memos!SpokenIsGone, Memos!InSomePlace
  <2> QED BY <2>2, <2>3, <2>4 DEF Memos!PlacesAreTidy
<1> QED BY <1>7, <1>8 DEF Memos!MemoInv

\* The places are saved.
LEMMA PlacesAreSaved ==
  ASSUME Memos!MemoInv, Memos!SavePlaces PROVE Memos!MemoInv'
<1>1. /\ s5' \subseteq s5 /\ s8' = s2 /\ UNCHANGED <<s1, s2, s3, s4, s6, s7, s9, s10, s12, s13>>
      /\ s11' = [m \in Memos!Memos |->
              IF s11[m] = "kept" /\ ~\E p \in Memos!Places : s2[p].memo = m THEN "overwritten"
              ELSE s11[m]]
  BY DEF Memos!SavePlaces, Memos!clock
<1>2. Memos!MemoIsOrderly /\ (~s13 => Memos!PlacesAreTidy)
  BY DEF Memos!MemoInv
<1>3. Memos!MemoIsOrderly'
  <2>1. Memos!MemoTypeOK'
    BY <1>1, <1>2 DEF Memos!MemoIsOrderly, Memos!MemoTypeOK
  <2>2. s11' \in [Memos!Memos -> {"none", "kept", "spoken", "silent", "missed", "dropped", "displaced",
                                  "overwritten", "unsaved"}]
        /\ \A m \in Memos!Memos : m > s10 => s12[m] = 0 /\ s11'[m] = "none"
    BY <1>1, <1>2 DEF Memos!MemoIsOrderly
  <2> QED BY <1>1, <1>2, <2>1, <2>2 DEF Memos!MemoIsOrderly
<1>4. ASSUME ~s13 PROVE Memos!PlacesAreTidy'
  <2>1. Memos!PlacesAreApart /\ Memos!CurrentIsTaken /\ Memos!KeptIsSomewhere /\ Memos!SpokenIsGone
    BY <1>2, <1>4 DEF Memos!PlacesAreTidy
  <2>2. Memos!PlacesAreApart' /\ Memos!CurrentIsTaken'
    BY <1>1, <2>1 DEF Memos!PlacesAreApart, Memos!CurrentIsTaken
  <2>3. Memos!KeptIsSomewhere'
    BY <1>1, <2>1 DEF Memos!KeptIsSomewhere, Memos!Waits
  <2>4. Memos!SpokenIsGone'
    BY <1>1, <2>1 DEF Memos!SpokenIsGone, Memos!InSomePlace
  <2> QED BY <2>2, <2>3, <2>4 DEF Memos!PlacesAreTidy
<1> QED BY <1>1, <1>3, <1>4 DEF Memos!MemoInv

\* A memo that is not added is forgotten at once, and the others are not.
LEMMA MemoIsRefused ==
  ASSUME Memos!MemoInv, Memos!AddOneMemoFails PROVE Memos!MemoInv'
<1>1. /\ s10 < MaxMemos /\ s10' = s10 + 1 /\ s11' = [s11 EXCEPT ![s10'] = "dropped"]
      /\ UNCHANGED <<s1, s2, s3, s4, s5, s6, s7, s8, s9, s12, s13>>
  BY DEF Memos!AddOneMemoFails, Memos!clock
<1>2. Memos!MemoIsOrderly /\ (~s13 => Memos!PlacesAreTidy)
  BY DEF Memos!MemoInv
<1>3. s10 \in Nat /\ s10' \in 0 .. MaxMemos /\ s4 \in Int
  BY <1>1, <1>2, MemoNumbers, MemosAssumption
<1>4. \A m \in Memos!Memos : s11'[m] = IF m = s10' THEN "dropped" ELSE s11[m]
  BY <1>1, <1>2 DEF Memos!MemoIsOrderly
<1>5. Memos!MemoIsOrderly'
  <2>1. Memos!MemoTypeOK'
    BY <1>1, <1>2 DEF Memos!MemoIsOrderly, Memos!MemoTypeOK
  <2>2. s11' \in [Memos!Memos -> {"none", "kept", "spoken", "silent", "missed", "dropped", "displaced",
                                  "overwritten", "unsaved"}]
    BY <1>1, <1>2 DEF Memos!MemoIsOrderly
  <2>3. \A m \in Memos!Memos : m > s10' => s12[m] = 0 /\ s11'[m] = "none"
    <3>1. \A m \in Memos!Memos : m > s10' => m > s10 /\ m # s10'
      BY <1>1, <1>2, <1>3, MemoNumbers
    <3> QED BY <1>2, <1>4, <3>1 DEF Memos!MemoIsOrderly
  <2>4. \A p \in Memos!Places : s2[p].timer <= s7 /\ s2[p].memo <= s10' /\ s8[p].memo <= s10'
    <3>1. \A p \in Memos!Places : s2[p].memo \in Int /\ s8[p].memo \in Int
      BY <1>2, MemoNumbers, MemosAssumption
    <3> QED BY <1>1, <1>2, <1>3, <3>1 DEF Memos!MemoIsOrderly
  <2>5. s4 <= s10'
    BY <1>1, <1>2, <1>3 DEF Memos!MemoIsOrderly
  <2> QED BY <1>1, <1>2, <1>3, <2>1, <2>2, <2>3, <2>4, <2>5 DEF Memos!MemoIsOrderly
<1>6. ASSUME ~s13 PROVE Memos!PlacesAreTidy'
  <2>1. Memos!PlacesAreApart /\ Memos!CurrentIsTaken /\ Memos!KeptIsSomewhere /\ Memos!SpokenIsGone
    BY <1>2, <1>6 DEF Memos!PlacesAreTidy
  <2>2. Memos!PlacesAreApart' /\ Memos!CurrentIsTaken'
    BY <1>1, <2>1 DEF Memos!PlacesAreApart, Memos!CurrentIsTaken
  <2>3. \A m \in Memos!Memos : s11'[m] = "kept" => s11[m] = "kept"
    BY <1>4
  <2>4. Memos!KeptIsSomewhere'
    BY <1>1, <2>1, <2>3 DEF Memos!KeptIsSomewhere, Memos!Waits, Memos!InSomePlace
  <2>5. Memos!SpokenIsGone'
    BY <1>1, <2>1 DEF Memos!SpokenIsGone, Memos!InSomePlace
  <2> QED BY <2>2, <2>4, <2>5 DEF Memos!PlacesAreTidy
<1> QED BY <1>1, <1>5, <1>6 DEF Memos!MemoInv

\* A memo is put into a place, and whoever was there loses it.
LEMMA MemoIsAdded ==
  ASSUME Memos!MemoInv, Memos!AddOneMemo PROVE Memos!MemoInv'
<1>0. PICK p \in Memos!Places : p = Memos!PlaceForNext
  BY MemoNumbers, MemoIsPlaced DEF Memos!MemoInv
<1> DEFINE runs == IF Memos!Free = {} THEN {t \in s6 : t.timer # s2[p].timer} ELSE s6
           gone == IF Memos!Free = {} THEN {s2[p].memo} ELSE {}
           places == [s2 EXCEPT ![p].memo = s10']
<1>1. /\ s10 < MaxMemos /\ s10' = s10 + 1 /\ s5' = s5 \cup {"asr"}
      /\ UNCHANGED <<s1, s3, s4, s8, s9, s12>>
  BY DEF Memos!AddOneMemo, Memos!Adding
<1>2. PICK works \in {{}, {p}}, now \in 1 .. MaxTime :
        /\ Memos!StartMemos({p}, works, places, runs, now)
        /\ s11' = [m \in Memos!Memos |->
              IF m = s10' THEN IF [timer |-> s2'[p].timer, place |-> p] \in s6' THEN "kept" ELSE "dropped"
              ELSE IF m \in gone /\ s11[m] = "kept" THEN "displaced" ELSE s11[m]]
        /\ s13' = (s13 \/ s3 = p)
  BY <1>0 DEF Memos!AddOneMemo, Memos!Adding
<1>3. Memos!MemoIsOrderly /\ (~s13 => Memos!PlacesAreTidy)
  BY DEF Memos!MemoInv
<1>4. s13' \in BOOLEAN /\ (~s13' => ~s13 /\ s3 # p)
  BY <1>2, <1>3 DEF Memos!MemoIsOrderly
<1>5. p \in Memos!Places /\ (Memos!Free # {} => ~s2[p].is_valid)
  BY <1>3, <1>0, MemoNumbers, MemoIsPlaced DEF Memos!Free
<1>6. runs \subseteq s6 /\ (Memos!Free = {} => \A t \in runs : t.timer # s2[p].timer)
      /\ (Memos!Free # {} => gone = {}) /\ (Memos!Free = {} => gone = {s2[p].memo})
      /\ \A t \in s6 : t.timer # s2[p].timer => t \in runs
  OBVIOUS
<1> HIDE DEF runs, gone
<1>7. s10 \in Nat /\ s10' \in 0 .. MaxMemos /\ s10' # 0 /\ s10' \in Memos!Memos /\ s7 \in 0 .. MaxTimers
  BY <1>1, <1>3, MemoNumbers, MemosAssumption DEF Memos!Memos
<1>8. /\ places \in [Memos!Places -> Memos!Place]
      /\ \A q \in Memos!Places : /\ places[q].timer = s2[q].timer /\ (q # p => places[q] = s2[q])
                                 /\ places[q].memo = IF q = p THEN s10' ELSE s2[q].memo
  <2>1. s2 \in [Memos!Places -> Memos!Place]
    BY <1>3, MemoNumbers
  <2> QED BY <1>5, <1>7, <2>1 DEF Memos!Place
<1> HIDE DEF places
<1>9. MemosAreStarted({p}, works, places, runs)
  <2>1. \A q \in Memos!Places : places[q].timer <= s7
    BY <1>3, <1>8, MemoNumbers
  <2>2. {p} \in SUBSET Memos!Places
    BY <1>5
  <2>3. Memos!StartMemos({p}, works, places, runs, now) /\ now \in 1 .. MaxTime
    BY <1>2
  <2> QED BY ONLY <1>7, <1>8, <2>1, <2>2, <2>3, MemosStart
<1>10. /\ s7' \in 0 .. MaxTimers /\ s7 <= s7'
       /\ s2' \in [Memos!Places -> Memos!Place]
       /\ \A q \in Memos!Places : s2'[q].memo = places[q].memo /\ s2'[q].timer <= s7'
       /\ \A q \in Memos!Places \ {p} : s2'[q] = places[q]
       /\ s2'[p].timer = places[p].timer \/ s7 < s2'[p].timer
       /\ s6' = runs \cup {[timer |-> s2'[q].timer, place |-> q] : q \in {r \in {p} \cap works : s2'[r].timer # 0}}
  BY ONLY <1>9 DEF MemosAreStarted
<1>11. p \in works /\ s2'[p].timer # 0 => s2'[p].is_valid
  BY ONLY <1>9, Zenon DEF MemosAreStarted
<1> DEFINE mine == [timer |-> s2'[p].timer, place |-> p]
<1>12. /\ runs \subseteq s6'
       /\ \A t \in s6' : t \in runs \/ (t = mine /\ t.place = p /\ t.timer = s2'[p].timer /\ p \in works /\ s2'[p].timer # 0)
  BY <1>10
<1>13. \A q \in Memos!Places : s2'[q].timer \in 0 .. MaxTimers /\ s2'[q].memo \in 0 .. MaxMemos
  BY <1>10 DEF Memos!Place
<1>14. s2'[p].memo = s10' /\ \A q \in Memos!Places : q # p => s2'[q] = s2[q]
  BY <1>5, <1>8, <1>10
<1>15. Memos!MemoIsOrderly'
  <2>1. s6' \subseteq [timer : 1 .. MaxTimers, place : Memos!Places]
    <3>1. s6 \subseteq [timer : 1 .. MaxTimers, place : Memos!Places]
      BY <1>3 DEF Memos!MemoIsOrderly, Memos!MemoTypeOK
    <3>2. s2'[p].timer # 0 => mine \in [timer : 1 .. MaxTimers, place : Memos!Places]
      <4>1. s2'[p].timer # 0 => s2'[p].timer \in 1 .. MaxTimers
        BY <1>5, <1>13, MemosAssumption
      <4> QED BY <1>5, <4>1
    <3> HIDE DEF mine
    <3> QED BY <1>6, <1>12, <3>1, <3>2
  <2>2. s5' \subseteq {"service", "asr"}
    BY <1>1, <1>3 DEF Memos!MemoIsOrderly, Memos!MemoTypeOK
  <2>3. Memos!MemoTypeOK'
    BY <1>1, <1>3, <1>10, <2>1, <2>2 DEF Memos!MemoIsOrderly, Memos!MemoTypeOK
  <2>4. s11' \in [Memos!Memos -> {"none", "kept", "spoken", "silent", "missed", "dropped", "displaced",
                                  "overwritten", "unsaved"}]
    BY <1>2, <1>3 DEF Memos!MemoIsOrderly
  <2>5. \A m \in Memos!Memos : m > s10' => s12[m] = 0 /\ s11'[m] = "none"
    <3>1. \A m \in Memos!Memos : m > s10' => m > s10 /\ m # s10'
      BY <1>1, <1>3, <1>7, MemoNumbers
    <3>2. \A m \in Memos!Memos : m > s10' => s12[m] = 0 /\ s11[m] = "none"
      BY <1>3, <3>1 DEF Memos!MemoIsOrderly
    <3> QED BY <1>2, <3>1, <3>2
  <2>6. \A q \in Memos!Places : s2'[q].timer <= s7' /\ s2'[q].memo <= s10' /\ s8[q].memo <= s10'
    <3>1. \A q \in Memos!Places : s2[q].memo \in Nat /\ s8[q].memo \in Nat /\ s2[q].memo <= s10 /\ s8[q].memo <= s10
      BY <1>3, MemoNumbers, MemosAssumption
    <3>2. \A q \in Memos!Places : s2'[q].memo = s10' \/ s2'[q].memo = s2[q].memo
      BY <1>8, <1>10
    <3> QED BY <1>1, <1>7, <1>10, <3>1, <3>2
  <2>7. s4 <= s10'
    <3>1. s4 \in Int /\ s4 <= s10
      BY <1>3, MemoNumbers, MemosAssumption
    <3> QED BY <1>1, <1>7, <3>1
  <2>8. s9 \in Nat
    BY <1>3 DEF Memos!MemoIsOrderly
  <2> QED BY <1>1, <1>4, <1>7, <2>3, <2>4, <2>5, <2>6, <2>7, <2>8 DEF Memos!MemoIsOrderly
<1>16. ASSUME ~s13' PROVE Memos!PlacesAreTidy'
  <2>1. Memos!PlacesAreApart /\ Memos!CurrentIsTaken /\ Memos!KeptIsSomewhere /\ Memos!SpokenIsGone /\ s3 # p
    BY <1>3, <1>4, <1>16 DEF Memos!PlacesAreTidy
  <2>2. \A t \in runs : t \in s6 /\ t.place \in Memos!Places /\ t.place # p /\ t.timer # 0
    <3> SUFFICES ASSUME NEW t \in runs PROVE t \in s6 /\ t.place \in Memos!Places /\ t.place # p /\ t.timer # 0
      OBVIOUS
    <3>1. t \in s6 /\ t.place \in Memos!Places /\ t.timer # 0
      BY <1>3, <1>6, MemoNumbers
    <3>2. s2[t.place].is_valid /\ s2[t.place].timer = t.timer
      BY <2>1, <3>1 DEF Memos!PlacesAreApart
    <3> QED BY <1>5, <1>6, <3>1, <3>2
  <2>3. Memos!PlacesAreApart'
    <3>1. \A t \in s6' : t.place \in Memos!Places /\ s2'[t.place].timer = t.timer
      <4>1. \A t \in runs : t.place \in Memos!Places /\ s2'[t.place].timer = t.timer
        BY <1>14, <2>1, <2>2 DEF Memos!PlacesAreApart
      <4> QED BY <1>5, <1>12, <4>1
    <3>2. \A t \in s6' : s2'[t.place].is_valid
      <4>1. \A t \in runs : s2'[t.place].is_valid
        <5>1. \A t \in runs : s2[t.place].is_valid /\ s2'[t.place] = s2[t.place]
          BY <1>14, <2>1, <2>2 DEF Memos!PlacesAreApart
        <5> QED BY <5>1
      <4>2. \A t \in s6' : t \notin runs => t.place = p /\ s2'[p].is_valid
        BY <1>11, <1>12
      <4> QED BY <4>1, <4>2
    <3>3. \A q, r \in Memos!Places : s2'[q].timer = s2'[r].timer /\ s2'[q].timer # 0 => q = r
      <4>1. \A q \in Memos!Places : q # p => s2'[q].timer = s2[q].timer /\ s2[q].timer <= s7
        BY <1>3, <1>14, MemoNumbers
      <4>2. s2'[p].timer = s2[p].timer \/ s7 < s2'[p].timer
        BY <1>5, <1>8, <1>10
      <4>3. \A q, r \in Memos!Places : s2[q].timer = s2[r].timer /\ s2[q].timer # 0 => q = r
        BY <2>1 DEF Memos!PlacesAreApart, Memos!NoTimer
      <4>4. ASSUME NEW q \in Memos!Places, q # p, s2'[q].timer = s2'[p].timer, s2'[q].timer # 0 PROVE FALSE
        <5>1. s2'[p].timer <= s7 /\ s7 \in Int /\ s2'[p].timer \in Int
          BY <1>5, <1>7, <1>13, <4>1, <4>4, MemosAssumption
        <5>2. s2'[p].timer = s2[p].timer
          BY <4>2, <5>1
        <5> QED BY <1>5, <4>1, <4>3, <4>4, <5>2
      <4> QED BY <4>1, <4>3, <4>4
    <3>4. \A q, r \in Memos!Places : s2'[q].memo = s2'[r].memo /\ s2'[q].memo # 0 => q = r
      <4>1. \A q \in Memos!Places : q # p => s2'[q].memo = s2[q].memo /\ s2[q].memo # s10'
        <5>1. \A q \in Memos!Places : s2[q].memo \in Nat /\ s2[q].memo <= s10
          BY <1>3, MemoNumbers, MemosAssumption
        <5> QED BY <1>1, <1>7, <1>14, <5>1
      <4> QED BY <1>14, <2>1, <4>1 DEF Memos!PlacesAreApart
    <3>5. \A q, r \in Memos!Places : s8[q].memo = s8[r].memo /\ s8[q].memo # 0 => q = r
      BY <2>1 DEF Memos!PlacesAreApart
    <3> QED BY <1>1, <3>1, <3>2, <3>3, <3>4, <3>5 DEF Memos!PlacesAreApart, Memos!NoTimer
  <2>4. Memos!CurrentIsTaken'
    <3>1. s3 # 0 => s3 \in Memos!Places /\ s2'[s3] = s2[s3]
      BY <1>3, <1>14, <2>1, MemoNumbers
    <3>2. s3 # 0 => \A t \in s6' : t.place # s3
      BY <1>12, <2>1, <2>2 DEF Memos!CurrentIsTaken, Memos!NoPlace
    <3>3. s3 # 0 => s2'[s3].is_valid /\ s2'[s3].timer # 0
      BY <2>1, <3>1 DEF Memos!CurrentIsTaken, Memos!NoPlace, Memos!NoTimer
    <3>4. s4 # -1 => s1 = "MEMO_LOOP" /\ s3 # 0 /\ s4 = s2'[s3].memo
      BY <2>1, <3>1 DEF Memos!CurrentIsTaken, Memos!NoPlace, Memos!Quiet
    <3> QED BY <1>1, <3>2, <3>3, <3>4 DEF Memos!CurrentIsTaken, Memos!NoPlace, Memos!NoTimer,
       Memos!Quiet
  <2>5. Memos!KeptIsSomewhere'
    <3> SUFFICES ASSUME NEW m \in Memos!Memos, s11'[m] = "kept"
                 PROVE  /\ \A q \in Memos!Places : s2'[q].memo = m => s2'[q].is_valid /\ Memos!Waits(q)'
                        /\ \/ \E q \in Memos!Places : s2'[q].memo = m
                           \/ s1 # "MEMO_LOOP" /\ \E q \in Memos!Places : Memos!InSomePlace(s8, q, m)
      BY <1>1 DEF Memos!KeptIsSomewhere, Memos!InSomePlace
    <3>1. CASE m = s10'
      <4>1. mine \in s6'
        BY <1>2, <1>7, <3>1
      <4>2. p \in works /\ s2'[p].timer # 0
        <5>1. mine \notin runs
          BY <2>2
        <5> QED BY <1>12, <4>1, <5>1
      <4>3. s2'[p].is_valid /\ Memos!Waits(p)'
        BY <1>11, <4>1, <4>2 DEF Memos!Waits
      <4>4. \A q \in Memos!Places : s2'[q].memo = m => q = p
        <5>1. \A q \in Memos!Places : s2[q].memo \in Nat /\ s2[q].memo <= s10
          BY <1>3, MemoNumbers, MemosAssumption
        <5> QED BY <1>1, <1>7, <1>14, <3>1, <5>1
      <4> QED BY <1>5, <1>14, <3>1, <4>3, <4>4
    <3>2. CASE m # s10'
      <4>1. s11[m] = "kept" /\ m \notin gone
        BY <1>2, <3>2
      <4>2. /\ \A q \in Memos!Places : s2[q].memo = m => s2[q].is_valid /\ Memos!Waits(q)
            /\ \/ \E q \in Memos!Places : s2[q].memo = m
               \/ s1 # "MEMO_LOOP" /\ \E q \in Memos!Places : Memos!InSomePlace(s8, q, m)
        BY <2>1, <4>1 DEF Memos!KeptIsSomewhere
      <4>3. s2[p].memo # m
        BY <1>5, <1>6, <4>1, <4>2
      <4>4. ASSUME NEW q \in Memos!Places, s2'[q].memo = m PROVE s2'[q].is_valid /\ Memos!Waits(q)'
        <5>1. q # p /\ s2'[q] = s2[q]
          BY <1>14, <3>2, <4>4
        <5>2. s2[q].is_valid /\ (s3 = q \/ \E t \in s6 : t.place = q)
          BY <4>2, <4>4, <5>1 DEF Memos!Waits
        <5>3. ASSUME NEW t \in s6, t.place = q PROVE t \in s6'
          <6>1. t.timer # 0 /\ s2[q].timer = t.timer
            BY <1>3, <2>1, <5>3, MemoNumbers DEF Memos!PlacesAreApart
          <6>2. t.timer # s2[p].timer
            BY <1>5, <2>1, <5>1, <6>1 DEF Memos!PlacesAreApart, Memos!NoTimer
          <6> QED BY <1>6, <1>12, <6>2
        <5> QED BY <1>1, <5>1, <5>2, <5>3 DEF Memos!Waits
      <4>5. \A q \in Memos!Places : s2[q].memo = m => s2'[q].memo = m
        BY <1>14, <4>3
      <4> QED BY <4>2, <4>4, <4>5
    <3> QED BY <3>1, <3>2
  <2>6. Memos!SpokenIsGone'
    <3>1. ASSUME NEW q \in Memos!Places, NEW m \in Memos!Memos, s2'[q].memo = m, s2'[q].is_valid PROVE s12[m] = 0
      <4>1. CASE q = p
        <5>1. m > s10
          BY <1>1, <1>7, <1>14, <3>1, <4>1
        <5> QED BY <1>3, <5>1 DEF Memos!MemoIsOrderly
      <4>2. CASE q # p
        <5>1. s2[q].memo = m /\ s2[q].is_valid
          BY <1>14, <3>1, <4>2
        <5> QED BY <2>1, <5>1 DEF Memos!SpokenIsGone, Memos!InSomePlace
      <4> QED BY <4>1, <4>2
    <3> QED BY <1>1, <2>1, <3>1 DEF Memos!SpokenIsGone, Memos!InSomePlace
  <2> QED BY <2>3, <2>4, <2>5, <2>6 DEF Memos!PlacesAreTidy
<1> QED BY <1>15, <1>16 DEF Memos!MemoInv

\* Whatever the threads, the child and the power do, the places stay in order.
LEMMA MemosStep ==
  ASSUME Memos!MemoInv, Memos!Next PROVE Memos!MemoInv'
BY TimerFires, ServiceGoesOn, PlacesAreLoaded, MemoIsSpoken, MemoIsAdded, MemoIsRefused, PlacesAreSaved,
   PowerGoes DEF Memos!Next

\* What is kept is remembered, and spoken once.
LEMMA MemosKeepPromise ==
  ASSUME Memos!MemoInv
  PROVE  Memos!MemoTypeOK /\ Memos!MemosAreRemembered /\ Memos!MemosSpeakOnce
<1>1. Memos!MemoTypeOK
  BY DEF Memos!MemoInv, Memos!MemoIsOrderly
<1>2. ASSUME ~s13 PROVE Memos!KeptIsSomewhere /\ Memos!SpokenIsGone
  BY <1>2 DEF Memos!MemoInv, Memos!PlacesAreTidy
<1>3. Memos!MemosSpeakOnce
  BY <1>2 DEF Memos!MemosSpeakOnce, Memos!SpokenIsGone
<1>4. Memos!MemosAreRemembered
  BY <1>2 DEF Memos!MemosAreRemembered, Memos!KeptIsSomewhere, Memos!Waits, Memos!InSomePlace
<1> QED BY <1>1, <1>3, <1>4

\* The memos wait while another part runs.
LEMMA MemosStay ==
  ASSUME Memos!MemoInv, UNCHANGED <<s1, s2, s3, s4, s5, s6, s7, s8, s9, s10, s11, s12, s13>>
  PROVE  Memos!MemoInv'
<1>1. Memos!MemoIsOrderly'
  BY DEF Memos!MemoInv, Memos!MemoIsOrderly, Memos!MemoTypeOK
<1>2. ASSUME Memos!PlacesAreTidy PROVE Memos!PlacesAreTidy'
  <2>1. Memos!PlacesAreApart' /\ Memos!CurrentIsTaken'
    BY <1>2 DEF Memos!PlacesAreTidy, Memos!PlacesAreApart, Memos!CurrentIsTaken
  <2>2. Memos!KeptIsSomewhere' /\ Memos!SpokenIsGone'
    BY <1>2 DEF Memos!PlacesAreTidy, Memos!KeptIsSomewhere, Memos!SpokenIsGone, Memos!Waits,
       Memos!InSomePlace
  <2> QED BY <2>1, <2>2 DEF Memos!PlacesAreTidy
<1> QED BY <1>1, <1>2 DEF Memos!MemoInv
-----------------------------------------------------------------------------
(* The battery.                                                           *)

USE BatteryAssumption DEF Vbat!mean, Vbat!NoReading

\* One reading more makes up for the place of one.
LEMMA OneMore ==
  ASSUME NEW n \in Int PROVE /\ Low * ((n + 1) - 1) = Low * (n - 1) + Low
                             /\ Low * ((n + 1) - 2) = Low * (n - 2) + Low
                             /\ Low * ((n + 1) - 2) = Low * (n - 1)
<1>1. (n + 1) - 1 = (n - 1) + 1 /\ (n + 1) - 2 = (n - 2) + 1 /\ (n + 1) - 2 = n - 1
  OBVIOUS
<1>2. ASSUME NEW k \in Int PROVE Low * (k + 1) = Low * k + Low
  OBVIOUS
<1> QED BY <1>1, <1>2

\* A quotient below the limit is one of a sum below as many times the limit.
LEMMA LowQuotient ==
  ASSUME NEW x \in Int, NEW k \in Nat \ {0}, x \div k < Low PROVE x < Low * k
<1> DEFINE q == x \div k
           r == x % k
<1>1. q \in Int /\ r \in 0 .. k - 1 /\ x = k * q + r
  OBVIOUS
<1> HIDE DEF q, r
<1>2. q + 1 <= Low
  BY <1>1 DEF q
<1>3. k * (q + 1) <= k * Low
  BY <1>1, <1>2
<1>4. k * (q + 1) = k * q + k /\ k * Low = Low * k
  BY <1>1
<1>5. k * q \in Int /\ Low * k \in Int /\ k * (q + 1) \in Int
  BY <1>1
<1> QED BY <1>1, <1>3, <1>4, <1>5

\* At first nothing is read.
LEMMA BatteryBegins ==
  ASSUME Vbat!VbatInit PROVE Vbat!VbatInv
BY DEF Vbat!VbatInit, Vbat!VbatInv, Vbat!Counted, Vbat!NotLow, Vbat!Warned

\* A reading leaves the mean that is being made as promised.
LEMMA BatteryReads ==
  ASSUME Vbat!VbatInv, Vbat!Read PROVE Vbat!VbatInv'
<1>1. PICK v \in Levels :
        /\ s8' = s8 + v
        /\ s9' = IF s7 = 0 \/ v > s9 THEN v ELSE s9
        /\ s10' = IF s7 = 0 \/ v < s10 THEN v ELSE s10
        /\ s11' = IF v < Low THEN s11 + 1 ELSE s11
  BY DEF Vbat!Read
<1>2. /\ s7 \in Nat /\ s7 < Readings /\ s7' = s7 + 1 /\ v \in Nat
      /\ s8 \in Nat /\ s9 \in Nat /\ s10 \in Nat /\ s11 \in Nat
      /\ s7 = 0 => s8 = 0 /\ s11 = 0
      /\ s7 > 0 => s10 <= s9
  BY DEF Vbat!Read, Vbat!VbatInv, Vbat!Counted
<1>3. Vbat!Counted'
  BY <1>1, <1>2 DEF Vbat!Counted
<1> DEFINE before == Low * (s7 - 1)
           short == Low * (s7 - 2)
<1>4. /\ Low * (s7' - 1) = before + Low /\ Low * (s7' - 2) = short + Low /\ Low * (s7' - 2) = before
      /\ before \in Int /\ short \in Int /\ Low * (s7' - 1) \in Int /\ Low * (s7' - 2) \in Int
  BY <1>2, OneMore
<1>5. /\ s7 > 0 /\ s11 = 0 => s10 >= Low /\ s8 - s9 >= before
      /\ s7 > 0 /\ s11 = 1 => s10 < Low /\ s8 - s10 >= before
      /\ s11 <= 1 /\ (s7 > 1 \/ s11 = 1) => s8 - s9 - s10 >= short
  BY DEF Vbat!VbatInv, Vbat!NotLow
<1>6. s7 = 0 => before = -Low /\ short = -Low - Low
  OBVIOUS
<1>7. s7 = 1 => before = 0 /\ short = -Low /\ (s11 = 0 => s8 - s9 >= 0)
  BY <1>5
<1> HIDE DEF before, short
<1>8. CASE s7 = 0
  BY <1>1, <1>2, <1>3, <1>4, <1>6, <1>8 DEF Vbat!VbatInv, Vbat!NotLow, Vbat!Warned, Vbat!Read
<1>9. CASE s7 > 0
  <2>1. s11' = 0 => s10' >= Low /\ s8' - s9' >= before + Low
    BY <1>1, <1>2, <1>5, <1>4, <1>9
  <2>2. s11' = 1 => s10' < Low /\ s8' - s10' >= before + Low
    BY <1>1, <1>2, <1>5, <1>4, <1>9
  <2>3. s11' <= 1 => s8' - s9' - s10' >= before
    BY <1>1, <1>2, <1>5, <1>4, <1>7, <1>9
  <2>4. Vbat!NotLow'
    BY <1>2, <1>4, <2>1, <2>2, <2>3 DEF Vbat!NotLow
  <2> QED BY <1>3, <2>4 DEF Vbat!VbatInv, Vbat!Warned, Vbat!Read
<1> QED BY <1>2, <1>8, <1>9

\* A mean that is low has two low readings at least.
LEMMA LowMeanIsEarned ==
  ASSUME Vbat!VbatInv, s7 = Readings, ~(Vbat!Mean >= Low) PROVE s11 >= 2
<1> DEFINE x == s8 - s9 - s10
           k == Readings - 2
<1>1. x \in Int /\ k \in Nat \ {0} /\ s11 \in Nat
  BY DEF Vbat!VbatInv, Vbat!Counted
<1>2. x \div k < Low
  BY <1>1 DEF Vbat!Mean
<1>3. s11 <= 1 => x >= Low * k
  BY DEF Vbat!VbatInv, Vbat!NotLow
<1> HIDE DEF x, k
<1>4. x < Low * k /\ Low * k \in Int
  BY <1>1, <1>2, LowQuotient
<1> QED BY <1>1, <1>3, <1>4

\* The mean is compared with the limit.
LEMMA BatteryChecks ==
  ASSUME Vbat!VbatInv, Vbat!Check PROVE Vbat!VbatInv'
<1>1. Vbat!Counted' /\ Vbat!NotLow'
  BY DEF Vbat!Check, Vbat!Counted, Vbat!NotLow
<1>2. /\ s2 \in Nat /\ s3 \in Nat /\ s6 \in Nat /\ s6' \in Nat /\ s6' >= s6 /\ s2 <= s6
      /\ s11 >= 2 => s6' = s6 + 1
  BY DEF Vbat!Check, Vbat!VbatInv, Vbat!Counted
<1>3. CASE Vbat!Mean >= Low
  BY <1>1, <1>2, <1>3 DEF Vbat!Check, Vbat!VbatInv, Vbat!Warned
<1>4. CASE ~(Vbat!Mean >= Low)
  <2>1. s2' = s2 + 1 /\ s6' = s6 + 1
    BY <1>2, <1>4, LowMeanIsEarned DEF Vbat!Check
  <2>2. s2' > low_power_max_cnt => UNCHANGED <<s3, s5>>
    BY <1>4 DEF Vbat!Check
  <2>3. s2' <= low_power_max_cnt /\ s3 > AlertTimes => s3' = 0 /\ s5'
    BY <1>2, <1>4, <2>1 DEF Vbat!Check
  <2>4. s2' <= low_power_max_cnt /\ ~(s3 > AlertTimes) => s3' = s3 + Delay /\ s5' = s5
    BY <1>2, <1>4, <2>1 DEF Vbat!Check
  <2>5. s3' \in Nat
    BY <1>2, <2>1, <2>2, <2>3, <2>4
  <2>6. s2 = 0 => s3' = AlertTimes + Delay
    BY <1>2, <2>1, <2>4 DEF Vbat!VbatInv, Vbat!Warned
  <2>7. s2 > 0 => s5'
    <3>1. CASE s2 = 1 /\ s2' <= low_power_max_cnt
      BY <3>1, <2>3 DEF Vbat!VbatInv, Vbat!Warned
    <3>2. CASE s2 > 1
      <4>1. s5
        BY <3>2 DEF Vbat!VbatInv, Vbat!Warned
      <4>2. s2' > low_power_max_cnt \/ s2' <= low_power_max_cnt
        BY <1>2, <2>1
      <4> QED BY <2>2, <2>3, <2>4, <4>1, <4>2, Zenon
    <3>3. s2 = 1 => s2' <= low_power_max_cnt
      BY <2>1
    <3>4. s2 > 0 => s2 = 1 \/ s2 > 1
      BY <1>2
    <3> QED BY <3>1, <3>2, <3>3, <3>4
  <2> QED BY <1>1, <1>2, <2>1, <2>5, <2>6, <2>7 DEF Vbat!VbatInv, Vbat!Warned
<1> QED BY <1>3, <1>4

\* Whatever the battery gives, only low readings count.
LEMMA BatteryStep ==
  ASSUME Vbat!VbatInv, Vbat!VbatNext PROVE Vbat!VbatInv'
<1>1. CASE Vbat!CheckStartup
  BY <1>1 DEF Vbat!CheckStartup, Vbat!VbatInv, Vbat!Counted, Vbat!NotLow, Vbat!Warned
<1> QED BY <1>1, BatteryReads, BatteryChecks DEF Vbat!VbatNext

\* Six low means have warned the child.
LEMMA BatteryKeepsPromise ==
  ASSUME Vbat!VbatInv PROVE Vbat!ShutdownIsEarned
BY DEF Vbat!VbatInv, Vbat!Warned, Vbat!ShutdownIsEarned

\* The battery stays as it is while another part runs.
LEMMA BatteryStays ==
  ASSUME Vbat!VbatInv, UNCHANGED <<s1, s2, s3, s4, s5, s6, s7, s8, s9, s10, s11>> PROVE Vbat!VbatInv'
BY DEF Vbat!VbatInv, Vbat!Counted, Vbat!NotLow, Vbat!Warned

HIDE DEF Vbat!mean, Vbat!NoReading

HIDE BatteryAssumption
-----------------------------------------------------------------------------
(* The event loop.                                                        *)

USE EventsAssumption DEF Events!EventTypeOK, Events!Callers, Events!Destroyer

\* At first nothing is accepted.
LEMMA EventsBegin ==
  ASSUME Events!EventInit PROVE Events!EventInv
<1>1. s1 \in BOOLEAN /\ s3 \in BOOLEAN
  BY DEF Events!EventInit
<1>2. s2 \in [Events!Callers -> {"start", "check", "put", "ok", "failed"}]
  BY DEF Events!EventInit
<1>3. /\ s4 \in Seq(Events!Callers) /\ s6 \in Seq(Events!Callers) /\ s7 \in Seq(Posters)
      /\ Len(s4) = 0 /\ Len(s6) = 0 /\ Len(s7) = 0 /\ s5 = "get"
  BY DEF Events!EventInit
<1>4. Events!QueueIsNext
  BY <1>3 DEF Events!QueueIsNext, Events!Taken
<1> QED BY <1>1, <1>2, <1>3, <1>4 DEF Events!EventInv

\* The queue, by what was handled and how much the loop has taken.
LEMMA QueueSays ==
  ASSUME NEW n, n = Events!Taken
  PROVE  Events!QueueIsNext <=>
           /\ Len(s6) = Len(s7) + n + Len(s4)
           /\ \A i \in DOMAIN s7 : s7[i] = s6[i]
           /\ s5 # "get" => s6[Len(s7) + 1] = IF s5 \in Posters THEN s5 ELSE "destroyer"
           /\ \A i \in DOMAIN s4 : s4[i] = s6[Len(s7) + n + i]
BY DEF Events!QueueIsNext

\* A thread that emits gets its event into the queue, or not.
LEMMA EventIsPosted ==
  ASSUME Events!EventInv, NEW c \in Events!Callers, Events!Emit(c) \/ Events!Check(c) \/ Events!Put(c)
  PROVE  Events!EventInv'
<1>1. CASE Events!Emit(c)
  <2>1. s2' \in [Events!Callers -> {"start", "check", "put", "ok", "failed"}]
    BY <1>1 DEF Events!Emit, Events!Goes, Events!EventInv
  <2> QED BY <1>1, <2>1 DEF Events!Emit, Events!EventInv, Events!QueueIsNext, Events!Taken
<1>2. CASE Events!Check(c)
  <2>1. s2' \in [Events!Callers -> {"start", "check", "put", "ok", "failed"}]
    BY <1>2 DEF Events!Check, Events!Goes, Events!EventInv
  <2>2. s3' \in BOOLEAN
    BY <1>2 DEF Events!Check
  <2>3. UNCHANGED <<s1, s4, s5, s6, s7>>
    BY <1>2 DEF Events!Check
  <2>4. Events!QueueIsNext'
    BY <2>3 DEF Events!EventInv, Events!QueueIsNext, Events!Taken
  <2> QED BY <2>1, <2>2, <2>3, <2>4 DEF Events!EventInv
<1>3. CASE Events!Put(c)
  <2>1. s2' \in [Events!Callers -> {"start", "check", "put", "ok", "failed"}]
    BY <1>3 DEF Events!Put, Events!Goes, Events!EventInv
  <2>2. UNCHANGED <<s1, s3, s5, s7>>
    BY <1>3 DEF Events!Put
  <2>3. CASE UNCHANGED <<s4, s6>>
    <3>1. Events!QueueIsNext'
      BY <2>2, <2>3 DEF Events!EventInv, Events!QueueIsNext, Events!Taken
    <3> QED BY <2>1, <2>2, <2>3, <3>1 DEF Events!EventInv
  <2>4. CASE Len(s4) < LoopQueue /\ s4' = Append(s4, c) /\ s6' = Append(s6, c)
    <3> DEFINE n == Events!Taken
    <3>1. s4 \in Seq(Events!Callers) /\ s6 \in Seq(Events!Callers) /\ s7 \in Seq(Posters)
      BY DEF Events!EventInv
    <3>2. n \in {0, 1} /\ n' = n /\ s5' = s5 /\ s7' = s7
      BY <2>2 DEF Events!Taken
    <3> HIDE DEF n
    <3>3. /\ Len(s6) = Len(s7) + n + Len(s4)
          /\ \A i \in DOMAIN s7 : s7[i] = s6[i]
          /\ s5 # "get" => s6[Len(s7) + 1] = IF s5 \in Posters THEN s5 ELSE "destroyer"
          /\ \A i \in DOMAIN s4 : s4[i] = s6[Len(s7) + n + i]
      BY QueueSays DEF Events!EventInv, n
    <3>4. s5 # "get" => n = 1
      BY DEF Events!Taken, n
    <3>5. /\ s4' \in Seq(Events!Callers) /\ Len(s4') = Len(s4) + 1
          /\ \A i \in DOMAIN s4' : s4'[i] = IF i = Len(s4) + 1 THEN c ELSE s4[i]
      BY ONLY <2>4, <3>1, c \in Events!Callers
    <3>6. /\ s6' \in Seq(Events!Callers) /\ Len(s6') = Len(s6) + 1
          /\ \A i \in DOMAIN s6' : s6'[i] = IF i = Len(s6) + 1 THEN c ELSE s6[i]
      BY ONLY <2>4, <3>1, c \in Events!Callers
    <3>7. /\ Len(s4) \in Nat /\ Len(s6) \in Nat /\ Len(s7) \in Nat
          /\ DOMAIN s4 = 1 .. Len(s4) /\ DOMAIN s6 = 1 .. Len(s6) /\ DOMAIN s7 = 1 .. Len(s7)
          /\ DOMAIN s4' = 1 .. Len(s4') /\ DOMAIN s6' = 1 .. Len(s6')
      BY <3>1, <3>5, <3>6
    <3>8. Len(s6') = Len(s7') + n' + Len(s4')
      BY <3>2, <3>3, <3>5, <3>6, <3>7
    <3>9. \A i \in DOMAIN s7' : s7'[i] = s6'[i]
      BY <3>2, <3>3, <3>6, <3>7
    <3>10. s5' # "get" => s6'[Len(s7') + 1] = IF s5' \in Posters THEN s5' ELSE "destroyer"
      <4> SUFFICES ASSUME s5 # "get" PROVE s6'[Len(s7) + 1] = s6[Len(s7) + 1]
        BY <3>2, <3>3
      <4> QED BY <3>2, <3>3, <3>4, <3>6, <3>7
    <3>11. \A i \in DOMAIN s4' : s4'[i] = s6'[Len(s7') + n' + i]
      <4> TAKE i \in DOMAIN s4'
      <4>1. i \in 1 .. Len(s4) + 1
        BY <3>5, <3>7
      <4>2. Len(s7) + n + i \in DOMAIN s6' /\ (Len(s7) + n + i = Len(s6) + 1 <=> i = Len(s4) + 1)
        BY <4>1, <3>2, <3>3, <3>6, <3>7
      <4>3. s6'[Len(s7) + n + i] = IF i = Len(s4) + 1 THEN c ELSE s6[Len(s7) + n + i]
        BY <4>2, <3>6
      <4>4. i # Len(s4) + 1 => s4[i] = s6[Len(s7) + n + i]
        BY <4>1, <3>3, <3>7
      <4> QED BY <4>3, <4>4, <3>2, <3>5
    <3>12. Events!QueueIsNext'
      BY <3>8, <3>9, <3>10, <3>11 DEF Events!QueueIsNext, n
    <3> QED BY <2>1, <2>2, <2>4, <3>5, <3>6, <3>12 DEF Events!EventInv
  <2> QED BY <1>3, <2>3, <2>4 DEF Events!Put
<1> QED BY <1>1, <1>2, <1>3

\* The loop takes an event out of the queue.
LEMMA EventIsTaken ==
  ASSUME Events!EventInv, Events!Get PROVE Events!EventInv'
<1>1. /\ s4 \in Seq(Events!Callers) /\ s4 # <<>> /\ s4' = Tail(s4) /\ s5 = "get"
      /\ s5' = IF s4[1] = "destroyer" THEN "ended" ELSE s4[1]
      /\ UNCHANGED <<s1, s2, s3, s6, s7>>
  BY DEF Events!Get, Events!EventInv, Events!EndsWith
<1>2. s6 \in Seq(Events!Callers) /\ s7 \in Seq(Posters) /\ Events!QueueIsNext
  BY DEF Events!EventInv
<1>3. 0 = Events!Taken /\ 1 = Events!Taken'
  <2>1. s5' # "get"
    BY <1>1
  <2> QED BY <1>1, <2>1 DEF Events!Taken
<1>4. /\ Len(s6) = Len(s7) + 0 + Len(s4)
      /\ \A i \in DOMAIN s7 : s7[i] = s6[i]
      /\ \A i \in DOMAIN s4 : s4[i] = s6[Len(s7) + 0 + i]
  BY <1>2, <1>3, QueueSays
<1>5. /\ Len(s4) \in Nat \ {0} /\ Len(s6) \in Nat /\ Len(s7) \in Nat
      /\ DOMAIN s4 = 1 .. Len(s4) /\ DOMAIN s7 = 1 .. Len(s7)
  BY <1>1, <1>2
<1>6. /\ s4' \in Seq(Events!Callers) /\ Len(s4') = Len(s4) - 1 /\ DOMAIN s4' = 1 .. Len(s4')
      /\ \A i \in 1 .. Len(s4) - 1 : s4'[i] = s4[i + 1]
      /\ s4[1] \in Events!Callers
  BY ONLY <1>1, <1>5
<1>7. s6[Len(s7) + 1] = s4[1]
  BY <1>4, <1>5
<1>8. \A i \in DOMAIN s4' : s4'[i] = s6[Len(s7) + 1 + i]
  <2> TAKE i \in DOMAIN s4'
  <2>1. i \in 1 .. Len(s4) - 1 /\ i + 1 \in DOMAIN s4 /\ Len(s7) + 0 + (i + 1) = Len(s7) + 1 + i
    BY <1>5, <1>6
  <2>2. s4[i + 1] = s6[Len(s7) + 0 + (i + 1)]
    BY <2>1, <1>4
  <2> QED BY <2>1, <2>2, <1>6
<1>9. s5' \in Posters \cup {"ended"} /\ s4[1] = IF s5' \in Posters THEN s5' ELSE "destroyer"
  BY <1>1, <1>6
<1>10. Len(s6) = Len(s7) + 1 + Len(s4')
  BY <1>4, <1>5, <1>6
<1>11. Events!QueueIsNext'
  BY <1>1, <1>3, <1>4, <1>7, <1>8, <1>9, <1>10 DEF Events!QueueIsNext
<1>12. Len(s4') <= LoopQueue
  BY <1>5, <1>6 DEF Events!EventInv
<1> QED BY <1>1, <1>2, <1>6, <1>9, <1>11, <1>12 DEF Events!EventInv

\* The callback of the event that was taken.
LEMMA EventRuns ==
  ASSUME Events!EventInv, Events!Run PROVE Events!EventInv'
<1>1. /\ s5 \in Posters /\ s5 # "get" /\ s7' = Append(s7, s5) /\ s5' = "get"
      /\ UNCHANGED <<s1, s2, s3, s4, s6>>
  BY DEF Events!Run
<1>2. /\ s6 \in Seq(Events!Callers) /\ s7 \in Seq(Posters) /\ s4 \in Seq(Events!Callers)
      /\ Events!QueueIsNext
  BY DEF Events!EventInv
<1>3. 1 = Events!Taken /\ 0 = Events!Taken'
  BY <1>1 DEF Events!Taken
<1>4. /\ Len(s6) = Len(s7) + 1 + Len(s4)
      /\ \A i \in DOMAIN s7 : s7[i] = s6[i]
      /\ s6[Len(s7) + 1] = IF s5 \in Posters THEN s5 ELSE "destroyer"
      /\ \A i \in DOMAIN s4 : s4[i] = s6[Len(s7) + 1 + i]
  BY <1>1, <1>2, <1>3, QueueSays
<1>5. Len(s4) \in Nat /\ Len(s6) \in Nat /\ Len(s7) \in Nat /\ DOMAIN s7 = 1 .. Len(s7)
      /\ DOMAIN s4 = 1 .. Len(s4)
  BY <1>2
<1>6. /\ s7' \in Seq(Posters) /\ Len(s7') = Len(s7) + 1 /\ DOMAIN s7' = 1 .. Len(s7')
      /\ \A i \in DOMAIN s7' : s7'[i] = IF i = Len(s7) + 1 THEN s5 ELSE s7[i]
  BY ONLY <1>1, <1>2
<1>7. \A i \in DOMAIN s7' : s7'[i] = s6[i]
  BY <1>1, <1>4, <1>5, <1>6
<1>8. \A i \in DOMAIN s4 : s4[i] = s6[Len(s7') + 0 + i]
  BY <1>4, <1>5, <1>6
<1>9. Len(s6) = Len(s7') + 0 + Len(s4)
  BY <1>4, <1>5, <1>6
<1>10. Events!QueueIsNext'
  BY <1>1, <1>3, <1>7, <1>8, <1>9 DEF Events!QueueIsNext
<1> QED BY <1>1, <1>2, <1>6, <1>10 DEF Events!EventInv

\* Whoever takes the step, behind what was handled comes what was accepted next.
LEMMA EventsStep ==
  ASSUME Events!EventInv, Events!EventNext PROVE Events!EventInv'
<1>1. CASE Events!Forget
  <2>1. s1' \in BOOLEAN /\ UNCHANGED <<s2, s3, s4, s5, s6, s7>>
    BY <1>1 DEF Events!Forget
  <2> QED BY <2>1 DEF Events!EventInv, Events!QueueIsNext, Events!Taken
<1>2. CASE Events!DeleteSelf
  BY <1>2 DEF Events!DeleteSelf, Events!EventInv, Events!QueueIsNext, Events!Taken
<1> QED BY <1>1, <1>2, EventIsPosted, EventIsTaken, EventRuns DEF Events!EventNext

\* The loop ends with the destroyer's message: all before it has run.
LEMMA EventsKeepPromise ==
  ASSUME Events!EventInv PROVE Events!AcceptedEventsRun /\ Events!EventTypeOK
<1>1. /\ s6 \in Seq(Events!Callers) /\ s7 \in Seq(Posters) /\ s4 \in Seq(Events!Callers)
      /\ Len(s6) = Len(s7) + Events!Taken + Len(s4) /\ Events!Taken \in {0, 1}
      /\ s5 # "get" => Events!Taken = 1
  BY DEF Events!EventInv, Events!QueueIsNext, Events!Taken
<1>2. \A i \in DOMAIN s7 : s7[i] = s6[i] /\ s7[i] # "destroyer"
  BY <1>1 DEF Events!EventInv, Events!QueueIsNext
<1>3. s5 \in {"ended", "deleted"} => s6[Len(s7) + 1] = "destroyer"
  BY DEF Events!EventInv, Events!QueueIsNext
<1>4. Events!EventTypeOK
  BY DEF Events!EventInv
<1> QED BY <1>1, <1>2, <1>3, <1>4 DEF Events!AcceptedEventsRun

\* The loop stays as it is while another part runs.
LEMMA EventsStay ==
  ASSUME Events!EventInv, UNCHANGED <<s1, s2, s3, s4, s5, s6, s7>> PROVE Events!EventInv'
BY DEF Events!EventInv, Events!QueueIsNext, Events!Taken

HIDE DEF Events!EventTypeOK, Events!Callers, Events!Destroyer

HIDE EventsAssumption
-----------------------------------------------------------------------------
(* The song in its container.                                             *)

\* A set of numbers up to one has a greatest one.
LEMMA GreatestOf ==
  ASSUME NEW b \in Nat, NEW T, T \subseteq 0 .. b, T # {}
  PROVE  \E m \in T : \A n \in T : m >= n
<1> DEFINE U == {b - x : x \in T}
<1>1. U \subseteq Nat
  OBVIOUS
<1>6. U # {}
  <2>1. PICK x \in T : TRUE
    OBVIOUS
  <2>2. b - x \in U
    OBVIOUS
  <2> HIDE DEF U
  <2> QED BY <2>2
<1>2. PICK u \in U : \A v \in U : u <= v
  <2> HIDE DEF U
  <2> QED BY <1>1, <1>6, LeastOf
<1>3. PICK m \in T : u = b - m
  OBVIOUS
<1>4. \A n \in T : b - n \in U
  OBVIOUS
<1>5. \A n \in T : b - m <= b - n
  BY <1>2, <1>3, <1>4
<1> QED BY <1>5

\* The first sample that does not end in a piece is found.
LEMMA SongMin ==
  ASSUME NEW T, T \subseteq Nat, T # {}
  PROVE  Song!Min(T) \in T /\ \A n \in T : Song!Min(T) <= n
BY LeastOf DEF Song!Min

\* The last sample before a place is found.
LEMMA SongMax ==
  ASSUME NEW b \in Nat, NEW T, T \subseteq 0 .. b, T # {}
  PROVE  Song!Max(T) \in T /\ \A n \in T : Song!Max(T) >= n
BY GreatestOf DEF Song!Max

\* Of the file that is played.
LEMMA SongNumbers ==
  SongHeader \in Nat \ {0} /\ FileLen \in Nat /\ MIN_LENGTH \in Nat /\ FIRST_LENGTH \in Nat
BY SongAssumption

\* Where a sample lies.
LEMMA SongSamples ==
  ASSUME NEW i \in DOMAIN Samples
  PROVE  /\ Samples[i].offset \in Nat /\ Samples[i].size \in Nat /\ Samples[i].offset >= SongHeader
         /\ Samples[i].offset + Samples[i].size <= FileLen
         /\ \A j \in DOMAIN Samples : i < j => Samples[i].offset + Samples[i].size <= Samples[j].offset
<1>1. Samples \in Seq([offset : Nat, size : Nat])
  BY SongAssumption
<1>2. Samples[i] \in [offset : Nat, size : Nat]
  <2>1. DOMAIN Samples = 1 .. Len(Samples)
    BY <1>1, LenProperties
  <2>2. i \in 1 .. Len(Samples)
    BY <2>1
  <2> QED BY ONLY <1>1, <2>2, ElementOfSeq
<1>3. Samples[i].offset \in Nat /\ Samples[i].size \in Nat
  BY <1>2
<1> QED BY <1>3, SongAssumption

USE SongNumbers

\* Two sequences of numbers, one behind the other.
LEMMA NatJoin ==
  ASSUME NEW p \in Seq(Nat), NEW q \in Seq(Nat)
  PROVE  /\ p \o q \in Seq(Nat) /\ Len(p \o q) = Len(p) + Len(q)
         /\ \A k \in 1 .. Len(p) : (p \o q)[k] = p[k]
         /\ \A k \in 1 .. Len(q) : (p \o q)[Len(p) + k] = q[k]
<1>1. Len(p) \in Nat /\ Len(q) \in Nat
  OBVIOUS
<1>2. p \o q \in Seq(Nat)
  OBVIOUS
<1>3. Len(p \o q) = Len(p) + Len(q)
  OBVIOUS
<1>4. \A k \in 1 .. Len(p) : (p \o q)[k] = p[k]
  OBVIOUS
<1>5. \A k \in 1 .. Len(q) : (p \o q)[Len(p) + k] = q[k]
  OBVIOUS
<1> QED BY <1>2, <1>3, <1>4, <1>5

\* What is left of a sequence of numbers.
LEMMA NatRest ==
  ASSUME NEW p \in Seq(Nat), NEW n \in Nat, n <= Len(p)
  PROVE  /\ SubSeq(p, n + 1, Len(p)) \in Seq(Nat) /\ Len(SubSeq(p, n + 1, Len(p))) = Len(p) - n
         /\ \A k \in 1 .. Len(p) - n : SubSeq(p, n + 1, Len(p))[k] = p[n + k]
<1>1. Len(p) \in Nat
  OBVIOUS
<1>2. SubSeq(p, n + 1, Len(p)) \in Seq(Nat)
  <2>1. \A i \in n + 1 .. Len(p) : p[i] \in Nat
    OBVIOUS
  <2> QED BY ONLY <1>1, <2>1, n \in Nat, n <= Len(p), SubSeqProperties
<1>3. Len(SubSeq(p, n + 1, Len(p))) = Len(p) - n
  OBVIOUS
<1>4. \A k \in 1 .. Len(p) - n : SubSeq(p, n + 1, Len(p))[k] = p[n + k]
  OBVIOUS
<1> QED BY <1>2, <1>3, <1>4

\* The bytes of a part of the file.
LEMMA SongBytes ==
  ASSUME NEW a \in Nat, NEW b \in Nat, a <= b
  PROVE  Song!Bytes(a, b) \in Seq(Nat) /\ Len(Song!Bytes(a, b)) = b - a
BY DEF Song!Bytes

\* Which they are.
LEMMA SongByte ==
  ASSUME NEW a \in Nat, NEW b \in Nat, NEW k \in 1 .. b - a
  PROVE  Song!Bytes(a, b)[k] = a + k
BY DEF Song!Bytes

\* A sequence that holds them is them.
LEMMA SongBytesAre ==
  ASSUME NEW a \in Nat, NEW b \in Nat, a <= b, NEW s \in Seq(Nat), Len(s) = b - a,
         \A k \in 1 .. b - a : s[k] = a + k
  PROVE  s = Song!Bytes(a, b)
<1> DEFINE t == Song!Bytes(a, b)
<1>1. t \in Seq(Nat) /\ Len(t) = b - a
  BY SongBytes
<1>2. \A k \in 1 .. b - a : t[k] = a + k
  BY SongByte
<1> HIDE DEF t
<1>3. s = t
  BY <1>1, <1>2
<1> QED BY <1>3 DEF t

\* The first bytes of the file.
LEMMA FirstBytesAre ==
  ASSUME NEW b \in Nat, NEW s \in Seq(Nat), Len(s) = b, \A k \in 1 .. b : s[k] = k
  PROVE  s = Song!Bytes(0, b)
<1>1. \A k \in 1 .. b - 0 : s[k] = 0 + k
  OBVIOUS
<1>2. Len(s) = b - 0 /\ 0 \in Nat /\ 0 <= b
  OBVIOUS
<1> QED BY <1>1, <1>2, SongBytesAre

\* What waits behind the header.
HeldFrom(data, b) == \A a \in SongHeader .. b : Song!EndsWith(data, a, b)

\* Of the header and what waits behind it, in numbers.
PiecesAre(saved, left, b, had, pad) ==
  LET p == Song!Bytes(saved, b)
      n == Song!Lesser(Len(p), left)
      all == had \o SubSeq(p, 1, n) \o Song!Zeros(pad)
      rest == IF n < Len(p) THEN SubSeq(p, n + 1, Len(p)) ELSE <<>>
  IN /\ n \in Nat /\ n <= left /\ Len(p) = b - saved /\ n <= b - saved
     /\ n < left => n = b - saved /\ rest = <<>>
     /\ all \in Seq(Nat) /\ rest \in Seq(Nat)
     /\ had = Song!Bytes(0, saved) /\ pad = 0 => all = Song!Bytes(0, saved + n)
     /\ had = Song!Bytes(0, saved) /\ n = left => SubSeq(all, 1, SongHeader) = Song!Bytes(0, SongHeader)
     /\ n = left => HeldFrom(rest, b)

\* What m4a_header_save appends and what it leaves for later.
LEMMA HeaderPieces ==
  ASSUME NEW saved \in Nat, NEW left \in Nat, saved + left = SongHeader,
         NEW b \in Nat, saved <= b, NEW had \in Seq(Nat), NEW pad \in Nat
  PROVE  PiecesAre(saved, left, b, had, pad)
<1> DEFINE p == Song!Bytes(saved, b)
           n == Song!Lesser(Len(p), left)
           all == had \o SubSeq(p, 1, n) \o Song!Zeros(pad)
           rest == IF n < Len(p) THEN SubSeq(p, n + 1, Len(p)) ELSE <<>>
<1> SUFFICES /\ n \in Nat /\ n <= left /\ Len(p) = b - saved /\ n <= b - saved
             /\ n < left => n = b - saved /\ rest = <<>>
             /\ all \in Seq(Nat) /\ rest \in Seq(Nat)
             /\ had = Song!Bytes(0, saved) /\ pad = 0 => all = Song!Bytes(0, saved + n)
             /\ had = Song!Bytes(0, saved) /\ n = left => SubSeq(all, 1, SongHeader) = Song!Bytes(0, SongHeader)
             /\ n = left => HeldFrom(rest, b)
  BY DEF PiecesAre
<1>20. p = Song!Bytes(saved, b) /\ n = Song!Lesser(Len(p), left)
  OBVIOUS
<1>21. all = had \o SubSeq(p, 1, n) \o Song!Zeros(pad)
  OBVIOUS
<1>22. rest = IF n < Len(p) THEN SubSeq(p, n + 1, Len(p)) ELSE <<>>
  OBVIOUS
<1> HIDE DEF p, n, all, rest
<1>1. p \in Seq(Nat) /\ Len(p) = b - saved
  BY <1>20, SongBytes
<1>2. \A k \in 1 .. b - saved : p[k] = saved + k
  BY <1>20, SongByte
<1>3. n \in Nat /\ n <= left /\ n <= Len(p) /\ (n < left => n = Len(p))
  BY <1>1, <1>20 DEF Song!Lesser
<1> HIDE DEF Song!Lesser
<1> DEFINE front == SubSeq(p, 1, n)
           zeros == Song!Zeros(pad)
           mid == had \o front
<1>4. front \in Seq(Nat) /\ Len(front) = n /\ \A k \in 1 .. n : front[k] = saved + k
  BY ONLY <1>1, <1>2, <1>3, saved \in Nat
<1>5. zeros \in Seq(Nat) /\ Len(zeros) = pad
  BY DEF Song!Zeros
<1> HIDE DEF front, zeros
<1>6. /\ mid \in Seq(Nat) /\ Len(mid) = Len(had) + n
      /\ \A k \in 1 .. Len(had) : mid[k] = had[k]
      /\ \A k \in 1 .. n : mid[Len(had) + k] = front[k]
  BY ONLY <1>3, <1>4, had \in Seq(Nat), NatJoin
<1>7. all = mid \o zeros
  BY <1>21 DEF front, zeros
<1> HIDE DEF mid
<1>8. all \in Seq(Nat) /\ Len(all) = Len(mid) + pad /\ \A k \in 1 .. Len(mid) : all[k] = mid[k]
  BY ONLY <1>5, <1>6, <1>7, pad \in Nat, NatJoin
<1>9. rest \in Seq(Nat) /\ (n < left => n = b - saved /\ rest = <<>>)
  <2>1. n < Len(p) => SubSeq(p, n + 1, Len(p)) \in Seq(Nat)
    BY ONLY <1>1, <1>3, NatRest
  <2>2. rest \in Seq(Nat)
    BY <2>1, <1>22
  <2> QED BY <1>1, <1>3, <1>22, <2>2
<1>10. ASSUME had = Song!Bytes(0, saved)
       PROVE  Len(mid) = saved + n /\ \A k \in 1 .. saved + n : mid[k] = k
  <2>1. Len(had) = saved
    BY <1>10, SongBytes
  <2>2. \A k \in 1 .. saved : had[k] = k
    BY <1>10 DEF Song!Bytes
  <2>3. ASSUME NEW k \in 1 .. saved + n PROVE mid[k] = k
    <3>1. CASE k <= saved
      BY <1>3, <1>6, <2>1, <2>2, <2>3, <3>1
    <3>2. CASE k > saved
      <4>1. k - saved \in 1 .. n /\ saved + (k - saved) = k
        BY <1>3, <2>3, <3>2
      <4> QED BY <1>4, <1>6, <2>1, <4>1
    <3> QED BY <2>3, <3>1, <3>2
  <2> QED BY <1>6, <2>1, <2>3
<1>11. ASSUME had = Song!Bytes(0, saved), pad = 0 PROVE all = Song!Bytes(0, saved + n)
  <2>1. Len(mid) = saved + n /\ \A k \in 1 .. saved + n : mid[k] = k
    BY <1>10, <1>11
  <2>2. Len(all) = saved + n
    BY <1>3, <1>8, <1>11, <2>1
  <2>3. \A k \in 1 .. saved + n : all[k] = k
    BY <1>8, <2>1
  <2>4. saved + n \in Nat
    BY <1>3
  <2> QED BY ONLY <1>8, <2>2, <2>3, <2>4, FirstBytesAre
<1>12. ASSUME had = Song!Bytes(0, saved), n = left PROVE SubSeq(all, 1, SongHeader) = Song!Bytes(0, SongHeader)
  <2>0. Len(mid) = saved + n /\ \A k \in 1 .. saved + n : mid[k] = k
    BY <1>10, <1>12
  <2>4. saved + n = SongHeader
    BY <1>12
  <2>1. SongHeader <= Len(all) /\ \A k \in 1 .. SongHeader : all[k] = k
    <3>1. Len(mid) = SongHeader /\ Len(all) = Len(mid) + pad
      BY <1>8, <2>0, <2>4
    <3>2. \A k \in 1 .. SongHeader : all[k] = mid[k] /\ mid[k] = k
      BY <1>8, <2>0, <2>4, <3>1
    <3>3. SongHeader <= Len(all)
      BY ONLY <3>1, SongNumbers, pad \in Nat
    <3>4. \A k \in 1 .. SongHeader : all[k] = k
      BY <3>2
    <3> QED BY <3>3, <3>4
  <2> DEFINE t == SubSeq(all, 1, SongHeader)
  <2>2. t \in Seq(Nat) /\ Len(t) = SongHeader /\ \A k \in 1 .. SongHeader : t[k] = k
    BY ONLY SongNumbers, <1>8, <2>1
  <2> HIDE DEF t
  <2>3. t = Song!Bytes(0, SongHeader)
    BY <2>2, FirstBytesAre
  <2> QED BY <2>3 DEF t
<1>13. ASSUME n = left, NEW a \in SongHeader .. b PROVE Song!EndsWith(rest, a, b)
  <2>1. saved + n = SongHeader
    BY <1>13
  <2>2. CASE n < Len(p)
    <3> DEFINE t == SubSeq(p, n + 1, Len(p))
    <3>1. Len(t) = b - SongHeader /\ \A k \in 1 .. b - SongHeader : t[k] = p[n + k]
      BY ONLY SongNumbers, <1>1, <1>3, <2>1, <2>2, saved \in Nat, b \in Nat
    <3>2. t = rest
      BY <2>2, <1>22
    <3> HIDE DEF t
    <3>3. Len(t) >= b - a
      BY <3>1, <1>13
    <3>4. ASSUME NEW k \in a + 1 .. b PROVE t[Len(t) - b + k] = k
      <4>1. k - SongHeader \in 1 .. b - SongHeader /\ Len(t) - b + k = k - SongHeader /\ n + (k - SongHeader) \in 1 .. b - saved
            /\ saved + (n + (k - SongHeader)) = k
        BY <1>13, <2>1, <3>1, <3>4
      <4> QED BY <1>2, <3>1, <4>1
    <3> QED BY <3>2, <3>3, <3>4 DEF Song!EndsWith
  <2>3. CASE n = Len(p)
    <3>1. b = SongHeader /\ a = b /\ rest = <<>>
      BY <1>1, <1>22, <2>1, <2>3, <1>13
    <3>2. a \in Nat /\ Len(rest) = 0
      BY <3>1, <1>13
    <3>3. b - a = 0 /\ \A k : k \notin a + 1 .. b
      BY <3>1, <3>2
    <3> QED BY ONLY <3>2, <3>3 DEF Song!EndsWith
  <2> QED BY <1>1, <1>3, <2>2, <2>3
<1>14. n = left => HeldFrom(rest, b)
  BY <1>13 DEF HeldFrom
<1> QED BY <1>1, <1>3, <1>8, <1>9, <1>11, <1>12, <1>14

\* What HeaderSave makes of the song: a piece of the header is behind what is
\* there, and what is behind the header waits.
HeaderSaved(o, b, q) ==
  /\ q \in [pos : {b}, left : 0 .. SongHeader, saved : 0 .. SongHeader, buffer : Seq(Nat),
             data : Seq(Nat), parsed : {FALSE}, sample : {1}]
  /\ q.saved = SongHeader - q.left
  /\ q.left > 0 => q.saved = b /\ q.data = <<>>
  /\ q.left > 0 /\ ~s8 /\ ~Song!Gap(o, b - o.pos) => q.buffer = Song!Bytes(0, q.saved)
  /\ q.left = 0 /\ ~s8 => Song!Readable(q)
  /\ q.left = 0 => HeldFrom(q.data, b) /\ b >= SongHeader

\* HeaderSave keeps the bytes of the header in order, with no gap but one that
\* short tells of.
LEMMA HeaderIsSaved ==
  ASSUME NEW o, Song!SongHolds(o), o.left > 0, NEW b \in Nat, o.pos <= b, b <= FileLen
  PROVE  HeaderSaved(o, b, Song!HeaderSave(Song!At(o, b), Song!Bytes(o.pos, b)))
<1> DEFINE q == Song!HeaderSave(Song!At(o, b), Song!Bytes(o.pos, b))
           saved == o.saved
           left == o.left
           p == Song!Bytes(saved, b)
           n == Song!Lesser(Len(p), left)
           pad == IF n < MIN_LENGTH THEN MIN_LENGTH - n ELSE 0
           all == o.buffer \o SubSeq(p, 1, n) \o Song!Zeros(pad)
           rest == IF n < Len(p) THEN SubSeq(p, n + 1, Len(p)) ELSE <<>>
<1>1. /\ o \in [pos : 0..FileLen, left : 0..SongHeader, saved : 0..SongHeader, buffer : Seq(Nat),
                data : Seq(Nat), parsed : BOOLEAN, sample : 1..Len(Samples) + 1]
      /\ saved = SongHeader - left /\ o.pos = saved /\ o.data = <<>> /\ o.sample = 1
  BY DEF Song!SongHolds, Song!Count
<1>20. o.parsed \in {FALSE}
  <2>1. o.parsed = (o.left = 0) /\ ~(o.left = 0)
    BY <1>1 DEF Song!SongHolds
  <2> QED BY <2>1
<1>2. ~s8 => o.buffer = Song!Bytes(0, saved)
  BY DEF Song!SongHolds
<1>3. saved \in Nat /\ left \in Nat /\ saved + left = SongHeader /\ saved <= b /\ o.buffer \in Seq(Nat)
  BY <1>1
<1>4. n \in Nat /\ pad \in Nat
  <2>1. Len(p) \in Nat
    BY <1>3, SongBytes
  <2>2. n \in Nat
    BY <1>3, <2>1 DEF Song!Lesser
  <2> HIDE DEF n
  <2> QED BY <2>2
<1>5. /\ n \in Nat /\ n <= left /\ Len(p) = b - saved /\ n <= b - saved
      /\ n < left => n = b - saved /\ rest = <<>>
      /\ all \in Seq(Nat) /\ rest \in Seq(Nat)
      /\ o.buffer = Song!Bytes(0, saved) /\ pad = 0 => all = Song!Bytes(0, saved + n)
      /\ o.buffer = Song!Bytes(0, saved) /\ n = left => SubSeq(all, 1, SongHeader) = Song!Bytes(0, SongHeader)
      /\ n = left => HeldFrom(rest, b)
  <2>1. PiecesAre(saved, left, b, o.buffer, pad)
    <3> HIDE DEF pad, saved, left
    <3> QED BY ONLY <1>3, <1>4, b \in Nat, HeaderPieces
  <2> QED BY ONLY <2>1 DEF PiecesAre
<1>6. /\ q.pos = b /\ q.left = left - n /\ q.saved = saved + n /\ q.parsed = o.parsed /\ q.sample = 1
      /\ q.buffer = all /\ q.data = rest
      /\ q = [pos |-> q.pos, left |-> q.left, saved |-> q.saved, buffer |-> q.buffer,
              data |-> q.data, parsed |-> q.parsed, sample |-> q.sample]
  <2>1. q = Song!HeaderSave(Song!At(o, b), Song!Bytes(o.pos, b))
    OBVIOUS
  <2> HIDE DEF q
  <2> QED BY <1>1, <2>1 DEF Song!HeaderSave, Song!At
<1> HIDE DEF q
<1>7. ~s8 /\ n < left /\ ~Song!Gap(o, b - o.pos) => pad = 0
  BY <1>1, <1>3, <1>5 DEF Song!Gap
<1> HIDE DEF n, pad, all, rest, p, saved, left
<1>8. /\ q.left \in 0 .. SongHeader /\ q.saved \in 0 .. SongHeader /\ q.saved = SongHeader - q.left
      /\ q.left > 0 <=> n < left
      /\ q.left = 0 <=> n = left
  <2>1. q.left = left - n /\ q.saved = saved + n
    BY <1>6
  <2>2. n \in Nat /\ n <= left /\ saved \in Nat /\ left \in Nat /\ saved + left = SongHeader
    BY <1>3, <1>5
  <2> QED BY ONLY <2>1, <2>2, SongNumbers
<1>9. q.left > 0 => q.saved = b /\ q.data = <<>>
  BY ONLY <1>3, <1>5, <1>6, <1>8, b \in Nat
<1>10. q \in [pos : {b}, left : 0 .. SongHeader, saved : 0 .. SongHeader, buffer : Seq(Nat),
              data : Seq(Nat), parsed : {FALSE}, sample : {1}]
  BY ONLY <1>1, <1>5, <1>6, <1>8, <1>20
<1>11. q.left > 0 /\ ~s8 /\ ~Song!Gap(o, b - o.pos) => q.buffer = Song!Bytes(0, q.saved)
  BY <1>2, <1>5, <1>6, <1>7, <1>8
<1>12. q.left = 0 /\ ~s8 => Song!Readable(q)
  BY <1>2, <1>5, <1>6, <1>8 DEF Song!Readable
<1>13. q.left = 0 => HeldFrom(q.data, b)
  BY ONLY <1>5, <1>6, <1>8
<1>14. q.left = 0 => b >= SongHeader
  BY ONLY <1>3, <1>5, <1>8, b \in Nat, SongNumbers
<1>15. HeaderSaved(o, b, q)
  BY <1>8, <1>9, <1>10, <1>11, <1>12, <1>13, <1>14 DEF HeaderSaved
<1> QED BY <1>15 DEF q

\* The bytes behind the song's place are in what was kept and the piece.
LEMMA HadHolds ==
  ASSUME NEW from \in Nat, NEW pos \in Nat, NEW b \in Nat, pos <= b, NEW data \in Seq(Nat),
         from < pos => Song!EndsWith(data, from, pos)
  PROVE  LET had == data \o Song!Bytes(pos, b)
         IN  /\ had \in Seq(Nat) /\ Len(had) = Len(data) + b - pos
             /\ from <= b => Len(had) - b + from >= 0
             /\ \A k \in from + 1 .. b : had[Len(had) - b + k] = k
<1> DEFINE p == Song!Bytes(pos, b)
           had == data \o p
<1>1. p \in Seq(Nat) /\ Len(p) = b - pos
  BY SongBytes
<1>2. \A k \in 1 .. b - pos : p[k] = pos + k
  BY SongByte
<1> HIDE DEF p
<1>3. /\ had \in Seq(Nat) /\ Len(had) = Len(data) + Len(p)
      /\ \A k \in 1 .. Len(data) : had[k] = data[k]
      /\ \A k \in 1 .. Len(p) : had[Len(data) + k] = p[k]
  BY ONLY <1>1, data \in Seq(Nat), NatJoin
<1> HIDE DEF had
<1>4. Len(data) \in Nat
  OBVIOUS
<1>5. Len(had) = Len(data) + b - pos
  BY <1>1, <1>3, <1>4
<1>6. from <= b => Len(had) - b + from >= 0
  <2>1. CASE from < pos
    <3>1. Len(data) >= pos - from
      BY <2>1 DEF Song!EndsWith
    <3> QED BY <1>4, <1>5, <3>1
  <2>2. CASE ~(from < pos)
    BY <1>4, <1>5, <2>2
  <2> QED BY <2>1, <2>2
<1>7. ASSUME NEW k \in from + 1 .. b PROVE had[Len(had) - b + k] = k
  <2>1. Len(had) - b + k = Len(data) - pos + k
    BY <1>4, <1>5
  <2>2. CASE k > pos
    <3>1. k - pos \in 1 .. Len(p) /\ Len(data) + (k - pos) = Len(data) - pos + k /\ pos + (k - pos) = k
          /\ k - pos \in 1 .. b - pos
      BY <1>1, <1>4, <2>2
    <3> QED BY <1>2, <1>3, <2>1, <3>1
  <2>3. CASE k <= pos
    <3>1. from < pos /\ k \in from + 1 .. pos
      BY <2>3
    <3>2. Len(data) >= pos - from /\ data[Len(data) - pos + k] = k
      BY <3>1 DEF Song!EndsWith
    <3>3. Len(data) - pos + k \in 1 .. Len(data)
      BY <1>4, <3>1, <3>2
    <3> QED BY <1>3, <2>1, <3>2, <3>3
  <2> QED BY <2>2, <2>3
<1> QED BY <1>3, <1>5, <1>6, <1>7 DEF had, p

\* The bytes of the file behind one place are the last ones, up to another.
HoldsBytes(had, from, b) ==
  Len(had) - b + from >= 0 /\ \A k \in from + 1 .. b : had[Len(had) - b + k] = k

\* A sample, cut out of what the song has.
LEMMA CutIsWhole ==
  ASSUME NEW had \in Seq(Nat), NEW b \in Nat, NEW from \in Nat, NEW i \in DOMAIN Samples,
         NEW o, o.pos = b, HoldsBytes(had, from, b),
         from <= Samples[i].offset, Samples[i].offset + Samples[i].size <= b
  PROVE  /\ Song!Cut(had, o, i) \in Seq(Nat)
         /\ Song!Cut(had, o, i) = Song!Bytes(Samples[i].offset, Samples[i].offset + Samples[i].size)
<1> DEFINE a == Samples[i].offset
           n == Samples[i].size
           s == [k \in 1 .. n |-> a + k]
           t == Song!Cut(had, o, i)
           l == Len(had)
<1>1. a \in Nat /\ n \in Nat
  BY SongSamples
<1>2. l \in Nat
  OBVIOUS
<1>3. t = [k \in 1 .. n |-> IF l - b + a + k \in 1 .. l THEN had[l - b + a + k] ELSE 0]
  BY DEF Song!Cut
<1>4. Song!Bytes(a, a + n) = [k \in 1 .. a + n - a |-> a + k] /\ a + n - a = n
  BY <1>1 DEF Song!Bytes
<1>5. from <= a /\ a + n <= b /\ l - b + from >= 0
  BY DEF HoldsBytes
<1>6. \A k \in from + 1 .. b : had[l - b + k] = k
  BY DEF HoldsBytes
<1> HIDE DEF a, n, l, t
<1>7. ASSUME NEW k \in 1 .. n PROVE l - b + a + k \in 1 .. l /\ had[l - b + a + k] = a + k
  <2>1. a + k \in from + 1 .. b /\ l - b + (a + k) = l - b + a + k /\ l - b + a + k \in 1 .. l
    BY ONLY <1>1, <1>2, <1>5, k \in 1 .. n, from \in Nat, b \in Nat
  <2> QED BY ONLY <1>6, <2>1
<1>8. t = s
  BY <1>3, <1>7
<1>9. s \in Seq(Nat)
  BY <1>1
<1> QED BY <1>4, <1>8, <1>9 DEF a, n, t

\* Of the song after a piece of it, without its bytes.
LEMMA NextOfSong ==
  ASSUME NEW o, o.sample \in 1 .. Len(Samples) + 1
  PROVE  /\ Song!NextSample(o) \in o.sample .. Len(Samples) + 1
         /\ Song!NextSample(o) <= Len(Samples) =>
              Samples[Song!NextSample(o)].offset + Samples[Song!NextSample(o)].size > o.pos
         /\ \A i \in o.sample .. Song!NextSample(o) - 1 :
              i \in 1 .. Len(Samples) /\ ~(Samples[i].offset + Samples[i].size > o.pos)
<1> DEFINE T == Song!Unplayed(o)
           first == o.sample
           m == Song!NextSample(o)
           late(i) == Samples[i].offset + Samples[i].size > o.pos
<1>1. Len(Samples) \in Nat /\ first \in Nat
  BY SongAssumption
<1>2. T = {i \in first .. Len(Samples) : late(i)}
  BY DEF Song!Unplayed, Song!Count
<1>3. m = IF T = {} THEN Len(Samples) + 1 ELSE Song!Min(T)
  BY DEF Song!NextSample, Song!Count
<1>4. first \in 1 .. Len(Samples) + 1
  OBVIOUS
<1> HIDE DEF T, first, m, late
<1>5. T \subseteq Nat
  BY <1>1, <1>2
<1>6. CASE T = {}
  <2>1. m = Len(Samples) + 1 /\ \A i \in first .. m - 1 : i \in 1 .. Len(Samples) /\ i \in first .. Len(Samples)
    BY <1>1, <1>3, <1>4, <1>6
  <2>2. \A i \in first .. m - 1 : i \in 1 .. Len(Samples) /\ ~late(i)
    BY <1>2, <1>6, <2>1
  <2>3. m \in first .. Len(Samples) + 1 /\ ~(m <= Len(Samples))
    BY <1>1, <1>4, <2>1
  <2> QED BY <2>2, <2>3 DEF first, m, late
<1>7. CASE T # {}
  <2>1. m \in T /\ \A n \in T : m <= n
    BY <1>3, <1>5, <1>7, SongMin
  <2>2. m \in first .. Len(Samples) /\ late(m)
    BY <1>2, <2>1
  <2>3. ASSUME NEW i \in first .. m - 1 PROVE i \in 1 .. Len(Samples) /\ ~late(i)
    <3>1. i \in first .. Len(Samples) /\ i \in 1 .. Len(Samples) /\ ~(m <= i)
      BY <1>1, <1>4, <2>2
    <3>2. i \notin T
      BY <2>1, <3>1
    <3> QED BY <1>2, <3>1, <3>2
  <2>4. m \in first .. Len(Samples) + 1
    BY <1>1, <1>4, <2>2
  <2> QED BY <2>2, <2>3, <2>4 DEF first, m, late
<1> QED BY <1>6, <1>7

\* What m4a_frame_to_codec gives out: the samples that end in the piece, whole,
\* and the end of the bytes is the beginning of the next one.
FramesCut(o, b, f) ==
  /\ f.song \in [pos : {b}, left : {0}, saved : {SongHeader}, buffer : Seq(Nat),
                  data : Seq(Nat), parsed : {TRUE}, sample : o.sample .. Len(Samples) + 1]
  /\ f.song.sample <= Len(Samples) =>
       /\ Samples[f.song.sample].offset + Samples[f.song.sample].size > b
       /\ Samples[f.song.sample].offset < b =>
            Song!EndsWith(f.song.data, Samples[f.song.sample].offset, b)
  /\ f.out \in Seq(Seq(Nat)) /\ Len(f.out) = f.song.sample - o.sample
  /\ \A k \in 1 .. f.song.sample - o.sample :
       f.out[k] = Song!Bytes(Samples[o.sample + k - 1].offset,
                    Samples[o.sample + k - 1].offset + Samples[o.sample + k - 1].size)

\* FrameToCodec gives every sample out that has come, whole, and keeps the
\* beginning of the next one.
LEMMA FramesAreCut ==
  ASSUME NEW o, Song!SongHolds(o), o.left = 0, NEW b \in Nat, o.pos <= b, b <= FileLen
  PROVE  FramesCut(o, b, Song!FrameToCodec(Song!At(o, b), Song!Bytes(o.pos, b)))
<1> DEFINE f == Song!FrameToCodec(Song!At(o, b), Song!Bytes(o.pos, b))
           r == Song!At(o, b)
           pos == o.pos
           p == Song!Bytes(pos, b)
           had == o.data \o p
           next == Song!NextSample(r)
           first == o.sample
           N == Len(Samples)
           new == [r EXCEPT !.data = had, !.sample = next]
           song == [new EXCEPT !.data = IF Song!Started(new) THEN Song!DataKept(new) ELSE <<>>]
           out == [k \in 1 .. next - first |-> Song!Cut(had, r, first + k - 1)]
<1>1. /\ o \in [pos : 0..FileLen, left : 0..SongHeader, saved : 0..SongHeader, buffer : Seq(Nat),
                data : Seq(Nat), parsed : BOOLEAN, sample : 1..N + 1]
      /\ o.saved = SongHeader
      /\ first <= N /\ Samples[first].offset < pos =>
           Song!EndsWith(o.data, Samples[first].offset, pos)
  BY DEF Song!SongHolds, Song!Count
<1>2. o.parsed \in BOOLEAN /\ o.parsed
  <2>1. o.parsed = (o.left = 0)
    BY DEF Song!SongHolds
  <2> QED BY <2>1
<1>3. r.pos = b /\ r.left = 0 /\ r.saved = SongHeader /\ r.buffer = o.buffer /\ r.data = o.data
      /\ r.sample = first /\ r.parsed = o.parsed
      /\ r \in [pos : Nat, left : Nat, saved : Nat, buffer : Seq(Nat),
                data : Seq(Nat), parsed : BOOLEAN, sample : Nat]
  BY <1>1, SMTT(30) DEF Song!At
<1>4. N \in Nat /\ first \in 1 .. N + 1 /\ pos \in Nat /\ o.data \in Seq(Nat) /\ o.buffer \in Seq(Nat)
  BY <1>1, SongAssumption
<1>5. /\ next \in first .. N + 1
      /\ next <= N => Samples[next].offset + Samples[next].size > b
      /\ \A i \in first .. next - 1 : i \in 1 .. N /\ ~(Samples[i].offset + Samples[i].size > b)
  <2>1. r.sample \in 1 .. Len(Samples) + 1 /\ r.sample = first /\ r.pos = b
    BY <1>3, <1>4
  <2> HIDE DEF r, first
  <2>2. /\ Song!NextSample(r) \in r.sample .. Len(Samples) + 1
        /\ Song!NextSample(r) <= Len(Samples) =>
             Samples[Song!NextSample(r)].offset + Samples[Song!NextSample(r)].size > r.pos
        /\ \A i \in r.sample .. Song!NextSample(r) - 1 :
             i \in 1 .. Len(Samples) /\ ~(Samples[i].offset + Samples[i].size > r.pos)
    BY ONLY <2>1, NextOfSong
  <2> QED BY ONLY <2>1, <2>2 DEF next
<1>6. f.song = song /\ f.out = out
  BY <1>2, <1>3 DEF Song!FrameToCodec
<1>7. /\ song.pos = b /\ song.left = 0 /\ song.saved = SongHeader /\ song.buffer = o.buffer
      /\ song.data = IF Song!Started(new) THEN Song!DataKept(new) ELSE <<>>
      /\ song.parsed = o.parsed /\ song.sample = next
      /\ song = [pos |-> song.pos, left |-> song.left, saved |-> song.saved, buffer |-> song.buffer,
                 data |-> song.data, parsed |-> song.parsed, sample |-> song.sample]
      /\ new.pos = b /\ new.data = had /\ new.sample = next
  <2> HIDE DEF r, had, next, new
  <2>1. /\ new.pos = b /\ new.left = 0 /\ new.saved = SongHeader /\ new.buffer = o.buffer
        /\ new.data = had /\ new.parsed = o.parsed /\ new.sample = next
        /\ new = [pos |-> new.pos, left |-> new.left, saved |-> new.saved, buffer |-> new.buffer,
                  data |-> new.data, parsed |-> new.parsed, sample |-> new.sample]
    <3>1. r = [pos |-> b, left |-> 0, saved |-> SongHeader, buffer |-> o.buffer,
               data |-> o.data, parsed |-> o.parsed, sample |-> first]
      BY ONLY <1>3
    <3> HIDE DEF first, pos, p, N, out, song
    <3>2. r.data \in Seq(Nat) /\ r \in [pos : Nat, left : Nat, saved : Nat, buffer : Seq(Nat),
                data : Seq(Nat), parsed : BOOLEAN, sample : Nat]
      BY <1>3, <1>4
    <3> DEFINE half == [r EXCEPT !.data = had]
    <3>3. half = [pos |-> b, left |-> 0, saved |-> SongHeader, buffer |-> o.buffer,
                 data |-> had, parsed |-> o.parsed, sample |-> first]
      BY ONLY <3>1
    <3>4. new = [half EXCEPT !.sample = next]
      BY DEF new
    <3> HIDE DEF half, new
    <3>5. new = [pos |-> b, left |-> 0, saved |-> SongHeader, buffer |-> o.buffer,
                 data |-> had, parsed |-> o.parsed, sample |-> next]
      BY ONLY <3>3, <3>4
    <3> QED BY ONLY <3>5
  <2> QED BY ONLY <2>1 DEF song
<1>8. next <= N /\ Song!Started(new) <=> next <= N /\ Samples[next].offset < b
  BY <1>7 DEF Song!Started, Song!Count
<1>9. out = [k \in 1 .. next - first |-> Song!Cut(had, r, first + k - 1)]
  OBVIOUS
<1>10. Song!Started(new) => next <= N /\ Song!DataKept(new) = SubSeq(had, Len(had) - (b - Samples[next].offset) + 1, Len(had))
  BY <1>7 DEF Song!Started, Song!DataKept, Song!Count
<1>11. /\ had \in Seq(Nat)
       /\ \A i \in first .. next - 1 : first <= N
  <2>1. p \in Seq(Nat)
    BY <1>4, SongBytes
  <2> HIDE DEF p, next, first
  <2>2. had \in Seq(Nat)
    BY <1>4, <2>1
  <2>3. \A i \in first .. next - 1 : first <= N
    BY <1>4, <1>5
  <2> QED BY <2>2, <2>3
<1>12. ASSUME first <= N
       PROVE  /\ Len(had) - b + Samples[first].offset >= 0 \/ Samples[first].offset > b
              /\ \A k \in Samples[first].offset + 1 .. b : had[Len(had) - b + k] = k
  <2>1. Samples[first].offset \in Nat
    <3>1. first \in DOMAIN Samples
      BY <1>4, <1>12
    <3> HIDE DEF first
    <3> QED BY <3>1, SongSamples
  <2> DEFINE from == Samples[first].offset
  <2>2. from \in Nat /\ (from < pos => Song!EndsWith(o.data, from, pos))
    BY <1>1, <1>12, <2>1
  <2>3. /\ from <= b => Len(had) - b + from >= 0
        /\ \A k \in from + 1 .. b : had[Len(had) - b + k] = k
    <3> HIDE DEF from, first
    <3>1. pos \in Nat /\ b \in Nat /\ pos <= b /\ o.data \in Seq(Nat) /\ from \in Nat
      BY <1>4, <2>2
    <3> HIDE DEF pos
    <3> QED BY ONLY <2>2, <3>1, HadHolds
  <2>4. from <= b \/ from > b
    BY <2>1
  <2> QED BY <2>3, <2>4
<1> HIDE DEF had, next, first, N, pos, r, p, song, out, new
<1>13. DOMAIN Samples = 1 .. N /\ r.pos = b
  BY <1>3, <1>4, SongAssumption DEF N
<1>14. ASSUME NEW i \in first .. next - 1
       PROVE  /\ Song!Cut(had, r, i) \in Seq(Nat)
              /\ Song!Cut(had, r, i) = Song!Bytes(Samples[i].offset, Samples[i].offset + Samples[i].size)
  <2>1. i \in DOMAIN Samples /\ first \in DOMAIN Samples /\ first <= N
    BY <1>4, <1>5, <1>13
  <2>2. ~(Samples[i].offset + Samples[i].size > b)
    BY <1>5
  <2>3. /\ Samples[i].offset \in Nat /\ Samples[i].size \in Nat
        /\ Samples[first].offset \in Nat /\ Samples[first].size \in Nat
        /\ first < i => Samples[first].offset + Samples[first].size <= Samples[i].offset
    BY <2>1, SongSamples
  <2>4. first = i \/ first < i
    BY <1>4, <1>5
  <2>5. Samples[i].offset + Samples[i].size <= b /\ Samples[first].offset <= Samples[i].offset
        /\ ~(Samples[first].offset > b)
    BY <2>2, <2>3, <2>4
  <2>6. Len(had) - b + Samples[first].offset >= 0
    BY <1>12, <2>1, <2>5
  <2>7. \A k \in Samples[first].offset + 1 .. b : had[Len(had) - b + k] = k
    BY <1>12, <2>1
  <2> DEFINE from == Samples[first].offset
  <2>8. from \in Nat /\ from <= Samples[i].offset /\ Len(had) - b + from >= 0
        /\ \A k \in from + 1 .. b : had[Len(had) - b + k] = k
    BY <2>3, <2>5, <2>6, <2>7
  <2> HIDE DEF from
  <2>9. had \in Seq(Nat) /\ Samples[i].offset + Samples[i].size <= b /\ i \in DOMAIN Samples /\ r.pos = b
    BY <1>11, <1>13, <2>1, <2>5
  <2>10. HoldsBytes(had, from, b)
    BY <2>8 DEF HoldsBytes
  <2> QED BY ONLY <2>8, <2>9, <2>10, b \in Nat, CutIsWhole
<1>15. out \in Seq(Seq(Nat)) /\ Len(out) = next - first
       /\ \A k \in 1 .. next - first : out[k] = Song!Cut(had, r, first + k - 1)
  <2>1. next - first \in Nat /\ \A k \in 1 .. next - first : first + k - 1 \in first .. next - 1
    BY <1>4, <1>5
  <2>2. \A k \in 1 .. next - first : Song!Cut(had, r, first + k - 1) \in Seq(Nat)
    BY <1>14, <2>1
  <2>3. out \in [1 .. next - first -> Seq(Nat)]
    BY ONLY <1>9, <2>2
  <2>4. out \in Seq(Seq(Nat))
    BY ONLY <2>1, <2>3
  <2> QED BY ONLY <1>9, <2>1, <2>4
<1>16. \A k \in 1 .. next - first :
         out[k] = Song!Bytes(Samples[first + k - 1].offset, Samples[first + k - 1].offset + Samples[first + k - 1].size)
  <2> TAKE k \in 1 .. next - first
  <2>1. first + k - 1 \in first .. next - 1
    BY <1>4, <1>5
  <2> QED BY <1>14, <1>15, <2>1
<1>17. ASSUME next <= N, Samples[next].offset < b
       PROVE  Song!DataKept(new) \in Seq(Nat) /\ Song!EndsWith(Song!DataKept(new), Samples[next].offset, b)
  <2> DEFINE a == Samples[next].offset
             l == Len(had)
             kept == Song!DataKept(new)
  <2>1. Song!Started(new) /\ next \in DOMAIN Samples /\ first \in DOMAIN Samples /\ first <= N
    BY <1>4, <1>5, <1>8, <1>13, <1>17
  <2>2. /\ a \in Nat /\ Samples[first].offset \in Nat /\ Samples[first].size \in Nat
        /\ first < next => Samples[first].offset + Samples[first].size <= a
    BY <2>1, SongSamples
  <2>3. Samples[first].offset <= a
    <3>1. first = next \/ first < next
      BY <1>4, <1>5
    <3> QED BY <2>2, <3>1
  <2>4. a < b /\ ~(Samples[first].offset > b)
    BY <1>17, <2>2, <2>3
  <2>5. l - b + Samples[first].offset >= 0 /\ \A k \in Samples[first].offset + 1 .. b : had[l - b + k] = k
    BY <1>12, <2>1, <2>4
  <2>6. kept = SubSeq(had, l - (b - a) + 1, l)
    BY <1>10, <2>1
  <2>7. l \in Nat
    BY <1>11
  <2> HIDE DEF a, l, kept
  <2>8. l - (b - a) \in Nat /\ l - (b - a) <= l /\ l - (l - (b - a)) = b - a
    BY ONLY <2>2, <2>3, <2>4, <2>5, <2>7, b \in Nat
  <2>9. /\ kept \in Seq(Nat) /\ Len(kept) = l - (l - (b - a))
        /\ \A k \in 1 .. l - (l - (b - a)) : kept[k] = had[l - (b - a) + k]
    <3> DEFINE n == l - (b - a)
    <3>1. n \in Nat /\ n <= Len(had) /\ kept = SubSeq(had, n + 1, Len(had)) /\ l = Len(had)
      BY <2>6, <2>8 DEF l
    <3> HIDE DEF n
    <3>2. kept \in Seq(Nat) /\ Len(kept) = l - n /\ \A k \in 1 .. l - n : kept[k] = had[n + k]
      BY ONLY <1>11, <3>1, NatRest
    <3> QED BY <3>2 DEF n
  <2>10. ASSUME NEW k \in a + 1 .. b PROVE kept[Len(kept) - b + k] = k
    <3>1. Len(kept) - b + k = k - a /\ k - a \in 1 .. b - a /\ l - (b - a) + (k - a) = l - b + k
          /\ k \in Samples[first].offset + 1 .. b
      BY ONLY <2>2, <2>3, <2>4, <2>7, <2>8, <2>9, b \in Nat, k \in a + 1 .. b
    <3>2. kept[k - a] = had[l - (b - a) + (k - a)]
      BY <2>8, <2>9, <3>1
    <3> QED BY <2>5, <3>1, <3>2
  <2>11. Len(kept) >= b - a
    BY ONLY <2>8, <2>9
  <2>12. Song!EndsWith(kept, a, b)
    BY ONLY <2>10, <2>11 DEF Song!EndsWith
  <2> QED BY <2>9, <2>12 DEF a, kept
<1>18. song.data \in Seq(Nat)
       /\ (next <= N /\ Samples[next].offset < b => Song!EndsWith(song.data, Samples[next].offset, b))
  <2>1. CASE Song!Started(new)
    <3>1. next <= N /\ Samples[next].offset < b
      BY <1>8, <1>10, <2>1
    <3> QED BY <1>7, <1>17, <2>1, <3>1
  <2>2. CASE ~Song!Started(new)
    <3>1. song.data = <<>> /\ ~(next <= N /\ Samples[next].offset < b)
      BY <1>7, <1>8, <2>2
    <3> QED BY <3>1
  <2> QED BY <2>1, <2>2
<1>19. song \in [pos : {b}, left : {0}, saved : {SongHeader}, buffer : Seq(Nat),
                 data : Seq(Nat), parsed : {TRUE}, sample : first .. N + 1]
  <2>1. song.parsed \in {TRUE}
    BY <1>2, <1>7
  <2> QED BY ONLY <1>4, <1>5, <1>7, <1>18, <2>1
<1> HIDE DEF f
<1>20. FramesCut(o, b, f)
  BY <1>5, <1>6, <1>7, <1>15, <1>16, <1>18, <1>19 DEF first, N, FramesCut
<1> QED BY <1>20 DEF f

\* What a piece leaves: the song that goes on, or one that fails with a gap.
Given ==
  /\ s3' \in {"PLAYING", "failed"} /\ s6' \in Seq(Seq(Nat)) /\ Song!WholeSamples'
  /\ s3' = "PLAYING" => Song!SongHolds(s1)' /\ Song!CodecHas(s1)'
  /\ s3' = "failed" => s8' /\ s1' = Song!NoSong

\* The samples that went to the codec before and those that come now.
LEMMA SamplesGrow ==
  ASSUME Song!WholeSamples, s6 \in Seq(Seq(Nat)), s7' = s7, s7 \in Nat,
         NEW out \in Seq(Seq(Nat)), s6' = s6 \o out,
         NEW first, first = s7 + Len(s6),
         \A k \in 1 .. Len(out) :
           out[k] = Song!Bytes(Samples[first + k - 1].offset,
                      Samples[first + k - 1].offset + Samples[first + k - 1].size)
  PROVE  s6' \in Seq(Seq(Nat)) /\ Len(s6') = Len(s6) + Len(out) /\ Song!WholeSamples'
<1> DEFINE good(c, k, i) == c[k] = Song!Bytes(Samples[i].offset, Samples[i].offset + Samples[i].size)
<1>1. Len(s6) \in Nat /\ Len(out) \in Nat /\ DOMAIN s6 = 1 .. Len(s6)
  OBVIOUS
<1>2. \A k \in 1 .. Len(s6) : good(s6, k, s7 + k - 1)
  BY <1>1 DEF Song!WholeSamples
<1>3. /\ s6' \in Seq(Seq(Nat)) /\ Len(s6') = Len(s6) + Len(out)
      /\ \A k \in 1 .. Len(s6) : s6'[k] = s6[k]
      /\ \A k \in 1 .. Len(out) : s6'[Len(s6) + k] = out[k]
  <2>1. s6 \o out \in Seq(Seq(Nat)) /\ Len(s6 \o out) = Len(s6) + Len(out)
    OBVIOUS
  <2>2. \A k \in 1 .. Len(s6) : (s6 \o out)[k] = s6[k]
    OBVIOUS
  <2>3. \A k \in 1 .. Len(out) : (s6 \o out)[Len(s6) + k] = out[k]
    OBVIOUS
  <2> QED BY <2>1, <2>2, <2>3
<1>4. \A k \in 1 .. Len(out) : good(out, k, first + k - 1)
  OBVIOUS
<1>5. ASSUME NEW k \in 1 .. Len(s6) + Len(out) PROVE good(s6', k, s7 + k - 1)
  <2>1. CASE k <= Len(s6)
    <3>1. k \in 1 .. Len(s6)
      BY <1>1, <1>5, <2>1
    <3> QED BY <1>2, <1>3, <3>1
  <2>2. CASE k > Len(s6)
    <3>1. k - Len(s6) \in 1 .. Len(out) /\ Len(s6) + (k - Len(s6)) = k
          /\ first + (k - Len(s6)) - 1 = s7 + k - 1
      <4>1. first = s7 + Len(s6) /\ s7 \in Nat
        OBVIOUS
      <4> QED BY ONLY <1>1, <1>5, <2>2, <4>1
    <3>2. s6'[k] = out[k - Len(s6)] /\ good(out, k - Len(s6), s7 + k - 1)
      BY <1>3, <1>4, <3>1
    <3> QED BY <3>2
  <2> QED BY <1>1, <1>5, <2>1, <2>2
<1>6. DOMAIN s6' = 1 .. Len(s6) + Len(out)
  BY <1>3
<1>7. Song!WholeSamples'
  BY <1>5, <1>6 DEF Song!WholeSamples
<1> QED BY <1>3, <1>7

\* A piece while the header is collected.
LEMMA HeaderGiven ==
  ASSUME NEW o, Song!SongHolds(o), Song!CodecHas(o), o.left > 0, Song!WholeSamples,
         s6 \in Seq(Seq(Nat)), s7 \in Nat, s7' = s7,
         NEW b \in Nat, o.pos <= b, b <= FileLen, s4' = b,
         s8' = (s8 \/ Song!Gap(o, b - o.pos)),
         Song!Give(Song!At(o, b), Song!Bytes(o.pos, b))
  PROVE  Given
<1> DEFINE q == Song!HeaderSave(Song!At(o, b), Song!Bytes(o.pos, b))
           N == Len(Samples)
<1>1. /\ q \in [pos : {b}, left : 0 .. SongHeader, saved : 0 .. SongHeader, buffer : Seq(Nat),
                 data : Seq(Nat), parsed : {FALSE}, sample : {1}]
      /\ q.saved = SongHeader - q.left
      /\ q.left > 0 => q.saved = b /\ q.data = <<>>
      /\ q.left > 0 /\ ~s8 /\ ~Song!Gap(o, b - o.pos) => q.buffer = Song!Bytes(0, q.saved)
      /\ q.left = 0 /\ ~s8 => Song!Readable(q)
      /\ q.left = 0 => HeldFrom(q.data, b) /\ b >= SongHeader
  <2>1. HeaderSaved(o, b, q)
    BY ONLY Song!SongHolds(o), o.left > 0, b \in Nat, o.pos <= b, b <= FileLen, HeaderIsSaved
  <2> HIDE DEF q
  <2> QED BY ONLY <2>1 DEF HeaderSaved
<1>2. Song!At(o, b).left = o.left
  <2>1. o \in [pos : 0..FileLen, left : 0..SongHeader, saved : 0..SongHeader, buffer : Seq(Nat),
                data : Seq(Nat), parsed : BOOLEAN, sample : 1..Song!Count + 1]
    BY DEF Song!SongHolds
  <2> QED BY <2>1 DEF Song!At
<1>3. s6 = <<>> /\ s7 = 1 /\ o.sample = 1
  <2>1. s6 = <<>> /\ Len(s6) = o.sample - s7
    BY DEF Song!CodecHas
  <2>2. o.sample = 1
    BY DEF Song!SongHolds
  <2> QED BY <2>1, <2>2
<1>4. s6' = s6
  BY <1>2 DEF Song!Give, Song!Fail
<1>5. s6' \in Seq(Seq(Nat)) /\ Song!WholeSamples'
  BY <1>4 DEF Song!WholeSamples
<1>6. CASE ~Song!Parses(q)
  <2>1. s3' = "failed" /\ s1' = Song!NoSong
    BY <1>2, <1>6 DEF Song!Give, Song!Fail
  <2>2. s8'
    <3>1. q.left = 0 /\ ~Song!Readable(q)
      BY <1>6 DEF Song!Parses
    <3>2. s8 \/ Song!Gap(o, b - o.pos)
      BY <1>1, <3>1
    <3> QED BY <3>2, Zenon
  <2> QED BY <1>5, <2>1, <2>2 DEF Given
<1>7. CASE Song!Parses(q)
  <2>1. s3' = "PLAYING" /\ s1' = Song!HeaderParse(q)
    BY <1>2, <1>7 DEF Song!Give
  <2>2. N \in Nat /\ SongHeader \in Nat /\ FileLen \in Nat
    BY SongAssumption
  <2> HIDE DEF q
  <2>3. CASE q.left > 0
    <3>1. s1' = q
      BY <2>1, <2>3 DEF Song!HeaderParse
    <3>2. q \in [pos : 0..FileLen, left : 0..SongHeader, saved : 0..SongHeader, buffer : Seq(Nat),
                 data : Seq(Nat), parsed : BOOLEAN, sample : 1..N + 1]
      <4>1. b \in 0 .. FileLen /\ 1 \in 1 .. N + 1 /\ FALSE \in BOOLEAN
        BY ONLY <2>2, b \in Nat, b <= FileLen
      <4> HIDE DEF N
      <4> QED BY ONLY <1>1, <4>1
    <3>3. ~s8' => q.buffer = Song!Bytes(0, q.saved)
      <4>1. ~s8' => ~(s8 \/ Song!Gap(o, b - o.pos))
        BY Zenon
      <4> QED BY <1>1, <2>3, <4>1
    <3>4. q.parsed = (q.left = 0)
      <4>1. q.parsed \in {FALSE}
        BY <1>1
      <4>2. ~(q.left = 0)
        BY <1>1, <2>3
      <4> QED BY <4>1, <4>2
    <3>5. q.pos = b /\ q.pos = q.saved /\ q.data = <<>> /\ q.sample = 1 /\ ~(q.left = 0)
      BY <1>1, <2>3
    <3>6. Song!SongHolds(s1)'
      <4>1. q.saved = SongHeader - q.left
        BY <1>1
      <4> QED BY ONLY <3>1, <3>2, <3>3, <3>4, <3>5, <4>1 DEF Song!SongHolds, Song!Count, N
    <3>7. Song!CodecHas(s1)'
      <4>1. s1'.pos = s4' /\ s6' = <<>> /\ s7' = 1 /\ s1'.sample = 1 /\ Len(<<>>) = 1 - 1
        BY <1>3, <1>4, <3>1, <3>5
      <4> QED BY ONLY <4>1 DEF Song!CodecHas
    <3> QED BY <1>5, <2>1, <3>6, <3>7 DEF Given
  <2>4. CASE q.left = 0
    <3>1. s1' = [q EXCEPT !.parsed = TRUE, !.sample = 1]
      <4>1. q.parsed \in {FALSE}
        BY <1>1
      <4>2. ~q.parsed
        BY <4>1
      <4> QED BY <2>1, <2>4, <4>2 DEF Song!HeaderParse
    <3>2. /\ s1' \in [pos : {b}, left : {0}, saved : {SongHeader}, buffer : Seq(Nat),
                      data : Seq(Nat), parsed : {TRUE}, sample : {1}]
          /\ s1'.data = q.data
      <4> DEFINE half == [q EXCEPT !.parsed = TRUE]
      <4>1. /\ half \in [pos : {b}, left : {0}, saved : {SongHeader}, buffer : Seq(Nat),
                        data : Seq(Nat), parsed : {TRUE}, sample : {1}]
            /\ half.data = q.data
        <5>1. q.left \in {0} /\ q.saved \in {SongHeader}
          BY <1>1, <2>2, <2>4
        <5>2. q \in [pos : {b}, left : {0}, saved : {SongHeader}, buffer : Seq(Nat),
                     data : Seq(Nat), parsed : {FALSE}, sample : {1}]
          BY ONLY <1>1, <5>1
        <5> QED BY ONLY <5>2
      <4>2. s1' = [half EXCEPT !.sample = 1]
        BY <3>1
      <4> HIDE DEF half
      <4> QED BY ONLY <4>1, <4>2
    <3>3. s1' \in [pos : 0..FileLen, left : 0..SongHeader, saved : 0..SongHeader, buffer : Seq(Nat),
                   data : Seq(Nat), parsed : BOOLEAN, sample : 1..N + 1]
      <4>1. b \in 0 .. FileLen /\ 0 \in 0 .. SongHeader /\ SongHeader \in 0 .. SongHeader /\ 1 \in 1 .. N + 1 /\ TRUE \in BOOLEAN
        BY ONLY <2>2, b \in Nat, b <= FileLen
      <4> HIDE DEF N
      <4> QED BY ONLY <3>2, <4>1
    <3>4. s1'.parsed = (s1'.left = 0)
      <4>1. s1'.parsed \in {TRUE} /\ s1'.left = 0
        BY <3>2
      <4> QED BY <4>1
    <3>5. s1'.pos = b /\ s1'.left = 0 /\ s1'.saved = SongHeader /\ s1'.sample = 1 /\ ~(s1'.left > 0) /\ b >= SongHeader
          /\ SongHeader = SongHeader - 0
      BY <1>1, <2>2, <2>4, <3>2
    <3>6. 1 <= N /\ Samples[1].offset < b => Song!EndsWith(s1'.data, Samples[1].offset, b)
      <4> SUFFICES ASSUME 1 <= N, Samples[1].offset < b
                   PROVE  Song!EndsWith(q.data, Samples[1].offset, b)
        BY <3>2
      <4>1. 1 \in DOMAIN Samples
        BY <2>2, SongAssumption
      <4>2. Samples[1].offset \in SongHeader .. b
        BY <4>1, SongSamples
      <4> QED BY <1>1, <2>4, <4>2 DEF HeldFrom
    <3>7. Song!SongHolds(s1)'
      BY ONLY <3>3, <3>4, <3>5, <3>6 DEF Song!SongHolds, Song!Count, N
    <3>8. Song!CodecHas(s1)'
      BY ONLY <1>3, <1>4, <3>5, s7' = s7, s4' = b DEF Song!CodecHas
    <3> QED BY <1>5, <2>1, <3>7, <3>8 DEF Given
  <2>5. q.left \in 0 .. SongHeader
    BY <1>1
  <2> QED BY <2>3, <2>4, <2>5
<1> QED BY <1>6, <1>7

\* A piece behind the header.
LEMMA FramesGiven ==
  ASSUME NEW o, Song!SongHolds(o), Song!CodecHas(o), o.left = 0, Song!WholeSamples,
         s6 \in Seq(Seq(Nat)), s7 \in Nat, s7' = s7,
         NEW b \in Nat, o.pos <= b, b <= FileLen,
         NEW f, f = Song!FrameToCodec(Song!At(o, b), Song!Bytes(o.pos, b)), s6' = s6 \o f.out
  PROVE  /\ s6' \in Seq(Seq(Nat)) /\ Song!WholeSamples' /\ Len(s6') = f.song.sample - s7
         /\ f.song.sample <= Len(Samples) => Samples[f.song.sample].offset + Samples[f.song.sample].size > b
         /\ f.song.sample \in 1 .. Len(Samples) + 1
         /\ s1' = f.song /\ s4' = b => Song!SongHolds(s1)' /\ Song!CodecHas(s1)'
<1> DEFINE N == Len(Samples)
           song == f.song
           out == f.out
<1>1. FramesCut(o, b, f)
  BY ONLY Song!SongHolds(o), o.left = 0, b \in Nat, o.pos <= b, b <= FileLen, FramesAreCut,
          f = Song!FrameToCodec(Song!At(o, b), Song!Bytes(o.pos, b))
<1>2. /\ song \in [pos : {b}, left : {0}, saved : {SongHeader}, buffer : Seq(Nat),
                    data : Seq(Nat), parsed : {TRUE}, sample : o.sample .. N + 1]
      /\ song.sample <= N =>
           /\ Samples[song.sample].offset + Samples[song.sample].size > b
           /\ Samples[song.sample].offset < b => Song!EndsWith(song.data, Samples[song.sample].offset, b)
      /\ out \in Seq(Seq(Nat)) /\ Len(out) = song.sample - o.sample
      /\ \A k \in 1 .. song.sample - o.sample :
           out[k] = Song!Bytes(Samples[o.sample + k - 1].offset,
                      Samples[o.sample + k - 1].offset + Samples[o.sample + k - 1].size)
  BY ONLY <1>1 DEF FramesCut
<1>3. /\ o \in [pos : 0..FileLen, left : 0..SongHeader, saved : 0..SongHeader, buffer : Seq(Nat),
                data : Seq(Nat), parsed : BOOLEAN, sample : 1..N + 1]
      /\ o.pos >= SongHeader
  BY DEF Song!SongHolds, Song!Count
<1>4. N \in Nat /\ SongHeader \in Nat /\ FileLen \in Nat
  BY SongAssumption
<1>5. Len(s6) = o.sample - s7 /\ Len(s6) \in Nat
  BY DEF Song!CodecHas
<1>6. s6' = s6 \o out
  OBVIOUS
<1> HIDE DEF song, out, N
<1>7. song.sample \in o.sample .. N + 1 /\ o.sample \in 1 .. N + 1 /\ song.sample \in 1 .. N + 1
  <2>1. song.sample \in o.sample .. N + 1 /\ o.sample \in 1 .. N + 1
    BY <1>2, <1>3
  <2> QED BY ONLY <1>4, <2>1
<1>8. /\ s6' \in Seq(Seq(Nat)) /\ Len(s6') = Len(s6) + Len(out) /\ Song!WholeSamples'
  <2> DEFINE first == o.sample
  <2>1. first = s7 + Len(s6)
    BY ONLY <1>5, <1>7, <1>4, s7 \in Nat
  <2>2. \A k \in 1 .. Len(out) :
          out[k] = Song!Bytes(Samples[first + k - 1].offset,
                      Samples[first + k - 1].offset + Samples[first + k - 1].size)
    BY ONLY <1>2
  <2> HIDE DEF first
  <2>3. out \in Seq(Seq(Nat))
    BY <1>2
  <2> QED BY ONLY Song!WholeSamples, s6 \in Seq(Seq(Nat)), s7' = s7, s7 \in Nat, <1>6, <2>1, <2>2, <2>3,
     SamplesGrow
<1>9. Len(s6') = song.sample - s7
  <2>1. Len(out) = song.sample - o.sample
    BY ONLY <1>2
  <2>2. Len(s6') = Len(s6) + Len(out)
    BY ONLY <1>8
  <2> QED BY ONLY <1>4, <1>5, <1>7, <2>1, <2>2, s7 \in Nat
<1>10. ASSUME s1' = song, s4' = b PROVE Song!SongHolds(s1)' /\ Song!CodecHas(s1)'
  <2>1. song \in [pos : 0..FileLen, left : 0..SongHeader, saved : 0..SongHeader, buffer : Seq(Nat),
                 data : Seq(Nat), parsed : BOOLEAN, sample : 1..N + 1]
    <3>1. b \in 0 .. FileLen /\ 0 \in 0 .. SongHeader /\ SongHeader \in 0 .. SongHeader /\ TRUE \in BOOLEAN
      BY ONLY <1>4, b \in Nat, b <= FileLen
    <3>2. song \in [pos : {b}, left : {0}, saved : {SongHeader}, buffer : Seq(Nat),
                    data : Seq(Nat), parsed : {TRUE}, sample : o.sample .. N + 1]
      BY ONLY <1>2
    <3> QED BY ONLY <1>7, <3>1, <3>2
  <2>2. song.pos = b /\ song.left = 0 /\ song.saved = SongHeader
    BY ONLY <1>2
  <2>3. song.parsed = (song.left = 0)
    <3>1. song.parsed \in {TRUE}
      BY ONLY <1>2
    <3> QED BY ONLY <2>2, <3>1
  <2>4. ~(song.left > 0) /\ b >= SongHeader /\ SongHeader = SongHeader - 0
    BY ONLY <1>3, <1>4, <2>2, b \in Nat, o.pos <= b
  <2>5. Song!SongHolds(s1)'
    BY ONLY <1>2, <1>10, <2>1, <2>2, <2>3, <2>4 DEF Song!SongHolds, Song!Count, N
  <2>6. Song!CodecHas(s1)'
    <3>1. s1'.pos = s4' /\ Len(s6') = s1'.sample - s7' /\ ~(s1'.left > 0)
      BY <1>9, <1>10, <2>2, <2>4
    <3>2. s1'.sample <= N => Samples[s1'.sample].offset + Samples[s1'.sample].size > s4'
      BY ONLY <1>2, <1>10
    <3> QED BY ONLY <3>1, <3>2 DEF Song!CodecHas, Song!Count, N
  <2> QED BY <2>5, <2>6
<1> QED BY <1>2, <1>7, <1>8, <1>9, <1>10 DEF song, N

\* What every piece leaves.
LEMMA PieceGiven ==
  ASSUME NEW o, Song!SongHolds(o), Song!CodecHas(o), Song!WholeSamples,
         s6 \in Seq(Seq(Nat)), s7 \in Nat, s7' = s7,
         NEW b \in Nat, o.pos <= b, b <= FileLen, s4' = b,
         s8' = (s8 \/ Song!Gap(o, b - o.pos)),
         Song!Give(Song!At(o, b), Song!Bytes(o.pos, b))
  PROVE  Given
<1>1. o.left \in 0 .. SongHeader
  <2>1. o \in [pos : 0..FileLen, left : 0..SongHeader, saved : 0..SongHeader, buffer : Seq(Nat),
                data : Seq(Nat), parsed : BOOLEAN, sample : 1..Song!Count + 1]
    BY DEF Song!SongHolds
  <2> QED BY <2>1
<1>2. CASE o.left > 0
  BY <1>2, HeaderGiven
<1>3. CASE o.left = 0
  <2> DEFINE f == Song!FrameToCodec(Song!At(o, b), Song!Bytes(o.pos, b))
  <2>1. Song!At(o, b).left = o.left
    <3>1. o \in [pos : 0..FileLen, left : 0..SongHeader, saved : 0..SongHeader, buffer : Seq(Nat),
                  data : Seq(Nat), parsed : BOOLEAN, sample : 1..Song!Count + 1]
      BY DEF Song!SongHolds
    <3> QED BY <3>1 DEF Song!At
  <2>2. s1' = f.song /\ s6' = s6 \o f.out /\ s3' = "PLAYING"
    BY <1>3, <2>1 DEF Song!Give
  <2>3. f = Song!FrameToCodec(Song!At(o, b), Song!Bytes(o.pos, b))
    OBVIOUS
  <2> HIDE DEF f
  <2>4. /\ s6' \in Seq(Seq(Nat)) /\ Song!WholeSamples'
        /\ s1' = f.song /\ s4' = b => Song!SongHolds(s1)' /\ Song!CodecHas(s1)'
    BY ONLY Song!SongHolds(o), Song!CodecHas(o), <1>3, Song!WholeSamples, s6 \in Seq(Seq(Nat)),
       s7 \in Nat,
            s7' = s7, b \in Nat, o.pos <= b, b <= FileLen, <2>2, <2>3, FramesGiven
  <2> QED BY <2>2, <2>4 DEF Given
<1> QED BY <1>1, <1>2, <1>3

\* The piece that comes next.
LEMMA PieceOfSong ==
  ASSUME s4 \in 0 .. FileLen, NEW n \in Nat
  PROVE  \E b \in Nat :
           /\ Song!Piece(n) = Song!Bytes(s4, b) /\ s4 <= b /\ b <= FileLen
           /\ Len(Song!Piece(n)) = b - s4 /\ (s4 + n >= FileLen => b = FileLen)
           /\ s4 + Len(Song!Piece(n)) = b
<1> DEFINE b == Song!Lesser(s4 + n, FileLen)
<1>1. b \in Nat /\ s4 <= b /\ b <= FileLen /\ (s4 + n >= FileLen => b = FileLen) /\ s4 \in Nat
  BY DEF Song!Lesser
<1>2. Song!Piece(n) = Song!Bytes(s4, b)
  BY DEF Song!Piece
<1> HIDE DEF b
<1>3. Len(Song!Bytes(s4, b)) = b - s4
  BY ONLY <1>1, SongBytes
<1>4. s4 + Len(Song!Piece(n)) = b
  BY <1>1, <1>2, <1>3
<1> QED BY <1>1, <1>2, <1>3, <1>4

\* What a piece leaves is what every step keeps.
LEMMA GivenKeeps ==
  ASSUME Given, s4' \in 0 .. FileLen, s7' \in 1 .. Song!Count + 1, s8' \in BOOLEAN
  PROVE  Song!SongInv'
<1>1. CASE s3' = "PLAYING"
  <2>1. s3' \in {"IDLE", "PLAYING", "ended", "failed"} /\ s3' # "IDLE" /\ s3' # "ended" /\ s3' # "failed"
    BY <1>1
  <2>2. s6' \in Seq(Seq(Nat)) /\ Song!WholeSamples' /\ Song!SongHolds(s1)' /\ Song!CodecHas(s1)'
    BY <1>1 DEF Given
  <2> QED BY <2>1, <2>2 DEF Song!SongInv
<1>2. CASE s3' = "failed"
  <2>1. s3' \in {"IDLE", "PLAYING", "ended", "failed"} /\ s3' # "IDLE" /\ s3' # "ended" /\ s3' # "PLAYING"
    BY <1>2
  <2>2. s6' \in Seq(Seq(Nat)) /\ Song!WholeSamples' /\ s8' /\ s1' = Song!NoSong
    BY <1>2 DEF Given
  <2> QED BY <2>1, <2>2 DEF Song!SongInv
<1> QED BY <1>1, <1>2 DEF Given

\* Here a song ends before its time.
LEMMA FailKeeps ==
  ASSUME Song!SongInv, Song!Fail, s7' = s7, s4' \in 0 .. FileLen, s8' \in BOOLEAN,
         s4' < FIRST_LENGTH \/ s4' = FileLen
  PROVE  Song!SongInv'
<1>1. s3' = "failed" /\ s1' = Song!NoSong /\ s6' = s6
  BY DEF Song!Fail
<1>2. s3' \in {"IDLE", "PLAYING", "ended", "failed"} /\ s3' # "IDLE" /\ s3' # "ended" /\ s3' # "PLAYING"
  BY <1>1
<1>3. s7 \in 1 .. Song!Count + 1 /\ s6 \in Seq(Seq(Nat)) /\ Song!WholeSamples
  BY DEF Song!SongInv
<1>4. Song!WholeSamples'
  BY <1>1, <1>3 DEF Song!WholeSamples
<1> QED BY <1>1, <1>2, <1>3, <1>4 DEF Song!SongInv

\* A song that begins.
LEMMA NewSong ==
  ASSUME NEW o, o = [Song!NoSong EXCEPT !.pos = 0, !.left = SongHeader]
  PROVE  /\ o.pos = 0 /\ o.left = SongHeader /\ Song!SongHolds(o)
         /\ s4 = 0 /\ s6 = <<>> /\ s7 = 1 => Song!CodecHas(o)
<1>1. o = [pos |-> 0, left |-> SongHeader, saved |-> 0, buffer |-> <<>>, data |-> <<>>,
           parsed |-> FALSE, sample |-> 1]
  <2> DEFINE half == [Song!NoSong EXCEPT !.pos = 0]
  <2>1. half = [pos |-> 0, left |-> 0, saved |-> 0, buffer |-> <<>>, data |-> <<>>,
                parsed |-> FALSE, sample |-> 1]
    <3>1. ASSUME NEW m, NEW l, NEW e, NEW f, NEW p,
                 NEW x, x = [pos |-> m, left |-> l, saved |-> l, buffer |-> e, data |-> e,
                             parsed |-> f, sample |-> p]
          PROVE  [x EXCEPT !.pos = 0]
                   = [pos |-> 0, left |-> l, saved |-> l, buffer |-> e, data |-> e,
                      parsed |-> f, sample |-> p]
      BY ONLY <3>1
    <3>2. half = [Song!NoSong EXCEPT !.pos = 0]
      OBVIOUS
    <3> HIDE DEF half
    <3> QED BY <3>1, <3>2 DEF Song!NoSong
  <2>2. o = [half EXCEPT !.left = SongHeader]
    OBVIOUS
  <2> HIDE DEF half
  <2> QED BY ONLY <2>1, <2>2
<1>2. Song!Count \in Nat
  BY SongAssumption DEF Song!Count
<1>3. 0 \in 0 .. FileLen /\ SongHeader \in 0 .. SongHeader /\ 0 \in 0 .. SongHeader /\ <<>> \in Seq(Nat)
      /\ FALSE \in BOOLEAN /\ 1 \in 1 .. Song!Count + 1
  BY <1>2
<1>4. o \in [pos : 0..FileLen, left : 0..SongHeader, saved : 0..SongHeader, buffer : Seq(Nat),
             data : Seq(Nat), parsed : BOOLEAN, sample : 1..Song!Count + 1]
  BY ONLY <1>1, <1>3
<1>5. o.pos = 0 /\ o.left = SongHeader /\ o.saved = 0 /\ o.buffer = <<>> /\ o.data = <<>> /\ o.sample = 1
  BY ONLY <1>1
<1>6. o.parsed = (o.left = 0)
  <2>1. o.parsed \in {FALSE}
    BY ONLY <1>1
  <2>2. ~(o.left = 0)
    BY <1>5
  <2> QED BY <2>1, <2>2
<1>7. <<>> = Song!Bytes(0, 0)
  <2>1. <<>> \in Seq(Nat) /\ Len(<<>>) = 0 /\ \A k \in 1 .. 0 : <<>>[k] = k
    OBVIOUS
  <2> QED BY ONLY <2>1, FirstBytesAre
<1>8. Song!SongHolds(o)
  <2>1. o.saved = SongHeader - o.left /\ o.pos = o.saved /\ ~(o.left = 0) /\ o.buffer = Song!Bytes(0, o.saved)
    BY <1>5, <1>7
  <2> QED BY ONLY <1>4, <1>5, <1>6, <2>1 DEF Song!SongHolds
<1>9. s4 = 0 /\ s6 = <<>> /\ s7 = 1 => Song!CodecHas(o)
  <2>1. Len(<<>>) = 1 - 1
    OBVIOUS
  <2> QED BY ONLY <1>5, <2>1 DEF Song!CodecHas
<1> QED BY <1>5, <1>8, <1>9

\* What SongInv says, by name.
LEMMA SongFacts ==
  ASSUME Song!SongInv
  PROVE  /\ s4 \in 0 .. FileLen /\ s4 \in Nat /\ s7 \in 1 .. Song!Count + 1 /\ s7 \in Nat
         /\ s6 \in Seq(Seq(Nat)) /\ Song!WholeSamples
         /\ s3 = "PLAYING" => Song!SongHolds(s1) /\ Song!CodecHas(s1) /\ s1.pos = s4
         /\ s3 = "IDLE" /\ s4 > 0 => Song!SongHolds(s2) /\ Song!CodecHas(s2) /\ s2.pos = s4
         /\ s3 = "IDLE" /\ s4 = 0 => s6 = <<>> /\ s7 = 1
<1>1. /\ s4 \in 0 .. FileLen /\ s7 \in 1 .. Song!Count + 1
      /\ s6 \in Seq(Seq(Nat)) /\ Song!WholeSamples
      /\ s3 = "PLAYING" => Song!SongHolds(s1) /\ Song!CodecHas(s1)
      /\ s3 = "IDLE" /\ s4 > 0 => Song!SongHolds(s2) /\ Song!CodecHas(s2)
      /\ s3 = "IDLE" /\ s4 = 0 => s6 = <<>> /\ s7 = 1
  BY DEF Song!SongInv
<1>2. s4 \in Nat /\ s7 \in Nat
  BY <1>1
<1>3. \A o : Song!CodecHas(o) => o.pos = s4
  BY DEF Song!CodecHas
<1> QED BY <1>1, <1>2, <1>3

\* Whether a piece leaves a gap is one of two.
LEMMA GapIsBoolean ==
  ASSUME NEW o, NEW n, s8' = (s8 \/ Song!Gap(o, n))
  PROVE  s8' \in BOOLEAN
BY Zenon

\* m4a_file_start.
LEMMA FileStartKeeps ==
  ASSUME Song!SongInv, NEW n \in Nat, Song!FileStart(n)
  PROVE  Song!SongInv'
<1> DEFINE o == [Song!NoSong EXCEPT !.pos = 0, !.left = SongHeader]
<1>1. s4 \in 0 .. FileLen /\ s4 \in Nat /\ s7 \in 1 .. Song!Count + 1 /\ s7 \in Nat
      /\ s6 \in Seq(Seq(Nat)) /\ Song!WholeSamples /\ s3 = "IDLE" /\ s4 = 0 /\ s6 = <<>> /\ s7 = 1
  BY SongFacts DEF Song!FileStart
<1>2. PICK b \in Nat :
        /\ Song!Piece(n) = Song!Bytes(s4, b) /\ s4 <= b /\ b <= FileLen
        /\ Len(Song!Piece(n)) = b - s4 /\ (s4 + n >= FileLen => b = FileLen)
        /\ s4 + Len(Song!Piece(n)) = b
  BY <1>1, PieceOfSong
<1>3. /\ IF Len(Song!Piece(n)) < FIRST_LENGTH THEN Song!Fail
         ELSE Song!Give(Song!Taken(o, Song!Piece(n)), Song!Piece(n))
      /\ Song!Moved(o, Len(Song!Piece(n))) /\ s7' = s7
  BY DEF Song!FileStart
<1>4. o = [Song!NoSong EXCEPT !.pos = 0, !.left = SongHeader]
  OBVIOUS
<1> HIDE DEF o
<1>5. o.pos = 0 /\ Song!SongHolds(o) /\ Song!CodecHas(o)
  BY <1>1, <1>4, NewSong
<1>6. s4' = b /\ s8' = (s8 \/ Song!Gap(o, b - o.pos)) /\ o.pos <= b /\ b = Len(Song!Piece(n))
      /\ o.pos + Len(Song!Piece(n)) = b /\ s4' \in 0 .. FileLen
  BY <1>1, <1>2, <1>3, <1>5 DEF Song!Moved
<1>7. s8' \in BOOLEAN
  BY <1>6, GapIsBoolean
<1>8. CASE Len(Song!Piece(n)) < FIRST_LENGTH
  BY <1>3, <1>6, <1>7, <1>8, FailKeeps
<1>9. CASE ~(Len(Song!Piece(n)) < FIRST_LENGTH)
  <2>1. Song!Give(Song!At(o, b), Song!Bytes(o.pos, b))
    BY <1>1, <1>2, <1>3, <1>5, <1>6, <1>9 DEF Song!Taken
  <2>2. Given
    BY ONLY <1>1, <1>2, <1>3, <1>5, <1>6, <2>1, PieceGiven
  <2> QED BY <1>1, <1>3, <1>6, <1>7, <2>2, GivenKeeps
<1> QED BY <1>8, <1>9

\* A piece for the song o, that plays or was cut.
LEMMA PieceKeeps ==
  ASSUME Song!SongInv, NEW o, Song!SongHolds(o), Song!CodecHas(o), NEW n \in Nat,
         Song!Give(Song!Taken(o, Song!Piece(n)), Song!Piece(n)),
         Song!Moved(o, Len(Song!Piece(n))), s7' = s7
  PROVE  Song!SongInv'
<1>1. s4 \in 0 .. FileLen /\ s4 \in Nat /\ s7 \in 1 .. Song!Count + 1 /\ s7 \in Nat
      /\ s6 \in Seq(Seq(Nat)) /\ Song!WholeSamples
  BY SongFacts
<1>2. PICK b \in Nat :
        /\ Song!Piece(n) = Song!Bytes(s4, b) /\ s4 <= b /\ b <= FileLen
        /\ Len(Song!Piece(n)) = b - s4 /\ (s4 + n >= FileLen => b = FileLen)
        /\ s4 + Len(Song!Piece(n)) = b
  BY <1>1, PieceOfSong
<1>3. o.pos = s4
  BY DEF Song!CodecHas
<1>4. s4' = b /\ s8' = (s8 \/ Song!Gap(o, b - o.pos)) /\ o.pos <= b /\ s4' \in 0 .. FileLen
      /\ o.pos + Len(Song!Piece(n)) = b
  BY <1>1, <1>2, <1>3 DEF Song!Moved
<1>5. s8' \in BOOLEAN
  BY <1>4, GapIsBoolean
<1>6. Song!Give(Song!At(o, b), Song!Bytes(o.pos, b))
  BY <1>2, <1>3, <1>4 DEF Song!Taken
<1>7. Given
  BY ONLY <1>1, <1>2, <1>4, <1>6, s7' = s7, Song!SongHolds(o), Song!CodecHas(o), PieceGiven
<1> QED BY <1>1, <1>4, <1>5, <1>7, GivenKeeps

\* m4a_file_play.
LEMMA FilePlayKeeps ==
  ASSUME Song!SongInv, NEW n \in Nat, Song!FilePlay(n)
  PROVE  Song!SongInv'
<1>1. s3 = "PLAYING" /\ Song!Give(Song!Taken(s1, Song!Piece(n)), Song!Piece(n))
      /\ Song!Moved(s1, Len(Song!Piece(n))) /\ s7' = s7
  BY DEF Song!FilePlay
<1>2. Song!SongHolds(s1) /\ Song!CodecHas(s1)
  BY <1>1, SongFacts
<1> QED BY <1>1, <1>2, PieceKeeps

\* The first piece after a cut.
LEMMA ContinueKeeps ==
  ASSUME Song!SongInv, NEW n \in Nat, Song!Continue(n)
  PROVE  Song!SongInv'
<1>1. s3 = "IDLE" /\ s4 > 0 /\ s7' = s7
  BY DEF Song!Continue
<1>2. Song!SongHolds(s2) /\ Song!CodecHas(s2) /\ s2.pos = s4
  BY <1>1, SongFacts
<1>3. ~(s2.pos < 0)
  BY <1>1, <1>2, SongFacts
<1>4. CASE s4 = FileLen
  <2>1. Song!Fail /\ s4' = s4 /\ s8' = s8
    BY <1>3, <1>4 DEF Song!Continue
  <2>2. s8 \in BOOLEAN
    BY DEF Song!SongInv
  <2>3. s4' \in 0 .. FileLen /\ s4' = FileLen
    BY <1>4, <2>1, SongFacts
  <2> QED BY <1>1, <2>1, <2>2, <2>3, FailKeeps
<1>5. CASE s4 # FileLen
  <2>1. Song!Give(Song!Taken(s2, Song!Piece(n)), Song!Piece(n)) /\ Song!Moved(s2, Len(Song!Piece(n)))
    BY <1>3, <1>5 DEF Song!Continue
  <2> QED BY <1>1, <1>2, <2>1, PieceKeeps
<1> QED BY <1>4, <1>5

\* At the end of the file no sample is left that has not come.
LEMMA NoneIsLeft ==
  ASSUME NEW i \in 1 .. Len(Samples) + 1,
         i <= Len(Samples) => Samples[i].offset + Samples[i].size > FileLen
  PROVE  i = Len(Samples) + 1
<1>1. Len(Samples) \in Nat
  BY SongAssumption
<1>2. ASSUME i <= Len(Samples) PROVE FALSE
  <2>1. i \in DOMAIN Samples
    BY <1>1, <1>2, SongAssumption
  <2>2. Samples[i].offset \in Nat /\ Samples[i].size \in Nat /\ Samples[i].offset + Samples[i].size <= FileLen
    BY <2>1, SongSamples
  <2> QED BY <1>2, <2>2
<1> QED BY <1>1, <1>2

\* m4a_file_end.
LEMMA FileEndKeeps ==
  ASSUME Song!SongInv, NEW n \in Nat, Song!FileEnd(n)
  PROVE  Song!SongInv'
<1>1. s3 = "PLAYING" /\ s4 + n >= FileLen /\ s7' = s7 /\ s1' = Song!NoSong
      /\ Song!Moved(s1, Len(Song!Piece(n)))
  BY DEF Song!FileEnd
<1>2. s4 \in 0 .. FileLen /\ s4 \in Nat /\ s7 \in 1 .. Song!Count + 1 /\ s7 \in Nat
      /\ s6 \in Seq(Seq(Nat)) /\ Song!WholeSamples /\ Song!SongHolds(s1) /\ Song!CodecHas(s1) /\ s1.pos = s4
  BY <1>1, SongFacts
<1>3. PICK b \in Nat :
        /\ Song!Piece(n) = Song!Bytes(s4, b) /\ s4 <= b /\ b <= FileLen
        /\ Len(Song!Piece(n)) = b - s4 /\ (s4 + n >= FileLen => b = FileLen)
        /\ s4 + Len(Song!Piece(n)) = b
  BY <1>2, PieceOfSong
<1>4. b = FileLen /\ s4' = FileLen /\ s4' \in 0 .. FileLen /\ s8' = (s8 \/ Song!Gap(s1, b - s1.pos))
      /\ s1.pos <= b /\ s1.pos + Len(Song!Piece(n)) = b
  BY <1>1, <1>2, <1>3 DEF Song!Moved
<1>5. s8' \in BOOLEAN
  BY <1>4, GapIsBoolean
<1> DEFINE o == Song!At(s1, b)
           p == Song!Bytes(s4, b)
           f == Song!FrameToCodec(o, p)
           N == Len(Samples)
<1>6. Song!Piece(n) = p /\ Song!Taken(s1, Song!Piece(n)) = o
  BY <1>3, <1>4 DEF Song!Taken
<1>7. s1 \in [pos : 0..FileLen, left : 0..SongHeader, saved : 0..SongHeader, buffer : Seq(Nat),
              data : Seq(Nat), parsed : BOOLEAN, sample : 1..Song!Count + 1]
  BY <1>2 DEF Song!SongHolds
<1>8. o.left = s1.left /\ s1.left \in 0 .. SongHeader
  BY <1>7 DEF Song!At
<1>9. N \in Nat /\ Song!Count = N
  BY SongAssumption DEF Song!Count
<1>10. ASSUME s3' \in {"ended", "failed"}, s6' \in Seq(Seq(Nat)), Song!WholeSamples',
              s3' = "ended" => s7 + Len(s6') = N + 1 \/ s6' = <<>>,
              s3' = "failed" => s8' \/ s4' = FileLen
       PROVE  Song!SongInv'
  <2>1. s3' \in {"IDLE", "PLAYING", "ended", "failed"} /\ s3' # "IDLE" /\ s3' # "PLAYING"
    BY <1>10
  <2>2. s3' = "ended" => s7' + Len(s6') = Song!Count + 1 \/ s6' = <<>>
    BY <1>1, <1>9, <1>10
  <2>3. s7' \in 1 .. Song!Count + 1
    BY <1>1, <1>2
  <2> QED BY ONLY <1>1, <1>4, <1>5, <1>10, <2>1, <2>2, <2>3 DEF Song!SongInv
<1> HIDE DEF o, p, f
<1>11. CASE p # <<>> /\ s1.left > 0
  <2>1. s6' = s6 /\ s3' = IF Song!Parses(Song!HeaderSave(o, p)) THEN "ended" ELSE "failed"
    <3>1. p # <<>> /\ o.left > 0
      BY <1>8, <1>11
    <3> QED BY <1>6, <3>1 DEF Song!FileEnd
  <2>2. s6 = <<>>
    BY <1>2, <1>11 DEF Song!CodecHas
  <2>3. Song!WholeSamples'
    BY <1>1, <1>2, <2>1 DEF Song!WholeSamples
  <2>4. s3' \in {"ended", "failed"}
    BY <2>1
  <2> QED BY <1>2, <1>4, <1>10, <2>1, <2>2, <2>3, <2>4
<1>12. CASE p = <<>>
  <2>1. s6' = s6 /\ s3' = "ended"
    <3>1. s6' = s6 \o <<>> /\ s3' = "ended"
      BY <1>6, <1>12 DEF Song!FileEnd
    <3> QED BY <1>2, <3>1
  <2>2. Song!WholeSamples'
    BY <1>1, <1>2, <2>1 DEF Song!WholeSamples
  <2>3. s4 = FileLen
    BY <1>2, <1>3, <1>4, <1>6, <1>12
  <2>4. ASSUME s6 # <<>> PROVE s7 + Len(s6) = N + 1
    <3>1. s1.sample \in 1 .. N + 1
      BY <1>7, <1>9
    <3>2. Len(s6) = s1.sample - s7
      BY <1>2 DEF Song!CodecHas
    <3>3. s1.sample <= N => Samples[s1.sample].offset + Samples[s1.sample].size > FileLen
      BY <1>2, <1>9, <2>3, <2>4 DEF Song!CodecHas
    <3>4. s1.sample = N + 1
      BY <3>1, <3>3, NoneIsLeft
    <3> QED BY <1>2, <1>9, <3>2, <3>4
  <2>5. s3' \in {"ended", "failed"} /\ s3' # "failed"
    BY <2>1
  <2>6. s6' \in Seq(Seq(Nat)) /\ (s7 + Len(s6') = N + 1 \/ s6' = <<>>)
    BY <1>2, <2>1, <2>4
  <2> QED BY <1>10, <2>2, <2>5, <2>6
<1>13. CASE p # <<>> /\ s1.left = 0
  <2>1. s6' = s6 \o f.out /\ s3' = "ended"
    <3>1. p # <<>> /\ ~(o.left > 0)
      BY <1>8, <1>13
    <3> QED BY <1>6, <3>1 DEF Song!FileEnd, f
  <2>2. f = Song!FrameToCodec(Song!At(s1, b), Song!Bytes(s1.pos, b))
    BY <1>2 DEF f, o, p
  <2>3. /\ s6' \in Seq(Seq(Nat)) /\ Song!WholeSamples' /\ Len(s6') = f.song.sample - s7
        /\ f.song.sample <= N => Samples[f.song.sample].offset + Samples[f.song.sample].size > b
        /\ f.song.sample \in 1 .. N + 1
    BY ONLY <1>1, <1>2, <1>4, <1>13, b \in Nat, b <= FileLen, <2>1, <2>2, FramesGiven
  <2>4. f.song.sample = N + 1
    BY <1>4, <2>3, NoneIsLeft
  <2>5. s3' \in {"ended", "failed"} /\ s3' # "failed"
    BY <2>1
  <2>6. s7 + Len(s6') = N + 1
    BY ONLY <1>2, <1>9, <2>3, <2>4
  <2> QED BY <1>10, <2>3, <2>5, <2>6
<1> QED BY <1>8, <1>11, <1>12, <1>13

\* The player is stopped.
LEMMA SongStopKeeps ==
  ASSUME Song!SongInv, Song!Stop
  PROVE  Song!SongInv'
<1>1. s3 = "PLAYING" /\ s3' = "IDLE" /\ s2' = s1 /\ s1' = Song!NoSong
      /\ s4' = s4 /\ s6' = s6 /\ s7' = s7 /\ s8' = s8
  BY DEF Song!Stop
<1>2. s4 \in 0 .. FileLen /\ s4 \in Nat /\ s7 \in 1 .. Song!Count + 1 /\ s7 \in Nat
      /\ s6 \in Seq(Seq(Nat)) /\ Song!WholeSamples /\ Song!SongHolds(s1) /\ Song!CodecHas(s1) /\ s1.pos = s4
  BY <1>1, SongFacts
<1>3. Song!SongHolds(s2)' /\ Song!CodecHas(s2)' /\ Song!WholeSamples'
  BY ONLY <1>1, <1>2 DEF Song!SongHolds, Song!CodecHas, Song!WholeSamples
<1>4. ASSUME s4 = 0 PROVE s6 = <<>> /\ s7 = 1
  <2>1. s1.left > 0
    <3>1. s1.left = 0 => s1.pos >= SongHeader
      BY <1>2 DEF Song!SongHolds
    <3>2. s1.left \in 0 .. SongHeader
      <4>1. s1 \in [pos : 0..FileLen, left : 0..SongHeader, saved : 0..SongHeader, buffer : Seq(Nat),
                    data : Seq(Nat), parsed : BOOLEAN, sample : 1..Song!Count + 1]
        BY <1>2 DEF Song!SongHolds
      <4> QED BY <4>1
    <3> QED BY <1>2, <1>4, <3>1, <3>2
  <2>2. s6 = <<>> /\ Len(s6) = s1.sample - s7
    BY <1>2, <2>1 DEF Song!CodecHas
  <2>3. s1.sample = 1
    BY <1>2, <2>1 DEF Song!SongHolds
  <2> QED BY <1>2, <2>2, <2>3
<1>5. s3' \in {"IDLE", "PLAYING", "ended", "failed"} /\ s3' # "failed" /\ s3' # "ended" /\ s3' # "PLAYING"
  BY <1>1
<1>6. s8 \in BOOLEAN
  BY DEF Song!SongInv
<1> QED BY ONLY <1>1, <1>2, <1>3, <1>4, <1>5, <1>6 DEF Song!SongInv

\* The song at another place.
Elsewhere(o, b, i) == [o EXCEPT !.pos = b, !.sample = i]

\* A song that is put at another place is still one that can go on.
LEMMA SongElsewhere ==
  ASSUME NEW o, Song!SongHolds(o), NEW b \in 0 .. FileLen, NEW i \in 1 .. Song!Count + 1,
         o.left > 0 => b = o.saved /\ i = 1,
         o.left = 0 => b >= SongHeader /\ (i <= Song!Count => ~(Samples[i].offset < b))
  PROVE  /\ Song!SongHolds(Elsewhere(o, b, i))
         /\ Elsewhere(o, b, i).pos = b /\ Elsewhere(o, b, i).sample = i
<1> DEFINE N == Song!Count
           q == Elsewhere(o, b, i)
<1>7. q = [o EXCEPT !.pos = b, !.sample = i]
  BY DEF Elsewhere
<1>1. o \in [pos : 0..FileLen, left : 0..SongHeader, saved : 0..SongHeader, buffer : Seq(Nat),
             data : Seq(Nat), parsed : BOOLEAN, sample : 1..N + 1]
  BY DEF Song!SongHolds
<1>2. /\ o.saved = SongHeader - o.left /\ o.parsed = (o.left = 0)
      /\ o.left > 0 => o.pos = o.saved /\ o.data = <<>> /\ o.sample = 1
      /\ o.left > 0 /\ ~s8 => o.buffer = Song!Bytes(0, o.saved)
  BY DEF Song!SongHolds
<1> HIDE DEF N, q
<1>3. /\ q.pos = b /\ q.sample = i /\ q.left = o.left /\ q.saved = o.saved /\ q.buffer = o.buffer
      /\ q.data = o.data /\ q.parsed = o.parsed
      /\ q \in [pos : 0..FileLen, left : 0..SongHeader, saved : 0..SongHeader, buffer : Seq(Nat),
                data : Seq(Nat), parsed : BOOLEAN, sample : 1..N + 1]
  <2> DEFINE half == [o EXCEPT !.pos = b]
  <2>1. /\ half.pos = b /\ half.sample = o.sample /\ half.left = o.left /\ half.saved = o.saved
        /\ half.buffer = o.buffer /\ half.data = o.data /\ half.parsed = o.parsed
        /\ half \in [pos : 0..FileLen, left : 0..SongHeader, saved : 0..SongHeader, buffer : Seq(Nat),
                data : Seq(Nat), parsed : BOOLEAN, sample : 1..N + 1]
    BY ONLY <1>1, b \in 0 .. FileLen
  <2>2. q = [half EXCEPT !.sample = i] /\ i \in 1 .. N + 1
    BY <1>7 DEF N
  <2> HIDE DEF half
  <2> QED BY ONLY <2>1, <2>2
<1>4. q.left > 0 => ~(q.left = 0)
  BY <1>1, <1>3
<1>5. /\ q.saved = SongHeader - q.left
      /\ q.left > 0 => q.pos = q.saved /\ q.data = <<>> /\ q.sample = 1
      /\ q.left > 0 /\ ~s8 => q.buffer = Song!Bytes(0, q.saved)
      /\ q.left = 0 => q.pos >= SongHeader
      /\ q.left = 0 /\ q.sample <= N => ~(Samples[q.sample].offset < q.pos)
  BY <1>2, <1>3 DEF N
<1>6. q.parsed = (q.left = 0)
  BY <1>2, <1>3
<1>8. Song!SongHolds(q)
  BY ONLY <1>3, <1>5, <1>6 DEF Song!SongHolds, N
<1> QED BY <1>3, <1>8 DEF q

\* Where a seek goes.
LEMMA SoughtSong ==
  ASSUME NEW o, Song!SongHolds(o), NEW to \in Nat, Song!SeekTo(o, to).sample > 0
  PROVE  LET q == Song!SeekTo(o, to)
         IN  /\ q.pos \in 0 .. FileLen /\ q.sample \in 1 .. Song!Count + 1
             /\ q.pos > 0 => Song!SongHolds(q)
<1> DEFINE N == Song!Count
           q == Song!SeekTo(o, to)
           ahead == {i \in o.sample .. N : Samples[i].offset >= to}
           behind == {i \in 1 .. o.sample : Samples[i].offset < to}
           sample == IF to > o.pos THEN IF ahead = {} THEN N + 1 ELSE Song!Min(ahead)
                     ELSE IF behind = {} THEN 0 ELSE Song!Max(behind)
           there == IF sample = 0 THEN 1 ELSE Song!Lesser(sample, N)
<1>1. o \in [pos : 0..FileLen, left : 0..SongHeader, saved : 0..SongHeader, buffer : Seq(Nat),
             data : Seq(Nat), parsed : BOOLEAN, sample : 1..N + 1]
  BY DEF Song!SongHolds
<1>2. o.saved = SongHeader - o.left /\ (o.left = 0 => o.pos >= SongHeader)
  BY DEF Song!SongHolds
<1>3. N \in Nat /\ DOMAIN Samples = 1 .. N
  BY SongAssumption DEF Song!Count
<1>4. CASE to = o.pos
  <2>1. q = o
    BY <1>4 DEF Song!SeekTo
  <2> QED BY <1>1, <2>1
<1>5. CASE to # o.pos /\ (to <= o.saved \/ o.left > 0)
  <2>1. q = [o EXCEPT !.pos = o.saved, !.sample = 1]
    <3>1. ~(to = o.pos) /\ (to <= o.saved \/ o.left > 0)
          /\ ~(to > o.saved /\ o.left = 0 /\ o.sample > Song!Count)
      BY <1>1, <1>5
    <3> QED BY ONLY <3>1 DEF Song!SeekTo
  <2>2. o.saved \in 0 .. FileLen
    <3>1. CASE o.left > 0
      <4>1. o.saved = o.pos
        BY <3>1 DEF Song!SongHolds
      <4> QED BY <1>1, <4>1
    <3>2. CASE o.left = 0
      <4>1. o.saved = SongHeader /\ o.pos >= SongHeader
        BY <1>1, <1>2, <3>2
      <4> QED BY <1>1, <4>1
    <3> QED BY <1>1, <3>1, <3>2
  <2>3. 1 \in 1 .. N + 1
    BY <1>3
  <2>4. o.left = 0 => o.saved >= SongHeader
    BY <1>1, <1>2
  <2>5. ASSUME o.left = 0, 1 <= N PROVE ~(Samples[1].offset < o.saved)
    <3>1. 1 \in DOMAIN Samples
      BY <1>3, <2>5
    <3>2. Samples[1].offset \in Nat /\ Samples[1].offset >= SongHeader
      BY <3>1, SongSamples
    <3>3. o.saved = SongHeader
      BY <1>1, <1>2, <2>5
    <3> QED BY <3>2, <3>3
  <2> HIDE DEF q
  <2>7. o.left > 0 => o.saved = o.saved /\ 1 = 1
    OBVIOUS
  <2>8. /\ Song!SongHolds(Elsewhere(o, o.saved, 1)) /\ Elsewhere(o, o.saved, 1).pos = o.saved
        /\ Elsewhere(o, o.saved, 1).sample = 1
    BY ONLY Song!SongHolds(o), <2>2, <2>3, <2>4, <2>5, SongElsewhere DEF N
  <2>9. q = Elsewhere(o, o.saved, 1)
    BY ONLY <2>1 DEF Elsewhere
  <2>6. Song!SongHolds(q) /\ q.pos = o.saved /\ q.sample = 1
    BY ONLY <2>8, <2>9
  <2> QED BY <2>2, <2>3, <2>6 DEF q
<1>6. CASE to # o.pos /\ ~(to <= o.saved) /\ o.left = 0 /\ o.sample > N
  <2>1. q = [o EXCEPT !.pos = 0]
    <3>1. to # o.pos /\ to > o.saved /\ ~(to <= o.saved \/ o.left > 0)
      BY <1>1, <1>6
    <3> QED BY <1>6, <3>1 DEF Song!SeekTo
  <2> HIDE DEF q
  <2>2. q.pos = 0 /\ q.sample = o.sample
    BY ONLY <1>1, <2>1
  <2>3. ~(q.pos > 0) /\ q.pos \in 0 .. FileLen /\ q.sample \in 1 .. N + 1
    BY <1>1, <2>2
  <2> QED BY <2>3 DEF q
<1>7. CASE to # o.pos /\ ~(to <= o.saved) /\ o.left = 0 /\ ~(o.sample > N)
  <2>1. q = [o EXCEPT !.pos = Samples[there].offset, !.sample = sample]
    <3>1. to # o.pos /\ ~(to <= o.saved \/ o.left > 0)
      BY <1>1, <1>7
    <3> QED BY <1>7, <3>1 DEF Song!SeekTo
  <2>2. ahead \subseteq Nat /\ behind \subseteq 0 .. o.sample /\ o.sample \in 1 .. N /\ o.sample \in Nat
    BY <1>1, <1>3, <1>7
  <2>3. ahead # {} => Song!Min(ahead) \in ahead
    BY <2>2, SongMin
  <2>4. behind # {} => Song!Max(behind) \in behind
    BY <2>2, SongMax
  <2>5. sample \in 0 .. N + 1
    <3>1. \A i \in ahead : i \in 0 .. N + 1
      BY <1>3, <2>2
    <3>2. \A i \in behind : i \in 0 .. N + 1
      BY <1>3, <2>2
    <3>3. 0 \in 0 .. N + 1 /\ N + 1 \in 0 .. N + 1
      BY <1>3
    <3> HIDE DEF ahead, behind, N
    <3> QED BY <2>3, <2>4, <3>1, <3>2, <3>3
  <2>6. q.sample = sample
    <3> HIDE DEF q, sample, there
    <3> QED BY ONLY <1>1, <2>1
  <2>7. q.sample > 0
    OBVIOUS
  <2> HIDE DEF q, sample, ahead, behind
  <2>8. sample \in 1 .. N + 1 /\ there \in 1 .. N /\ (sample <= N => there = sample)
    BY <1>3, <2>2, <2>5, <2>6, <2>7 DEF Song!Lesser
  <2> HIDE DEF there
  <2>9. there \in DOMAIN Samples
    BY <1>3, <2>8
  <2>10. Samples[there].offset \in Nat /\ Samples[there].size \in Nat /\ Samples[there].offset >= SongHeader
         /\ Samples[there].offset + Samples[there].size <= FileLen
    BY <2>9, SongSamples
  <2> DEFINE b == Samples[there].offset
  <2>11. b \in 0 .. FileLen /\ b >= SongHeader /\ ~(o.left > 0) /\ (sample <= N => ~(Samples[sample].offset < b))
    BY <1>7, <2>8, <2>10
  <2>12. q = [o EXCEPT !.pos = b, !.sample = sample]
    BY <2>1
  <2> HIDE DEF b, N
  <2>13. Song!SongHolds(q) /\ q.pos = b /\ q.sample = sample
    <3>1. /\ Song!SongHolds(Elsewhere(o, b, sample)) /\ Elsewhere(o, b, sample).pos = b
          /\ Elsewhere(o, b, sample).sample = sample
      BY ONLY Song!SongHolds(o), <2>8, <2>11, SongElsewhere DEF N
    <3>2. q = Elsewhere(o, b, sample)
      BY ONLY <2>12 DEF Elsewhere
    <3> QED BY ONLY <3>1, <3>2
  <2> QED BY <2>8, <2>11, <2>13 DEF N, q
<1>8. o.left = 0 \/ o.left > 0
  BY <1>1
<1> QED BY ONLY <1>4, <1>5, <1>6, <1>7, <1>8

\* m4a_file_seek.
LEMMA SeekKeeps ==
  ASSUME Song!SongInv, NEW to \in Nat, Song!Seek(to)
  PROVE  Song!SongInv'
<1> DEFINE q == Song!SeekTo(s2, to)
<1>1. s3 = "IDLE" /\ s4 > 0 /\ q.sample > 0 /\ s3' = s3 /\ s1' = s1 /\ s8' = s8 /\ s2' = q
      /\ s4' = q.pos /\ s6' = <<>> /\ s7' = IF s4' = 0 THEN 1 ELSE q.sample
  BY DEF Song!Seek
<1>2. Song!SongHolds(s2)
  BY <1>1, SongFacts
<1>3. /\ q.pos \in 0 .. FileLen /\ q.sample \in 1 .. Song!Count + 1
      /\ q.pos > 0 => Song!SongHolds(q)
  BY <1>1, <1>2, SoughtSong
<1>4. s8 \in BOOLEAN /\ s1 = Song!NoSong
  BY <1>1 DEF Song!SongInv
<1> HIDE DEF q
<1>5. Song!Count \in Nat
  BY SongAssumption DEF Song!Count
<1>6. s4' \in 0 .. FileLen /\ s7' \in 1 .. Song!Count + 1
  BY <1>1, <1>3, <1>5
<1>7. Song!WholeSamples' /\ s6' \in Seq(Seq(Nat))
  <2>1. DOMAIN s6' = {}
    BY <1>1
  <2> QED BY <1>1, <2>1 DEF Song!WholeSamples
<1>8. ASSUME s4' > 0 PROVE Song!SongHolds(s2)' /\ Song!CodecHas(s2)'
  <2>1. Song!SongHolds(s2)'
    BY <1>1, <1>3, <1>8 DEF Song!SongHolds
  <2>2. s7' = q.sample
    BY <1>1, <1>6, <1>8
  <2>3. Len(<<>>) = q.sample - s7'
    BY <1>3, <1>5, <2>2
  <2>4. Song!CodecHas(s2)'
    BY ONLY <1>1, <2>3 DEF Song!CodecHas
  <2> QED BY <2>1, <2>4
<1>9. s3' \in {"IDLE", "PLAYING", "ended", "failed"} /\ s3' # "failed" /\ s3' # "ended" /\ s3' # "PLAYING"
  BY <1>1
<1> QED BY ONLY <1>1, <1>4, <1>6, <1>7, <1>8, <1>9 DEF Song!SongInv

\* Every step keeps it.
LEMMA WholeStep ==
  ASSUME Song!SongInv, Song!Next
  PROVE  Song!SongInv'
<1>1. \A n \in PieceSizes : n \in Nat
  BY SongAssumption
<1>2. \A n \in PieceSizes \cup {0} : n \in Nat
  BY <1>1
<1>3. \A to \in SongPositions : to \in Nat
  BY SongAssumption
<1>4. CASE \E n \in PieceSizes : Song!FileStart(n)
  BY <1>1, <1>4, FileStartKeeps
<1>5. CASE \E n \in PieceSizes : Song!FilePlay(n)
  BY <1>1, <1>5, FilePlayKeeps
<1>6. CASE \E n \in PieceSizes : Song!Continue(n)
  BY <1>1, <1>6, ContinueKeeps
<1>7. CASE \E n \in PieceSizes \cup {0} : Song!FileEnd(n)
  BY <1>2, <1>7, FileEndKeeps
<1>8. CASE Song!Stop
  BY <1>8, SongStopKeeps
<1>9. CASE \E to \in SongPositions : Song!Seek(to)
  BY <1>3, <1>9, SeekKeeps
<1> QED BY <1>4, <1>5, <1>6, <1>7, <1>8, <1>9 DEF Song!Next

\* A song has not begun.
LEMMA WholeBegins ==
  ASSUME Song!Init
  PROVE  Song!SongInv
<1>1. Song!Count \in Nat
  BY SongAssumption DEF Song!Count
<1>2. s1 = Song!NoSong /\ s3 = "IDLE" /\ s4 = 0 /\ s6 = <<>> /\ s7 = 1
  BY DEF Song!Init
<1>3. s8 \in BOOLEAN
  BY DEF Song!Init
<1>4. s4 \in 0 .. FileLen /\ s7 \in 1 .. Song!Count + 1 /\ s6 \in Seq(Seq(Nat)) /\ ~(s4 > 0)
  BY <1>1, <1>2
<1>5. Song!WholeSamples
  <2>1. DOMAIN s6 = {}
    BY <1>2
  <2> QED BY <2>1 DEF Song!WholeSamples
<1>6. s3 \in {"IDLE", "PLAYING", "ended", "failed"} /\ s3 # "failed" /\ s3 # "ended" /\ s3 # "PLAYING"
  BY <1>2
<1> QED BY ONLY <1>2, <1>3, <1>4, <1>5, <1>6 DEF Song!SongInv

\* The codec gets every sample whole and in order.
LEMMA WholeKeepsPromise ==
  ASSUME Song!SongInv
  PROVE  Song!SamplesAreWhole /\ Song!M4ATypeOK
<1>1. Song!SamplesAreWhole
  BY DEF Song!SongInv, Song!WholeSamples, Song!SamplesAreWhole
<1>2. s1.sample \in 0 .. Song!Count + 1
  <2>1. Song!Count \in Nat
    BY SongAssumption DEF Song!Count
  <2>2. CASE s3 = "PLAYING"
    <3>1. s1 \in [pos : 0..FileLen, left : 0..SongHeader, saved : 0..SongHeader, buffer : Seq(Nat),
                  data : Seq(Nat), parsed : BOOLEAN, sample : 1..Song!Count + 1]
      BY <2>2 DEF Song!SongInv, Song!SongHolds
    <3> QED BY <2>1, <3>1
  <2>3. CASE s3 # "PLAYING"
    <3>1. s1 = Song!NoSong
      BY <2>3 DEF Song!SongInv
    <3>2. s1.sample = 1
      BY <3>1 DEF Song!NoSong
    <3> QED BY <2>1, <3>2
  <2> QED BY <2>2, <2>3
<1>3. s3 = "PLAYING" => s1.pos = s4
  BY SongFacts
<1>4. s3 \in {"IDLE", "PLAYING", "ended", "failed"} /\ s4 \in 0 .. FileLen
  BY DEF Song!SongInv
<1> QED BY <1>1, <1>2, <1>3, <1>4 DEF Song!M4ATypeOK

\* What does not change keeps it.
LEMMA WholeStays ==
  ASSUME Song!SongInv, UNCHANGED <<s1, s2, s3, s4, s5, s6, s7, s8>>
  PROVE  Song!SongInv'
BY DEF Song!SongInv, Song!SongHolds, Song!CodecHas, Song!WholeSamples

HIDE SongNumbers
-----------------------------------------------------------------------------
(* The recorder.                                                          *)

\* The events main's thread takes out of its queue.
MainEvents == {"REC_PRESS", "START_RECORD"}
\* Where amr can be.
AmrStates == {"none", "start", "loop", "data", "done", "store", "drain", "last", "lastDone", "lastStore"}
\* The places of the ring.
RingPlaces == 0 .. MaxFlame - 1

\* Types, those of the variables RecTypeOK leaves out too.
RecorderTyped ==
    /\ queue \in Seq(MainEvents) /\ Len(queue) <= QueueSize
    /\ mainAt \in {"loop", "waits", "starts"}
    /\ state \in {"STOPPING", "STOPPED", "STARTING", "STARTED"}
    /\ amr \in AmrStates /\ rec \in BOOLEAN /\ pieces \in 0 .. 1
    /\ media \in {"IDLE", "PLAYING", "RECORDING"}
    /\ toPlay \in {"none", "tone", "other"}

\* The numbers of the ring.
RingNumbers ==
    /\ remain \in Int /\ loaded \in Int /\ recorded \in Nat /\ heard \in Nat
    /\ writePtr \in RingPlaces /\ readPtr \in RingPlaces /\ held \in RingPlaces
    /\ memory \in [RingPlaces -> Nat]
    /\ whole \in BOOLEAN /\ spoilt \in BOOLEAN /\ overtaken \in BOOLEAN

\* As long as no recording was begun over another: while main's thread is
\* between the two starts, rec has not begun and amr waits for it; who reads
\* the microphone has somebody who listens; and only rec, or main's thread on
\* the way to start it, keeps the player.
RecInTurn ==
    ~overtaken =>
        /\ mainAt = "starts" => ~rec /\ state = "STARTING" /\ amr \in {"start", "loop"}
        /\ rec => amr # "none"
        /\ media = "RECORDING" => rec \/ mainAt = "starts"

\* The frame amr has handed on is still in the ring until it is counted off.
HandedOn == amr \in {"done", "store", "lastDone", "lastStore"}
\* A place of the ring counted from another one.
Offset(x) == IF x < MaxFlame THEN x ELSE x - MaxFlame

\* As long as nothing spoilt it: the ring holds the last frames that were
\* read, the oldest at readPtr, and the place that is written is none of
\* theirs; the frames before them are those that amr has handed on.
InRing ==
    /\ remain \in RingPlaces /\ remain <= recorded
    /\ writePtr = Offset(readPtr + remain)
    /\ \A i \in 0 .. remain - 1 : memory[Offset(readPtr + i)] = recorded - remain + 1 + i
\* What amr has handed on is what comes before the frames in the ring.
InOrder ==
    /\ heard = recorded - remain + (IF HandedOn THEN 1 ELSE 0)
    /\ HandedOn \/ amr \in {"data", "last"} => remain > 0
    /\ amr \in {"data", "last"} => held = readPtr
    /\ whole
\* Both, until something spoils it.
Unspoilt == ~spoilt /\ ~overtaken => InRing /\ InOrder

\* The inductive invariant.
RecorderInv == RecorderTyped /\ RingNumbers /\ RecInTurn /\ Unspoilt
-------------------------------------------------------------------------------
(* The places of the ring.                                                 *)

\* A pointer goes at most once round the ring.
LEMMA Wraps ==
  ASSUME NEW n \in Nat \ {0}, NEW x \in 0 .. 2 * n - 1
  PROVE  x % n = IF x < n THEN x ELSE x - n
OBVIOUS

\* The place behind another one is Next1 of it.
LEMMA NextPlace ==
  ASSUME NEW p \in RingPlaces
  PROVE  Next1(p) = Offset(p + 1) /\ Next1(p) \in RingPlaces
<1>1. MaxFlame \in Nat \ {0} /\ p + 1 \in 0 .. 2 * MaxFlame - 1
  BY RecorderAssumption DEF RingPlaces
<1>2. (p + 1) % MaxFlame = Offset(p + 1)
  BY <1>1, Wraps DEF Offset
<1> QED
  BY <1>1, <1>2 DEF Next1, Offset, RingPlaces

\* Fewer than MaxFlame places behind a place are places, and different ones.
LEMMA OffsetIsPlace ==
  ASSUME NEW p \in RingPlaces, NEW i \in RingPlaces
  PROVE  Offset(p + i) \in RingPlaces
BY RecorderAssumption DEF Offset, RingPlaces

\* Two frames of the ring have two places.
LEMMA OffsetsDiffer ==
  ASSUME NEW p \in RingPlaces, NEW i \in RingPlaces, NEW j \in RingPlaces, i # j
  PROVE  Offset(p + i) # Offset(p + j)
BY RecorderAssumption DEF Offset, RingPlaces

\* One place further on is counted from the next place.
LEMMA OffsetFromNext ==
  ASSUME NEW p \in RingPlaces, NEW i \in Nat, i + 1 < MaxFlame
  PROVE  Offset(Next1(p) + i) = Offset(p + (i + 1))
<1>1. Next1(p) = Offset(p + 1)
  BY NextPlace
<1> QED
  BY <1>1, RecorderAssumption DEF Offset, RingPlaces

\* One place on, all frames are one place nearer.
LEMMA NextOffset ==
  ASSUME NEW p \in RingPlaces, NEW i \in Nat, i + 1 < MaxFlame
  PROVE  Next1(Offset(p + i)) = Offset(p + (i + 1))
<1>1. Offset(p + i) \in RingPlaces
  BY OffsetIsPlace, RecorderAssumption DEF RingPlaces
<1>2. Next1(Offset(p + i)) = Offset(Offset(p + i) + 1)
  BY <1>1, NextPlace
<1> QED
  BY <1>2, RecorderAssumption DEF Offset, RingPlaces
-------------------------------------------------------------------------------
(* Types.                                                                  *)

\* The recorder as it is when the toy starts.
LEMMA RecorderBegins == RecInit => RecorderInv
<1> SUFFICES ASSUME RecInit PROVE RecorderInv
  OBVIOUS
<1>1. RecorderTyped
  <2>1. queue \in Seq(MainEvents) /\ Len(queue) <= QueueSize
    BY RecorderAssumption DEF RecInit
  <2>2. rec \in BOOLEAN
    BY DEF RecInit
  <2> QED BY <2>1, <2>2 DEF RecInit, RecorderTyped, AmrStates
<1>2. RingNumbers
  <2>1. memory \in [RingPlaces -> Nat] /\ 0 \in RingPlaces
    BY RecorderAssumption DEF RecInit, RingPlaces, Half
  <2>2. whole \in BOOLEAN /\ spoilt \in BOOLEAN /\ overtaken \in BOOLEAN
    BY DEF RecInit
  <2> QED BY <2>1, <2>2 DEF RecInit, RingNumbers
<1>3. RecInTurn /\ Unspoilt
  BY RecorderAssumption
     DEF RecInit, RecInTurn, Unspoilt, InRing, InOrder, HandedOn, RingPlaces, Offset, Half
<1> QED
  BY <1>1, <1>2, <1>3 DEF RecorderInv

\* event_trigger never fills the queue over its size.
LEMMA TriggeredIsQueue ==
  ASSUME RecorderTyped, NEW e \in MainEvents
  PROVE  Triggered(e) \in Seq(MainEvents) /\ Len(Triggered(e)) <= QueueSize
BY RecorderAssumption DEF Triggered, RecorderTyped

\* An event that is taken leaves a queue.
LEMMA TailIsQueue ==
  ASSUME RecorderTyped, queue # <<>>
  PROVE  Tail(queue) \in Seq(MainEvents) /\ Len(Tail(queue)) <= QueueSize
BY RecorderAssumption DEF RecorderTyped

\* No step changes a type.
LEMMA TypedStep ==
  ASSUME RecorderTyped, [RecNext]_recVars PROVE RecorderTyped'
<1> USE DEF recorder, ring, reading, player, history
<1>1. ASSUME TalkKey PROVE RecorderTyped'
  <2>1. queue' \in Seq(MainEvents) /\ Len(queue') <= QueueSize
    BY <1>1, TriggeredIsQueue DEF TalkKey, MainEvents
  <2> QED BY <1>1, <2>1 DEF TalkKey, RecorderTyped
<1>2. ASSUME OtherPlays \/ PlayerStarts PROVE RecorderTyped'
  BY <1>2 DEF OtherPlays, PlayerStarts, Plays, RecorderTyped
<1>3. ASSUME PlayerEnds PROVE RecorderTyped'
  <2>1. queue' \in Seq(MainEvents) /\ Len(queue') <= QueueSize
    BY <1>3, TriggeredIsQueue DEF PlayerEnds, MainEvents, RecorderTyped
  <2> QED BY <1>3, <2>1 DEF PlayerEnds, RecorderTyped
<1>4. ASSUME TalkStart PROVE RecorderTyped'
  <2>1. queue' \in Seq(MainEvents) /\ Len(queue') <= QueueSize
    BY <1>4, TailIsQueue DEF TalkStart
  <2> QED BY <1>4, <2>1 DEF TalkStart, Stops, Plays, RecorderTyped
<1>5. ASSUME TalkStartWaited PROVE RecorderTyped'
  BY <1>5 DEF TalkStartWaited, Plays, RecorderTyped
<1>6. ASSUME StartRecorder PROVE RecorderTyped'
  <2>1. queue' \in Seq(MainEvents) /\ Len(queue') <= QueueSize
    BY <1>6, TailIsQueue DEF StartRecorder
  <2> QED BY <1>6, <2>1 DEF StartRecorder, RecorderTyped, AmrStates
<1>7. ASSUME RecStarts \/ RecReads \/ RecEnds PROVE RecorderTyped'
  <2>1. rec' \in BOOLEAN
    BY <1>7 DEF RecStarts, RecReads, RecEnds, RecorderTyped
  <2>2. pieces' \in 0 .. 1
    BY <1>7 DEF RecStarts, RecReads, RecEnds, RecorderTyped
  <2> QED BY <1>7, <2>1, <2>2 DEF RecStarts, RecReads, RecEnds, RecorderTyped
<1>8. ASSUME Amr PROVE RecorderTyped'
  BY <1>8 DEF Amr, AmrAt, AmrStarts, AmrTakes, AmrLeaves, AmrData, AmrReadDone, AmrStores,
              AmrEnds, Stops, RecorderTyped, AmrStates
<1>9. CASE UNCHANGED recVars
  BY <1>9 DEF recVars, RecorderTyped
<1> QED
  BY <1>1, <1>2, <1>3, <1>4, <1>5, <1>6, <1>7, <1>8, <1>9
     DEF RecNext, Main, Rec, Player

\* What the steps that touch neither the ring nor what was read from it leave
\* alone.
Outside == TalkKey \/ OtherPlays \/ Player \/ TalkStart \/ TalkStartWaited \/ RecEnds

\* Who is neither rec nor amr leaves the ring alone.
LEMMA OutsideLeavesRing ==
  ASSUME Outside
  PROVE  UNCHANGED <<ring, held, loaded, amr, recorded, heard, whole, spoilt, overtaken>>
BY DEF Outside, Player, TalkKey, OtherPlays, PlayerStarts, PlayerEnds, TalkStart, TalkStartWaited,
       RecEnds, recorder, ring, reading, player, history

\* The numbers of the ring stay in their ranges.
LEMMA NumbersStep ==
  ASSUME RecorderTyped, RingNumbers, [RecNext]_recVars PROVE RingNumbers'
<1> USE DEF recorder, ring, reading, player, history
<1>1. CASE Outside \/ UNCHANGED recVars
  <2>1. UNCHANGED <<ring, held, loaded, recorded, heard, whole, spoilt, overtaken>>
    BY <1>1, OutsideLeavesRing DEF recVars
  <2> QED BY <2>1 DEF RingNumbers
<1>2. ASSUME StartRecorder PROVE RingNumbers'
  <2>1. overtaken' \in BOOLEAN
    BY <1>2 DEF StartRecorder, RingNumbers, RecorderTyped
  <2> QED BY <1>2, <2>1 DEF StartRecorder, RingNumbers
<1>3. ASSUME RecStarts PROVE RingNumbers'
  <2>1. CASE rec
    BY <1>3, <2>1 DEF RecStarts, RingNumbers
  <2>2. CASE ~rec
    <3>1. /\ remain' = 0 /\ writePtr' = 0 /\ readPtr' = 0 /\ recorded' = 0 /\ heard' = 0
          /\ UNCHANGED <<held, loaded, overtaken>>
          /\ memory' = [i \in 0 .. MaxFlame - 1 |-> Half]
      BY <1>3, <2>2 DEF RecStarts
    <3>2. whole' \in BOOLEAN /\ spoilt' \in BOOLEAN
      BY <1>3, <2>2 DEF RecStarts
    <3>3. memory' \in [RingPlaces -> Nat] /\ 0 \in RingPlaces
      BY <3>1, RecorderAssumption DEF RingPlaces, Half
    <3> QED BY <3>1, <3>2, <3>3 DEF RingNumbers
  <2> QED BY <2>1, <2>2
<1>4. ASSUME RecReads PROVE RingNumbers'
  <2>1. Next1(writePtr) \in RingPlaces /\ Next1(readPtr) \in RingPlaces
    BY NextPlace DEF RingNumbers
  <2>2. memory' \in [RingPlaces -> Nat] /\ recorded' \in Nat
    BY <1>4 DEF RecReads, RingNumbers, Half
  <2>3. remain' \in Int /\ writePtr' \in RingPlaces /\ readPtr' \in RingPlaces
    BY <1>4, <2>1 DEF RecReads, RingNumbers
  <2>4. spoilt' \in BOOLEAN
    BY <1>4 DEF RecReads, RingNumbers
  <2> QED BY <1>4, <2>2, <2>3, <2>4 DEF RecReads, RingNumbers
<1>5. ASSUME AmrStarts \/ AmrTakes \/ AmrReadDone \/ AmrEnds PROVE RingNumbers'
  BY <1>5 DEF AmrStarts, AmrTakes, AmrReadDone, AmrEnds, RingNumbers
<1>6. ASSUME AmrLeaves PROVE RingNumbers'
  <2>1. overtaken' \in BOOLEAN
    BY <1>6 DEF AmrLeaves, RingNumbers
  <2> QED BY <1>6, <2>1 DEF AmrLeaves, RingNumbers
<1>7. ASSUME AmrData PROVE RingNumbers'
  <2>1. heard' \in Nat /\ whole' \in BOOLEAN
    BY <1>7 DEF AmrData, RingNumbers
  <2> QED BY <1>7, <2>1 DEF AmrData, RingNumbers
<1>8. ASSUME AmrStores PROVE RingNumbers'
  <2>1. readPtr' \in RingPlaces
    BY <1>8, NextPlace DEF AmrStores, RingNumbers
  <2>2. spoilt' \in BOOLEAN
    BY <1>8 DEF AmrStores, RingNumbers
  <2> QED BY <1>8, <2>1, <2>2 DEF AmrStores, RingNumbers
<1> QED
  BY <1>1, <1>2, <1>3, <1>4, <1>5, <1>6, <1>7, <1>8 DEF RecNext, Main, Rec, Amr, Outside
-------------------------------------------------------------------------------
(* Who is at the microphone.                                               *)

\* No step begins a recording over another without a mark.
LEMMA InTurnStep ==
  ASSUME RecorderTyped, RingNumbers, RecInTurn, [RecNext]_recVars PROVE RecInTurn'
<1> USE DEF recorder, ring, reading, player, history
<1>1. ASSUME TalkKey \/ OtherPlays \/ Player PROVE RecInTurn'
  BY <1>1 DEF Player, TalkKey, OtherPlays, PlayerStarts, PlayerEnds, RecInTurn
<1>2. ASSUME TalkStart \/ TalkStartWaited PROVE RecInTurn'
  BY <1>2 DEF TalkStart, TalkStartWaited, RecInTurn
<1>3. ASSUME StartRecorder PROVE RecInTurn'
  BY <1>3 DEF StartRecorder, RecInTurn
<1>4. ASSUME RecStarts PROVE RecInTurn'
  BY <1>4 DEF RecStarts, RecInTurn
<1>5. ASSUME RecReads \/ RecEnds PROVE RecInTurn'
  BY <1>5 DEF RecReads, RecEnds, RecInTurn
<1>6. ASSUME AmrStarts \/ AmrTakes \/ AmrLeaves PROVE RecInTurn'
  BY <1>6 DEF AmrAt, AmrStarts, AmrTakes, AmrLeaves, RecInTurn
<1>7. ASSUME AmrData PROVE RecInTurn'
  BY <1>7 DEF AmrAt, AmrData, Stops, RecInTurn
<1>8. ASSUME AmrReadDone \/ AmrStores \/ AmrEnds PROVE RecInTurn'
  BY <1>8 DEF AmrAt, AmrReadDone, AmrStores, AmrEnds, RecInTurn
<1>9. CASE UNCHANGED recVars
  BY <1>9 DEF recVars, RecInTurn
<1> QED
  BY <1>1, <1>2, <1>3, <1>4, <1>5, <1>6, <1>7, <1>8, <1>9 DEF RecNext, Main, Rec, Amr
-------------------------------------------------------------------------------
(* What is in the ring.                                                    *)

\* Where amr is matters only as far as InOrder asks.
LEMMA RingIsKept ==
  ASSUME Unspoilt, UNCHANGED <<ring, held, recorded, heard, whole, spoilt>>,
         overtaken => overtaken',
         HandedOn' = HandedOn, amr' \in {"data", "last"} => amr \in {"data", "last"}
  PROVE  Unspoilt'
BY DEF Unspoilt, InRing, InOrder, HandedOn, ring, Offset, RingPlaces

\* A recording that begins finds nobody who still reads the last one.
LEMMA RecStartsUnspoilt ==
  ASSUME RecorderTyped, RingNumbers, RecInTurn, Unspoilt, RecStarts PROVE Unspoilt'
<1> USE DEF recorder, ring, reading, player, history
<1> SUFFICES ASSUME ~overtaken' PROVE InRing' /\ InOrder'
  BY DEF Unspoilt
<1>1. ~rec /\ amr \in {"start", "loop"} /\ amr' = amr
  BY DEF RecStarts, RecInTurn
<1>2. /\ remain' = 0 /\ writePtr' = 0 /\ readPtr' = 0
      /\ recorded' = 0 /\ heard' = 0 /\ whole' = TRUE
  BY <1>1 DEF RecStarts
<1>3. InRing'
  BY <1>2, RecorderAssumption DEF InRing, RingPlaces, Offset
<1>4. ~HandedOn' /\ amr' \notin {"data", "last"}
  BY <1>1 DEF HandedOn
<1> QED
  BY <1>2, <1>3, <1>4 DEF InOrder

\* The first half of a frame goes to the place behind the last whole one, the
\* second one makes it whole; the ring that is full drops a frame and is spoilt.
LEMMA RecReadsUnspoilt ==
  ASSUME RecorderTyped, RingNumbers, Unspoilt, RecReads PROVE Unspoilt'
<1> USE DEF recorder, ring, reading, player, history
<1> SUFFICES ASSUME ~spoilt', ~overtaken' PROVE InRing' /\ InOrder'
  BY DEF Unspoilt
<1>1. UNCHANGED <<amr, readPtr, held, heard, whole, overtaken>>
  BY DEF RecReads
<1>2. ~spoilt /\ InRing /\ InOrder
  BY <1>1 DEF RecReads, Unspoilt
<1>3. remain \in RingPlaces /\ readPtr \in RingPlaces /\ recorded \in Nat /\ heard \in Nat
  BY <1>2 DEF InRing, RingNumbers
<1>4. \A i \in 0 .. remain - 1 : Offset(readPtr + i) # writePtr /\ Offset(readPtr + i) \in RingPlaces
  <2> SUFFICES ASSUME NEW i \in 0 .. remain - 1
               PROVE  Offset(readPtr + i) # writePtr /\ Offset(readPtr + i) \in RingPlaces
    OBVIOUS
  <2>1. i \in RingPlaces /\ i # remain
    BY <1>3, RecorderAssumption DEF RingPlaces
  <2> QED
    BY <1>2, <1>3, <2>1, OffsetIsPlace, OffsetsDiffer DEF InRing
<1>5. \A i \in 0 .. remain - 1 : memory'[Offset(readPtr + i)] = recorded - remain + 1 + i
  <2> SUFFICES ASSUME NEW i \in 0 .. remain - 1
               PROVE  memory'[Offset(readPtr + i)] = recorded - remain + 1 + i
    OBVIOUS
  <2>1. memory'[Offset(readPtr + i)] = memory[Offset(readPtr + i)]
    BY <1>4 DEF RecReads, RingNumbers
  <2> QED BY <1>2, <2>1 DEF InRing
<1>6. CASE pieces = 0
  <2>1. UNCHANGED <<remain, writePtr, recorded>>
    BY <1>6 DEF RecReads
  <2>2. InRing'
    BY <1>1, <1>2, <1>5, <2>1 DEF InRing, Offset, RingPlaces
  <2> QED
    BY <1>1, <1>2, <2>1, <2>2 DEF InOrder, HandedOn
<1>7. CASE pieces # 0
  <2>1. /\ recorded' = recorded + 1 /\ remain' = remain + 1 /\ remain + 1 # MaxFlame
        /\ writePtr' = Next1(writePtr) /\ memory' = [memory EXCEPT ![writePtr] = recorded + 1]
    BY <1>7 DEF RecReads
  <2>2. remain' \in RingPlaces /\ remain' <= recorded'
    BY <1>2, <1>3, <2>1, RecorderAssumption DEF InRing, RingPlaces
  <2>3. remain \in Nat /\ remain + 1 < MaxFlame
    BY <1>3, <2>1, RecorderAssumption DEF RingPlaces
  <2>4. writePtr' = Offset(readPtr + remain')
    BY <1>2, <1>3, <2>1, <2>3, NextOffset DEF InRing
  <2>5. \A i \in 0 .. remain' - 1 : memory'[Offset(readPtr + i)] = recorded' - remain' + 1 + i
    <3> SUFFICES ASSUME NEW i \in 0 .. remain
                 PROVE  memory'[Offset(readPtr + i)] = recorded - remain + 1 + i
      BY <1>3, <2>1, <2>3
    <3>1. CASE i = remain
      <4>1. memory'[writePtr] = recorded + 1
        BY <2>1 DEF RingNumbers
      <4> QED BY <1>2, <1>3, <2>3, <3>1, <4>1 DEF InRing
    <3>2. CASE i # remain
      BY <1>5, <2>3, <3>2
    <3> QED BY <3>1, <3>2
  <2>6. InRing'
    BY <1>1, <2>2, <2>4, <2>5 DEF InRing, Offset, RingPlaces
  <2>7. InOrder'
    BY <1>1, <1>2, <1>3, <2>1, <2>3 DEF InOrder, HandedOn
  <2> QED BY <2>6, <2>7
<1> QED BY <1>6, <1>7

\* amr takes the oldest frame, which is the one behind that it handed on last.
LEMMA AmrTakesUnspoilt ==
  ASSUME RecorderTyped, RingNumbers, Unspoilt, AmrTakes PROVE Unspoilt'
<1>1. /\ UNCHANGED <<ring, recorded, heard, whole, spoilt, overtaken>>
      /\ held' = readPtr /\ remain > 0 /\ amr' \in {"data", "last"} /\ ~HandedOn /\ ~HandedOn'
  BY DEF AmrTakes, AmrAt, player, history, HandedOn
<1> QED
  BY <1>1 DEF Unspoilt, InRing, InOrder, ring, Offset, RingPlaces

\* The frame that is handed on is the next one.
LEMMA AmrDataUnspoilt ==
  ASSUME RecorderTyped, RingNumbers, Unspoilt, AmrData PROVE Unspoilt'
<1> SUFFICES ASSUME ~spoilt, ~overtaken PROVE InRing' /\ InOrder'
  BY DEF AmrData, Unspoilt
<1>1. InRing /\ InOrder
  BY DEF Unspoilt
<1>2. /\ UNCHANGED <<ring, held, recorded>> /\ heard' = memory[held]
      /\ whole' = (whole /\ heard' = heard + 1)
      /\ amr \in {"data", "last"} /\ ~HandedOn /\ HandedOn' /\ amr' \notin {"data", "last"}
  BY DEF AmrData, AmrAt, HandedOn
<1>3. remain > 0 /\ held = readPtr /\ heard = recorded - remain
  BY <1>1, <1>2 DEF InOrder, RingNumbers
<1>4. memory[readPtr] = recorded - remain + 1
  <2>1. 0 \in 0 .. remain - 1 /\ Offset(readPtr + 0) = readPtr
    BY <1>1, <1>3, RecorderAssumption DEF InRing, Offset, RingPlaces, RingNumbers
  <2>2. memory[Offset(readPtr + 0)] = recorded - remain + 1 + 0
    BY <1>1, <2>1 DEF InRing
  <2> QED BY <2>1, <2>2 DEF RingNumbers
<1>5. heard' = recorded - remain + 1 /\ heard' = heard + 1
  BY <1>2, <1>3, <1>4
<1>6. InRing'
  BY <1>1, <1>2 DEF InRing, ring, Offset, RingPlaces
<1> QED
  BY <1>1, <1>2, <1>3, <1>5, <1>6 DEF InOrder, ring

\* A count of a frame that rec makes between the two halves of read_done is
\* lost, and that spoils the ring; otherwise the frame is counted off.
LEMMA AmrStoresUnspoilt ==
  ASSUME RecorderTyped, RingNumbers, Unspoilt, AmrStores PROVE Unspoilt'
<1> SUFFICES ASSUME ~spoilt', ~overtaken' PROVE InRing' /\ InOrder'
  BY DEF Unspoilt
<1>1. /\ ~spoilt /\ ~overtaken /\ remain' = remain - 1 /\ readPtr' = Next1(readPtr)
      /\ UNCHANGED <<writePtr, memory, recorded, heard, whole>>
      /\ HandedOn /\ ~HandedOn' /\ amr' \notin {"data", "last"}
  BY DEF AmrStores, AmrAt, HandedOn
<1>2. InRing /\ InOrder
  BY <1>1 DEF Unspoilt
<1>3. remain \in RingPlaces /\ remain > 0 /\ heard = recorded - remain + 1 /\ whole /\ recorded \in Nat
      /\ readPtr \in RingPlaces
  BY <1>1, <1>2 DEF InRing, InOrder, RingNumbers
<1>4. remain - 1 \in Nat /\ (remain - 1) + 1 < MaxFlame /\ (remain - 1) + 1 = remain
  BY <1>3, RecorderAssumption DEF RingPlaces
<1>5. writePtr' = Offset(readPtr' + remain')
  <2>1. Offset(Next1(readPtr) + (remain - 1)) = Offset(readPtr + ((remain - 1) + 1))
    BY <1>3, <1>4, OffsetFromNext
  <2> QED BY <1>1, <1>2, <1>4, <2>1 DEF InRing
<1>6. \A i \in 0 .. remain' - 1 : memory'[Offset(readPtr' + i)] = recorded' - remain' + 1 + i
  <2> SUFFICES ASSUME NEW i \in 0 .. remain - 2
               PROVE  memory[Offset(Next1(readPtr) + i)] = recorded - remain + 2 + i
    BY <1>1, <1>3, <1>4
  <2>1. i \in Nat /\ i + 1 < MaxFlame /\ i + 1 \in 0 .. remain - 1
    BY <1>3, <1>4, RecorderAssumption DEF RingPlaces
  <2>2. Offset(Next1(readPtr) + i) = Offset(readPtr + (i + 1))
    BY <1>3, <2>1, OffsetFromNext
  <2>3. memory[Offset(readPtr + (i + 1))] = recorded - remain + 1 + (i + 1)
    BY <1>2, <2>1 DEF InRing
  <2> QED BY <1>3, <1>4, <2>1, <2>2, <2>3
<1>7. remain' \in RingPlaces /\ remain' <= recorded'
  <2>1. remain <= recorded
    BY <1>2 DEF InRing
  <2> QED BY <1>1, <1>3, <1>4, <2>1, RecorderAssumption DEF RingPlaces
<1>8. InRing'
  BY <1>5, <1>6, <1>7 DEF InRing, Offset, RingPlaces
<1> QED
  BY <1>1, <1>3, <1>4, <1>8 DEF InOrder

\* What is in the ring stays as promised, whoever takes the step.
LEMMA UnspoiltStep ==
  ASSUME RecorderTyped, RingNumbers, RecInTurn, Unspoilt, [RecNext]_recVars PROVE Unspoilt'
<1> USE DEF recorder, ring, reading, player, history
<1>1. CASE Outside \/ UNCHANGED recVars
  <2>1. UNCHANGED <<ring, held, amr, recorded, heard, whole, spoilt, overtaken>>
    BY <1>1, OutsideLeavesRing DEF recVars
  <2> QED BY <2>1, RingIsKept DEF HandedOn
<1>2. ASSUME StartRecorder PROVE Unspoilt'
  <2>1. /\ UNCHANGED <<ring, held, recorded, heard, whole, spoilt>>
        /\ overtaken => overtaken'
    BY <1>2 DEF StartRecorder
  <2>2. HandedOn' = HandedOn /\ (amr' \in {"data", "last"} => amr \in {"data", "last"})
    BY <1>2 DEF StartRecorder, HandedOn
  <2> QED BY <2>1, <2>2, RingIsKept
<1>3. ASSUME AmrStarts \/ AmrLeaves \/ AmrReadDone \/ AmrEnds PROVE Unspoilt'
  <2>1. UNCHANGED <<ring, held, recorded, heard, whole, spoilt>>
    BY <1>3 DEF AmrStarts, AmrLeaves, AmrReadDone, AmrEnds
  <2>2. overtaken => overtaken'
    BY <1>3 DEF AmrStarts, AmrLeaves, AmrReadDone, AmrEnds
  <2>3. HandedOn' = HandedOn /\ (amr' \in {"data", "last"} => amr \in {"data", "last"})
    BY <1>3 DEF AmrAt, AmrStarts, AmrLeaves, AmrReadDone, AmrEnds, HandedOn
  <2> QED BY <2>1, <2>2, <2>3, RingIsKept
<1> QED
  BY <1>1, <1>2, <1>3, RecStartsUnspoilt, RecReadsUnspoilt, AmrTakesUnspoilt, AmrDataUnspoilt,
     AmrStoresUnspoilt DEF RecNext, Main, Rec, Amr, Outside
-------------------------------------------------------------------------------
\* The invariant is inductive, for the recorder whose threads run when they like.
LEMMA RecorderIsOrderly == RecSpec => []RecorderInv
<1>1. RecorderInv /\ [RecNext]_recVars => RecorderInv'
  BY TypedStep, NumbersStep, InTurnStep, UnspoiltStep DEF RecorderInv
<1> QED BY RecorderBegins, <1>1, PTL DEF RecSpec

\* The types: the events in the queue of events.cpp, the threads, and the ring,
\* whose count of frames stays below its size as long as nothing spoilt it.
THEOREM RecorderIsTyped == RecSpec => []RecTypeOK
<1>1. RecorderInv => RecTypeOK
  BY DEF RecorderInv, RecorderTyped, RingNumbers, Unspoilt, InRing, RecTypeOK, AmrStates, RingPlaces
<1> QED BY RecorderIsOrderly, <1>1, PTL

\* Nobody at the microphone, and the recorder is off: neither rec_thread nor
\* the player of duer_recorder.cpp goes on for nobody.
THEOREM MicrophoneGoesOff == RecSpec => []MicrophoneIsOff
<1>1. RecorderInv => MicrophoneIsOff
  BY DEF RecorderInv, RecInTurn, MicrophoneIsOff
<1> QED BY RecorderIsOrderly, <1>1, PTL

\* As long as ringbuff.cpp lost no count and overwrote no frame in the reader's
\* hand, and no start was overtaken, the frames the speech service gets are those
\* of the microphone, one after the other and complete.
THEOREM SpeechIsWhole == RecSpec => []SpeechArrivesWhole
<1>1. RecorderInv => SpeechArrivesWhole
  BY DEF RecorderInv, Unspoilt, InOrder, SpeechArrivesWhole
<1> QED BY RecorderIsOrderly, <1>1, PTL
===============================================================================
