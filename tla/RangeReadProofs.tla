--------------------------- MODULE RangeReadProofs ---------------------------
(***************************************************************************)
(* RangeRead for every chunk layout, buffer, file length and range: its    *)
(* types, and that the body is what was asked for.  The invariant is that  *)
(* of a loop: the bytes sent so far are those from the beginning of the    *)
(* range to the place the stream has reached (At), and what remains is the *)
(* rest.                                                                   *)
(***************************************************************************)
EXTENDS RangeRead, ChunkLayoutProofs, SequenceTheorems

\* The length of a range is narrowed by `as usize`: the body is right as long as
\* files are shorter than that (any file, in a 64-bit build).
FilesFitUsize == \A n \in Sizes : n < Usize

\* The range that is served, from First to Stop - 1, if the file has its first byte.
Satisfiable == UsedRange # NoRange /\ UsedRange.start < file.plain

First == UsedRange.start
Stop == PartEnd(UsedRange) + 1

\* The next plaintext byte of a sized stream.
At == IF file.encrypted THEN position.active_chunk_counter * PlainChunk + Drained
                        ELSE seek

\* What the answer says at each pc.
Replied ==
    /\ pc \in {"cache", "range"} => reply.status = 0
    /\ pc = "whole" => reply.status = 200
    /\ pc \in {"open", "sized", "failed"} => reply.status = 206
    /\ pc = "open" => file.encrypted
    /\ reply.status = 200 => /\ pc \in {"whole", "done"}
                             /\ UsedRange = NoRange
                             /\ reply.length = file.plain
    /\ reply.status = 206 => /\ UsedRange # NoRange /\ Accepted(UsedRange)
                             /\ reply = PartReply(UsedRange)
    /\ request.head => pc \notin {"whole", "open", "sized"}
    /\ request.head \/ pc \in {"cache", "range", "open"} => body = << >>

\* Nothing fails but what is beyond the end.
Untroubled ==
    pc \in {"failed", "panicked"} \/ reply.status = 500 =>
       UsedRange # NoRange /\ ~Satisfiable

\* How far the stream is.
WholeSoFar ==
    pc = "whole" =>
       IF file.encrypted
       THEN \E i \in 0 .. LastChunk(file.plain) :
               seek = ChunkBegin(i) /\ body = Bytes(0, i * PlainChunk)
       ELSE seek \in 0 .. file.plain /\ body = Bytes(0, seek)

PartSoFar ==
    Satisfiable =>
       /\ pc = "open" => remaining = Stop - First
       /\ pc = "sized" =>
             /\ At \in First .. Stop
             /\ body = Bytes(First, At)
             /\ remaining = Stop - At
             /\ file.encrypted => seek = ChunkBegin(position.active_chunk_counter)

\* What was sent in the end.
WholeFinished ==
    pc = "done" /\ ~request.head /\ reply.status = 200 => body = Bytes(0, file.plain)

PartFinished ==
    pc = "done" /\ ~request.head /\ reply.status = 206 /\ Satisfiable =>
       \E stop \in First .. Stop : /\ body = Bytes(First, stop)
                                   /\ FilesFitUsize => stop = Stop

-----------------------------------------------------------------------------
(* Stretches of the plaintext.                                             *)

LEMMA BytesProperties ==
    ASSUME NEW a \in Nat, NEW b \in Nat, a <= b, NEW S, a .. b - 1 \subseteq S
    PROVE  /\ Bytes(a, b) \in Seq(S)
           /\ Len(Bytes(a, b)) = b - a
           /\ DOMAIN Bytes(a, b) = 1 .. b - a
           /\ \A k \in 1 .. b - a : Bytes(a, b)[k] = a + k - 1
<1> DEFINE n == b - a
<1>1. n \in Nat
  OBVIOUS
<1>2. \A k \in 1 .. n : a + k - 1 \in S
  OBVIOUS
<1>3. Bytes(a, b) \in [1 .. n -> S]
  BY <1>2 DEF Bytes
<1>4. \A f : f \in [1 .. n -> S] => f \in Seq(S) /\ Len(f) = n
  BY <1>1
<1> QED BY <1>3, <1>4 DEF Bytes

LEMMA BytesEqual ==
    ASSUME NEW a \in Nat, NEW b \in Nat, a <= b, NEW s \in Seq(Nat), Len(s) = b - a,
           \A k \in 1 .. b - a : s[k] = a + k - 1
    PROVE  s = Bytes(a, b)
<1>1. a .. b - 1 \subseteq Nat
  OBVIOUS
<1>2. /\ Bytes(a, b) \in Seq(Nat) /\ Len(Bytes(a, b)) = b - a
      /\ \A k \in 1 .. b - a : Bytes(a, b)[k] = a + k - 1
  BY <1>1, BytesProperties
<1> QED BY <1>2, SeqEqual

LEMMA BytesEmpty ==
    ASSUME NEW a \in Nat
    PROVE  Bytes(a, a) = << >>
<1>1. a .. a - 1 \subseteq Nat /\ a <= a
  OBVIOUS
<1>2. Bytes(a, a) \in Seq(Nat) /\ Len(Bytes(a, a)) = 0
  BY <1>1, BytesProperties
<1> QED BY <1>2, EmptySeq

LEMMA BytesConcat ==
    ASSUME NEW a \in Nat, NEW b \in Nat, NEW c \in Nat, a <= b, b <= c
    PROVE  Bytes(a, b) \o Bytes(b, c) = Bytes(a, c)
<1> DEFINE s == Bytes(a, b)
           t == Bytes(b, c)
<1>1. a .. b - 1 \subseteq Nat /\ b .. c - 1 \subseteq Nat
  OBVIOUS
<1>2. /\ s \in Seq(Nat) /\ Len(s) = b - a /\ \A k \in 1 .. b - a : s[k] = a + k - 1
      /\ t \in Seq(Nat) /\ Len(t) = c - b /\ \A k \in 1 .. c - b : t[k] = b + k - 1
  BY <1>1, BytesProperties
<1> HIDE DEF s, t
<1>3. /\ s \o t \in Seq(Nat) /\ Len(s \o t) = Len(s) + Len(t)
      /\ \A k \in 1 .. Len(s) + Len(t) :
            (s \o t)[k] = IF k <= Len(s) THEN s[k] ELSE t[k - Len(s)]
  BY <1>2, ConcatProperties
<1>4. ASSUME NEW k \in 1 .. c - a PROVE (s \o t)[k] = a + k - 1
  <2>1. CASE k <= b - a
    BY <1>2, <1>3, <2>1
  <2>2. CASE ~(k <= b - a)
    <3>1. k - (b - a) \in 1 .. c - b
      BY <2>2
    <3>2. (s \o t)[k] = t[k - (b - a)]
      BY <1>2, <1>3, <2>2
    <3>3. t[k - (b - a)] = b + (k - (b - a)) - 1
      BY <1>2, <3>1
    <3> QED BY <3>2, <3>3
  <2> QED BY <2>1, <2>2
<1>5. Len(s \o t) = c - a /\ a <= c
  BY <1>2, <1>3
<1> QED BY <1>3, <1>4, <1>5, BytesEqual DEF s, t

\* A stretch of a stretch.
LEMMA BytesSubSeq ==
    ASSUME NEW a \in Nat, NEW b \in Nat, NEW x \in Nat, NEW y \in Nat, a <= x, x <= y, y <= b,
           NEW i \in Int, NEW j \in Int, i = x - a + 1, j = y - a
    PROVE  SubSeq(Bytes(a, b), i, j) = Bytes(x, y)
<1> DEFINE s == Bytes(a, b)
           t == SubSeq(s, i, j)
<1>1. a .. b - 1 \subseteq Nat /\ a <= b
  OBVIOUS
<1>2. s \in Seq(Nat) /\ Len(s) = b - a /\ \A k \in 1 .. b - a : s[k] = a + k - 1
  BY <1>1, BytesProperties
<1> HIDE DEF s
<1>3. \A k \in i .. j : s[k] \in Nat
  BY <1>2
<1>4. /\ t \in Seq(Nat) /\ Len(t) = IF i <= j THEN j - i + 1 ELSE 0
      /\ \A k \in 1 .. j - i + 1 : t[k] = s[i + k - 1]
  BY <1>3, SubSeqProperties
<1> HIDE DEF t
<1>5. Len(t) = y - x
  BY <1>4
<1>6. ASSUME NEW k \in 1 .. y - x PROVE t[k] = x + k - 1
  <2>1. t[k] = s[i + k - 1] /\ i + k - 1 \in 1 .. b - a
    BY <1>4
  <2> QED BY <1>2, <2>1
<1>7. t = Bytes(x, y)
  BY <1>4, <1>5, <1>6, BytesEqual
<1> QED BY <1>7 DEF s, t

LEMMA BytesPrefix ==
    ASSUME NEW a \in Nat, NEW b \in Nat, NEW c \in Nat, a <= b, b <= c
    PROVE  IsPrefix(Bytes(a, b), Bytes(a, c))
<1>1. a .. b - 1 \subseteq Nat /\ a .. c - 1 \subseteq Nat /\ a <= c
  OBVIOUS
<1>2. Len(Bytes(a, b)) = b - a /\ Len(Bytes(a, c)) = c - a
  BY <1>1, BytesProperties
<1>3. ASSUME NEW d \in Nat, b <= d PROVE SubSeq(Bytes(a, d), 1, b - a) = Bytes(a, b)
  <2>1. /\ a <= a /\ a <= b /\ 1 \in Int /\ b - a \in Int
        /\ 1 = a - a + 1 /\ b - a = b - a
    OBVIOUS
  <2> QED BY <1>3, <2>1, BytesSubSeq
<1>4. SubSeq(Bytes(a, b), 1, b - a) = SubSeq(Bytes(a, c), 1, b - a)
  BY <1>3
<1> QED BY <1>2, <1>4 DEF IsPrefix

-----------------------------------------------------------------------------
(* Sizes, ranges and chunks.                                               *)

LEMMA Remainder ==
    ASSUME NEW w \in Nat \ {0}
    PROVE  /\ \A a \in Int : a % w \in 0 .. w - 1
           /\ \A a \in 0 .. w - 1 : a % w = a
<1>1. \A a \in Int : a % w \in 0 .. w - 1
  OBVIOUS
<1>2. ASSUME NEW a \in 0 .. w - 1 PROVE a % w = a
  <2>1. a \in Nat /\ 0 \in Nat /\ a = w * 0 + a
    OBVIOUS
  <2> QED BY <1>2, <2>1, DivisionUnique
<1> QED BY <1>1, <1>2

LEMMA WordTypes == Word \in Nat \ {0} /\ Usize \in Nat \ {0}
BY WordAssumption

\* The size of a file as the server knows it is that of its plaintext.
LEMMA FileSizes ==
    ASSUME TypeOK
    PROVE  /\ file.plain \in Nat /\ file.plain \in Sizes
           /\ PlainSize = file.plain
           /\ SizeOnDisk = IF file.encrypted THEN EncryptedSize(file.plain) ELSE file.plain
           /\ SizeOnDisk \in Nat /\ file.plain <= SizeOnDisk
           /\ 2 * (SizeOnDisk + EncryptedChunk) < Word
<1> DEFINE n == file.plain
           e == EncryptedSize(n)
<1>1. n \in Sizes /\ n \in Nat
  <2>1. file \in [encrypted : BOOLEAN, plain : Sizes]
    BY DEF TypeOK
  <2>2. n \in Sizes
    BY <2>1
  <2> QED BY <2>2, BufferAssumption
<1>2. e \in Nat /\ n <= e
  <2> DEFINE q == n \div PlainChunk + 1
  <2>1. n \div PlainChunk \in Nat
    BY <1>1, Division, LayoutAssumption
  <2>2. q \in Nat
    BY <2>1
  <2>3. Overhead * q \in Nat
    <3>1. \A x, y \in Nat : x * y \in Nat
      OBVIOUS
    <3> HIDE DEF q
    <3> QED BY <2>2, <3>1, LayoutAssumption
  <2>4. e = Nonce + n + Overhead * q
    BY DEF EncryptedSize
  <2> HIDE DEF e, q, n
  <2> QED BY <1>1, <2>3, <2>4, LayoutAssumption
<1>3. 2 * (e + EncryptedChunk) < Word
  BY <1>1, WordAssumption
<1>4. PlainSize = n
  BY <1>1, DecryptedSizeIsPlainSize DEF PlainSize, SizeOnDisk
<1>5. SizeOnDisk = IF file.encrypted THEN e ELSE n
  BY DEF SizeOnDisk
<1> HIDE DEF n, e
<1>6. SizeOnDisk \in Nat /\ n <= SizeOnDisk /\ SizeOnDisk <= e
  BY <1>1, <1>2, <1>5
<1>7. EncryptedChunk \in Nat
  BY LayoutAssumption DEF EncryptedChunk
<1>8. 2 * (SizeOnDisk + EncryptedChunk) < Word
  BY <1>2, <1>3, <1>6, <1>7, WordTypes
<1> QED BY <1>1, <1>4, <1>5, <1>6, <1>8 DEF n, e

LEMMA RangeTypes ==
    ASSUME TypeOK, UsedRange # NoRange
    PROVE  /\ First \in 0 .. Word - 1
           /\ PartEnd(UsedRange) \in 0 .. Word - 1
           /\ PartSize(UsedRange) \in 0 .. Word - 1
<1> DEFINE range == UsedRange
           end == (PlainSize - 1) % Word
<1>1. range = request.range /\ range \in Ranges
  BY DEF UsedRange, TypeOK, Requests
<1>2. range.start \in 0 .. Word - 1 /\ (range.end # NoEnd => range.end \in 0 .. Word - 1)
  BY <1>1, WordAssumption DEF Ranges
<1>3. end \in 0 .. Word - 1
  <2>1. PlainSize - 1 \in Int
    BY FileSizes
  <2> QED BY <2>1, Remainder, WordTypes
<1>4. PartEnd(range) = IF range.end = NoEnd THEN end ELSE SmallerOf(range.end, end)
  BY DEF PartEnd
<1> HIDE DEF end
<1>5. PartEnd(range) \in 0 .. Word - 1
  BY <1>2, <1>3, <1>4 DEF SmallerOf
<1>6. PartSize(range) = (PartEnd(range) - range.start + 1) % Word
  BY DEF PartSize
<1>7. PartEnd(range) - range.start + 1 \in Int
  BY <1>2, <1>5, WordTypes
<1>8. PartSize(range) \in 0 .. Word - 1
  BY <1>6, <1>7, Remainder, WordTypes
<1> QED BY <1>2, <1>5, <1>8 DEF First

\* A range whose first byte the file has: nothing wraps, and it ends inside the file.
LEMMA SatisfiableRange ==
    ASSUME TypeOK, Satisfiable, Accepted(UsedRange)
    PROVE  /\ First \in Nat /\ Stop \in Nat /\ First < Stop /\ Stop <= file.plain
           /\ PartSize(UsedRange) = Stop - First
           /\ ~Underflows(UsedRange) /\ ~TooFar(First)
<1> DEFINE range == UsedRange
           n == file.plain
           e == PartEnd(range)
<1>1. n \in Nat /\ PlainSize = n /\ 2 * n < Word /\ First = range.start
  <2>1. EncryptedChunk \in Nat
    BY LayoutAssumption DEF EncryptedChunk
  <2>2. /\ n \in Nat /\ PlainSize = n /\ SizeOnDisk \in Nat /\ n <= SizeOnDisk
        /\ 2 * (SizeOnDisk + EncryptedChunk) < Word
    BY FileSizes
  <2>3. 2 * n < Word
    BY <2>1, <2>2, WordTypes
  <2> QED BY <2>2, <2>3 DEF First
<1>2. First \in 0 .. Word - 1 /\ e \in 0 .. Word - 1 /\ First < n
  BY RangeTypes DEF Satisfiable, First
<1>3. (PlainSize - 1) % Word = n - 1
  <2>1. n - 1 \in 0 .. Word - 1
    BY <1>1, <1>2, WordTypes
  <2> QED BY <1>1, <2>1, Remainder, WordTypes
<1>4. e = IF range.end = NoEnd THEN n - 1 ELSE SmallerOf(range.end, n - 1)
  BY <1>3 DEF PartEnd
<1>5. range.end # NoEnd => range.end \in 0 .. Word - 1 /\ range.end >= First
  <2>1. range = request.range /\ range \in Ranges
    BY DEF UsedRange, TypeOK, Requests, Satisfiable
  <2> QED BY <2>1, WordAssumption DEF Ranges, Accepted, First
<1>6. First <= e /\ e <= n - 1
  BY <1>1, <1>2, <1>4, <1>5, WordTypes DEF SmallerOf
<1> HIDE DEF e
<1>7. e - First + 1 \in 0 .. Word - 1 /\ Stop = e + 1
  BY <1>1, <1>2, <1>6, WordTypes DEF Stop, e
<1>8. PartSize(range) = e - First + 1
  <2>1. PartSize(range) = (e - First + 1) % Word
    BY DEF PartSize, First, e
  <2> QED BY <1>7, <2>1, Remainder, WordTypes
<1>9. ~Underflows(range)
  <2>1. PlainSize # 0 /\ ~(e < First) /\ e - First + 1 # Word
    BY <1>1, <1>2, <1>6, <1>7, WordTypes
  <2> QED BY <2>1 DEF Underflows, First, e
<1>10. ~TooFar(First)
  BY <1>1, <1>2, WordTypes DEF TooFar
<1>11. Stop \in Nat /\ First < Stop /\ Stop <= n /\ e - First + 1 = Stop - First
  BY <1>1, <1>2, <1>6, <1>7, WordTypes
<1> QED BY <1>2, <1>8, <1>9, <1>10, <1>11

\* Chunk i of a file of n bytes, on disk and in the plaintext.
LEMMA ChunkFacts ==
    ASSUME NEW n \in Nat, NEW i \in Nat, i <= LastChunk(n)
    PROVE  /\ ChunkLength(n, i) \in 1 .. EncryptedChunk
           /\ ChunkLength(n, i) < EncryptedChunk <=> i = LastChunk(n)
           /\ ChunkBegin(i) \in Nat
           /\ ChunkBegin(i) + ChunkLength(n, i) <= EncryptedSize(n)
           /\ i # LastChunk(n) => ChunkBegin(i) + ChunkLength(n, i) = ChunkBegin(i + 1)
           /\ i = LastChunk(n) => ChunkBegin(i) + ChunkLength(n, i) = EncryptedSize(n)
           /\ i * PlainChunk \in Nat /\ (i + 1) * PlainChunk = i * PlainChunk + PlainChunk
           /\ i * PlainChunk <= n
           /\ i # LastChunk(n) => (i + 1) * PlainChunk <= n
           /\ i = LastChunk(n) => n < (i + 1) * PlainChunk
<1> DEFINE q == LastChunk(n)
           r == n % PlainChunk
           c == EncryptedChunk
<1>1. /\ q \in Nat /\ r \in 0 .. PlainChunk - 1 /\ n = PlainChunk * q + r
      /\ EncryptedSize(n) - Nonce = c * q + (r + Overhead)
      /\ r + Overhead \in 1 .. c - 1
      /\ EncryptedSize(n) - Nonce \in Nat
  BY PlainLayout, EncryptedLayout
<1>2. ChunkLength(n, i) = IF i < q THEN c ELSE r + Overhead
  BY DEF ChunkLength
<1>3. ChunkBegin(i) = Nonce + i * c /\ ChunkBegin(i + 1) = Nonce + (i + 1) * c
  BY DEF ChunkBegin
<1>4. c \in Nat \ {0} /\ PlainChunk \in Nat \ {0} /\ Nonce \in Nat /\ i \in Int
  BY LayoutAssumption DEF EncryptedChunk
<1>5. i <= q /\ (i < q <=> i # q)
  BY <1>1
<1>6. EncryptedSize(n) \in Int
  <2>1. Overhead * (q + 1) \in Int
    <3> HIDE DEF q
    <3> QED BY <1>1, LayoutAssumption
  <2> QED BY <2>1, <1>4 DEF EncryptedSize, LastChunk
<1> DEFINE size == EncryptedSize(n)
<1> HIDE DEF q, r, c, size
<1>7. /\ i * c \in Nat /\ i * PlainChunk \in Nat /\ c * q \in Nat /\ PlainChunk * q \in Nat
      /\ i * c = c * i /\ i * PlainChunk = PlainChunk * i
      /\ (i + 1) * c = i * c + c
      /\ (i + 1) * PlainChunk = i * PlainChunk + PlainChunk
  BY <1>1, <1>4
<1>8. i < q => c * q >= c * i + c /\ PlainChunk * q >= PlainChunk * i + PlainChunk
  BY <1>1, <1>4, ProductGrows
<1>9. size \in Int /\ size = Nonce + c * q + (r + Overhead) /\ r + Overhead \in 1 .. c - 1
  BY <1>1, <1>4, <1>6, <1>7 DEF size
<1>10. CASE i < q
  <2>1. ChunkLength(n, i) = c /\ i # q
    BY <1>2, <1>5, <1>10
  <2>2. Nonce + i * c + c <= size
    BY <1>4, <1>7, <1>8, <1>9, <1>10
  <2>3. i * PlainChunk + PlainChunk <= n
    BY <1>1, <1>4, <1>7, <1>8, <1>10
  <2> HIDE DEF c
  <2> QED BY <1>3, <1>4, <1>7, <2>1, <2>2, <2>3 DEF q, c, size
<1>11. CASE i = q
  <2>1. ChunkLength(n, i) = r + Overhead /\ ~(i < q)
    BY <1>2, <1>5, <1>11
  <2>2. Nonce + i * c + (r + Overhead) = size
    BY <1>4, <1>7, <1>9, <1>11
  <2>3. i * PlainChunk <= n /\ n < i * PlainChunk + PlainChunk
    BY <1>1, <1>4, <1>7, <1>11
  <2> QED BY <1>3, <1>4, <1>7, <1>9, <1>11, <2>1, <2>2, <2>3 DEF q, c, size
<1> QED BY <1>5, <1>10, <1>11

LEMMA EncryptedChunkType == EncryptedChunk \in Nat \ {0}
BY LayoutAssumption DEF EncryptedChunk

LEMMA LastChunkBound ==
    ASSUME NEW n \in Nat
    PROVE  LastChunk(n) \in Nat /\ LastChunk(n) <= n
<1> DEFINE q == LastChunk(n)
<1>1. q \in Nat /\ n % PlainChunk \in Nat /\ n = PlainChunk * q + (n % PlainChunk)
  BY PlainLayout
<1>2. PICK d \in Nat : PlainChunk = 1 + d
  <2>1. PlainChunk - 1 \in Nat /\ PlainChunk = 1 + (PlainChunk - 1)
    BY LayoutAssumption
  <2> QED BY <2>1, Zenon
<1> HIDE DEF q
<1>3. PlainChunk * q = q + d * q /\ d * q \in Nat
  BY <1>1, <1>2
<1>4. q <= n
  BY <1>1, <1>3
<1> QED BY <1>1, <1>4 DEF q

\* What the file has from seek on.
LEMMA AvailableType ==
    ASSUME TypeOK
    PROVE  Available \in Nat /\ (Available > 0 => Available = SizeOnDisk - seek)
BY FileSizes DEF TypeOK, Available

LEMMA ReadCountType ==
    ASSUME TypeOK
    PROVE  /\ ReadCount \in 0 .. EncryptedChunk /\ ReadCount <= Available
           /\ ReadCount > 0 => /\ seek + ReadCount <= SizeOnDisk
                               /\ seek + ReadCount \in 0 .. Word - 1
<1>1. /\ Available \in Nat /\ (Available > 0 => Available = SizeOnDisk - seek)
      /\ seek \in Nat /\ EncryptedChunk \in Nat
      /\ SizeOnDisk \in Nat /\ SizeOnDisk < Word /\ Word \in Nat
  <2>1. SizeOnDisk \in Nat /\ 2 * (SizeOnDisk + EncryptedChunk) < Word
    BY FileSizes
  <2>2. seek \in Nat /\ EncryptedChunk \in Nat /\ Word \in Nat
    BY EncryptedChunkType, WordTypes DEF TypeOK
  <2>3. SizeOnDisk < Word
    BY <2>1, <2>2
  <2> QED BY <2>1, <2>2, <2>3, AvailableType
<1>2. ReadCount = IF EncryptedChunk < Available THEN EncryptedChunk ELSE Available
  BY DEF ReadCount, SmallerOf
<1> QED BY <1>1, <1>2

\* At the beginning of a chunk, the chunk is what is read, and it decrypts.
LEMMA ChunkReads ==
    ASSUME TypeOK, file.encrypted, NEW i \in Nat, i <= LastChunk(file.plain),
           seek = ChunkBegin(i)
    PROVE  /\ ReadCount = ChunkLength(file.plain, i)
           /\ Decrypts(i, ReadCount < EncryptedChunk)
           /\ (seek - Nonce) \div EncryptedChunk = i
<1> DEFINE n == file.plain
           len == ChunkLength(n, i)
<1>1. n \in Nat /\ SizeOnDisk = EncryptedSize(n) /\ SizeOnDisk \in Nat
  BY FileSizes
<1>2. /\ len \in 1 .. EncryptedChunk /\ (len < EncryptedChunk <=> i = LastChunk(n))
      /\ ChunkBegin(i) \in Nat /\ ChunkBegin(i) + len <= EncryptedSize(n)
      /\ i # LastChunk(n) => ChunkBegin(i) + len = ChunkBegin(i + 1)
      /\ i = LastChunk(n) => ChunkBegin(i) + len = EncryptedSize(n)
  BY <1>1, ChunkFacts
<1>3. i # LastChunk(n) => len = EncryptedChunk
  BY <1>2, EncryptedChunkType
<1> HIDE DEF len
<1>4. Available = SizeOnDisk - seek
  BY <1>1, <1>2, EncryptedChunkType DEF Available
<1>5. ReadCount = len
  <2>1. CASE i = LastChunk(n)
    <3>1. Available = len /\ len < EncryptedChunk
      BY <1>1, <1>2, <1>4, <2>1, EncryptedChunkType
    <3> QED BY <1>2, <3>1, EncryptedChunkType DEF ReadCount, SmallerOf
  <2>2. CASE i # LastChunk(n)
    <3>1. EncryptedChunk <= Available /\ len = EncryptedChunk
      BY <1>1, <1>2, <1>3, <1>4, <2>2, EncryptedChunkType
    <3> QED BY <1>1, <1>2, <1>4, <3>1, EncryptedChunkType DEF ReadCount, SmallerOf
  <2> QED BY <2>1, <2>2
<1>6. Decrypts(i, ReadCount < EncryptedChunk)
  BY <1>2, <1>5 DEF Decrypts, len
<1>7. (seek - Nonce) \div EncryptedChunk = i
  <2>1. i * EncryptedChunk = EncryptedChunk * i + 0 /\ i * EncryptedChunk \in Nat
        /\ 0 \in 0 .. EncryptedChunk - 1
    BY EncryptedChunkType
  <2>2. (i * EncryptedChunk) \div EncryptedChunk = i
    BY <2>1, DivisionUnique, EncryptedChunkType
  <2>3. seek - Nonce = i * EncryptedChunk
    BY <2>1, LayoutAssumption DEF ChunkBegin
  <2> QED BY <2>2, <2>3
<1> QED BY <1>5, <1>6, <1>7 DEF len

\* Where the plaintext of a chunk ends.
ChunkEnd(i) == IF i = LastChunk(file.plain) THEN file.plain ELSE (i + 1) * PlainChunk

LEMMA ChunkPlain ==
    ASSUME file.plain \in Nat, NEW i \in Nat, i <= LastChunk(file.plain)
    PROVE  /\ i * PlainChunk \in Nat /\ ChunkEnd(i) \in Nat
           /\ i * PlainChunk <= ChunkEnd(i) /\ ChunkEnd(i) <= file.plain
           /\ PlainOfChunk(i) = Bytes(i * PlainChunk, ChunkEnd(i))
           /\ Len(PlainOfChunk(i)) = ChunkEnd(i) - i * PlainChunk
<1> DEFINE n == file.plain
           from == i * PlainChunk
           next == (i + 1) * PlainChunk
           to == ChunkEnd(i)
<1>1. /\ from \in Nat /\ next = from + PlainChunk /\ from <= n
      /\ i # LastChunk(n) => next <= n
      /\ i = LastChunk(n) => n < next
  BY ChunkFacts
<1>2. PlainOfChunk(i) = Bytes(from, SmallerOf(next, n))
  BY DEF PlainOfChunk
<1>3. to = IF i = LastChunk(n) THEN n ELSE next
  BY DEF ChunkEnd
<1> HIDE DEF from, next, to
<1>4. SmallerOf(next, n) = to
  BY <1>1, <1>3, LayoutAssumption DEF SmallerOf
<1>5. to \in Nat /\ from <= to /\ to <= n
  BY <1>1, <1>3, LayoutAssumption
<1>6. from .. to - 1 \subseteq Nat
  BY <1>1, <1>5
<1>7. Len(Bytes(from, to)) = to - from
  BY <1>1, <1>5, <1>6, BytesProperties
<1> QED BY <1>1, <1>2, <1>4, <1>5, <1>7 DEF from, to

-----------------------------------------------------------------------------
(* Types.                                                                  *)

Positions == [active_chunk_counter : Int, beginning_of_active_chunk : Int,
              offset_in_active_chunk : Int]

Typed == TypeOK /\ position \in Positions

LEMMA PositionTypes ==
    ASSUME NEW off \in Nat
    PROVE  /\ ChunkedPosition(off) \in Positions
           /\ ChunkedPosition(off).active_chunk_counter \in 0 .. off
           /\ ChunkedPosition(off).offset_in_active_chunk \in 0 .. PlainChunk - 1
<1> DEFINE p == ChunkedPosition(off)
           i == p.active_chunk_counter
<1>1. off + 1 \in Nat /\ off < off + 1
  OBVIOUS
<1>2. /\ i \in 0 .. LastChunk(off + 1)
      /\ p.beginning_of_active_chunk = ChunkBegin(i)
      /\ p.offset_in_active_chunk = off % PlainChunk
      /\ off = i * PlainChunk + p.offset_in_active_chunk
  BY <1>1, PositionIsExact
<1>3. p.offset_in_active_chunk \in 0 .. PlainChunk - 1
  BY <1>2, Division, LayoutAssumption
<1>4. i \in Nat
  BY <1>2
<1>5. p = [active_chunk_counter |-> i,
           beginning_of_active_chunk |-> p.beginning_of_active_chunk,
           offset_in_active_chunk |-> p.offset_in_active_chunk]
  BY DEF ChunkedPosition
<1> HIDE DEF i, p
<1>6. i <= off
  <2>1. PICK d \in Nat : PlainChunk = 1 + d
    <3>1. PlainChunk - 1 \in Nat /\ PlainChunk = 1 + (PlainChunk - 1)
      BY LayoutAssumption
    <3> QED BY <3>1, Zenon
  <2>2. i * PlainChunk = i + i * d /\ i * d \in Nat
    BY <1>4, <2>1
  <2> QED BY <1>2, <1>3, <1>4, <2>2
<1>7. ChunkBegin(i) \in Int
  <2>1. i * EncryptedChunk \in Int
    BY <1>4, EncryptedChunkType
  <2> QED BY <2>1, LayoutAssumption DEF ChunkBegin
<1>8. p \in Positions
  BY <1>2, <1>3, <1>4, <1>5, <1>7 DEF Positions
<1> QED BY <1>3, <1>4, <1>6, <1>8 DEF i, p

\* A read adds bytes of the plaintext.
LEMMA YieldType ==
    ASSUME TypeOK, NEW a \in Nat, NEW b \in Nat, a <= b, b <= file.plain + 1,
           Yield(Bytes(a, b))
    PROVE  body' \in Seq(0 .. file.plain)
<1> DEFINE S == 0 .. file.plain
<1>1. a .. b - 1 \subseteq S
  BY FileSizes
<1>2. body \in Seq(S)
  BY DEF TypeOK
<1> HIDE DEF S
<1>3. Bytes(a, b) \in Seq(S)
  BY <1>1, BytesProperties
<1>4. body \o Bytes(a, b) \in Seq(S)
  BY <1>2, <1>3, ConcatProperties
<1> QED BY <1>4 DEF Yield, S

\* One turn on a chunk that decrypts: what is yielded, and where the stream is then.
LEMMA SizedTurn ==
    ASSUME Typed, SizedChunk
    PROVE  LET i == position.active_chunk_counter
               len == ChunkEnd(i) - At
               cut == remaining % Usize < len
           IN  /\ i \in Nat /\ i <= LastChunk(file.plain)
               /\ file.plain \in Nat /\ remaining \in Nat /\ remaining % Usize \in Nat
               /\ At \in Nat /\ At <= ChunkEnd(i) /\ ChunkEnd(i) <= file.plain
               /\ seek + ReadCount <= SizeOnDisk /\ seek' = seek + ReadCount
               /\ i # LastChunk(file.plain) => seek' = ChunkBegin(i + 1)
               /\ cut => Yield(Bytes(At, At + (remaining % Usize)))
               /\ ~cut => Yield(Bytes(At, ChunkEnd(i)))
               /\ i = LastChunk(file.plain) \/ cut =>
                     pc' = "done" /\ UNCHANGED <<remaining, position>>
               /\ i # LastChunk(file.plain) /\ ~cut =>
                     /\ pc' = "sized" /\ remaining' = remaining - len
                     /\ position' = [position EXCEPT
                           !.active_chunk_counter = i + 1,
                           !.offset_in_active_chunk =
                               IF request.range.start # 0 THEN 0 ELSE @]
<1> DEFINE n == file.plain
           i == position.active_chunk_counter
           from == i * PlainChunk
           to == ChunkEnd(i)
           plain == PlainOfChunk(i)
           kept == SubSeq(plain, Drained + 1, Len(plain))
           rest == remaining % Usize
           cut == rest < Len(kept)
           last == ReadCount < EncryptedChunk
<1>1. TypeOK /\ file.encrypted /\ ReadCount > 0 /\ Decrypts(i, last) /\ Drained <= Len(plain)
  BY DEF SizedChunk, Typed
<1>2. n \in Nat /\ SizeOnDisk = EncryptedSize(n) /\ remaining \in Nat /\ i \in Nat
  BY <1>1, FileSizes DEF TypeOK
<1>3. /\ i <= LastChunk(n) /\ seek = ChunkBegin(i) /\ ReadCount = ChunkLength(n, i)
      /\ last <=> i = LastChunk(n)
  BY <1>1 DEF Decrypts
<1>4. /\ from \in Nat /\ to \in Nat /\ from <= to /\ to <= n
      /\ plain = Bytes(from, to) /\ Len(plain) = to - from
  BY <1>2, <1>3, ChunkPlain
<1>5. Drained \in Nat
  BY <1>1, LayoutAssumption DEF Drained, TypeOK
<1>6. At = from + Drained
  BY <1>1 DEF At
<1>7. At \in Nat /\ At <= to
  <2> HIDE DEF from, to, plain
  <2> QED BY <1>1, <1>4, <1>5, <1>6
<1>8. rest \in Nat /\ rest <= remaining
  <2>1. rest \in 0 .. Usize - 1 /\ remaining = Usize * (remaining \div Usize) + rest
        /\ remaining \div Usize \in Nat
    BY <1>2, Division, WordTypes
  <2>2. Usize * (remaining \div Usize) \in Nat
    <3>1. \A x, y \in Nat : x * y \in Nat
      OBVIOUS
    <3> QED BY <2>1, <3>1, WordTypes
  <2> QED BY <1>2, <2>1, <2>2
<1>9. kept = Bytes(At, to) /\ Len(kept) = to - At
  <2> HIDE DEF from, to, plain
  <2>1. /\ from <= At /\ to <= to /\ Drained + 1 \in Int /\ Len(plain) \in Int
        /\ Drained + 1 = At - from + 1
    BY <1>4, <1>5, <1>6
  <2>2. kept = Bytes(At, to)
    <3>1. ASSUME NEW k \in Int, NEW m \in Int, k = At - from + 1, m = to - from
          PROVE  SubSeq(Bytes(from, to), k, m) = Bytes(At, to)
      <4>1. /\ from \in Nat /\ to \in Nat /\ At \in Nat
            /\ from <= At /\ At <= to /\ to <= to
        BY <1>4, <1>7, <2>1
      <4> QED BY <3>1, <4>1, BytesSubSeq
    <3> QED BY <1>4, <2>1, <3>1
  <2>3. At .. to - 1 \subseteq Nat
    BY <1>4, <1>7
  <2> QED BY <1>4, <1>7, <2>2, <2>3, BytesProperties
<1>10. Yield(IF cut THEN SubSeq(kept, 1, rest) ELSE kept)
  BY DEF SizedChunk
<1>11. cut => SubSeq(kept, 1, rest) = Bytes(At, At + rest)
  <2> HIDE DEF to, rest, kept
  <2> SUFFICES ASSUME cut PROVE SubSeq(kept, 1, rest) = Bytes(At, At + rest)
    OBVIOUS
  <2>1. /\ At + rest \in Nat /\ At <= At /\ At <= At + rest /\ At + rest <= to
        /\ 1 \in Int /\ rest \in Int /\ 1 = At - At + 1 /\ rest = (At + rest) - At
    BY <1>4, <1>7, <1>8, <1>9
  <2>2. ASSUME NEW a \in Nat, NEW b \in Nat, NEW y \in Nat, NEW k \in Int, NEW m \in Int,
               a = At, b = to, y = At + rest, k = 1, m = rest
        PROVE  SubSeq(Bytes(a, b), k, m) = Bytes(a, y)
    <3>1. a <= a /\ a <= y /\ y <= b /\ k = a - a + 1 /\ m = y - a
      BY <1>4, <1>7, <2>1, <2>2
    <3> QED BY <3>1, BytesSubSeq
  <2> QED BY <1>4, <1>7, <1>9, <2>1, <2>2
<1>12. seek' = seek + ReadCount /\ seek + ReadCount <= SizeOnDisk
       /\ (i # LastChunk(n) => seek + ReadCount = ChunkBegin(i + 1))
  <2>1. seek' = seek + ReadCount
    BY DEF SizedChunk
  <2> QED BY <1>2, <1>3, <2>1, ChunkFacts
<1>13. /\ last \/ cut => pc' = "done" /\ UNCHANGED <<remaining, position>>
       /\ ~(last \/ cut) => /\ pc' = pc
                            /\ remaining' = remaining - Len(kept)
                            /\ position' = [position EXCEPT
                                  !.active_chunk_counter = i + 1,
                                  !.offset_in_active_chunk =
                                      IF request.range.start # 0 THEN 0 ELSE @]
  BY DEF SizedChunk
<1>14. pc = "sized"
  BY DEF SizedChunk
<1> HIDE DEF from, to, plain, kept, rest, last
<1> QED BY <1>2, <1>3, <1>4, <1>7, <1>8, <1>9, <1>10, <1>11, <1>12, <1>13, <1>14 DEF to, rest

LEMMA TypeStep ==
    ASSUME Typed, Replied, WholeSoFar, [Next]_vars
    PROVE  Typed'
<1> DEFINE Kept == UNCHANGED <<file, overflow_checks, request>>
           Streaming == UNCHANGED <<seek, remaining, position, body>>
           GoodReply == pc' \in {"cache", "range", "whole", "open", "sized", "done", "failed",
                                 "panicked"}
                        /\ reply'.status \in {0, 200, 206, 304, 416, 500}
<1>0. TypeOK /\ position \in Positions
  BY DEF Typed
<1>1. ASSUME Kept, Streaming, GoodReply
      PROVE  Typed'
  BY <1>0, <1>1 DEF TypeOK, Typed
<1>2. CASE CheckCache \/ AnswerUnsatisfiable \/ AnswerPartPanics \/ PlainEnds \/ DrainPanics
           \/ DecryptFails \/ EncryptedEnds
  <2>1. Kept /\ Streaming
    BY <1>2 DEF CheckCache, AnswerUnsatisfiable, AnswerPartPanics, PlainEnds, DrainPanics,
                DecryptFails, EncryptedEnds, Panic, EndOfBody
  <2>2. GoodReply
    BY <1>0, <1>2 DEF CheckCache, AnswerUnsatisfiable, AnswerPartPanics, PlainEnds, DrainPanics,
                DecryptFails, EncryptedEnds, Panic, EndOfBody, NoReply, TypeOK
  <2> QED BY <1>1, <2>1, <2>2
<1>3. CASE AnswerWhole
  <2>1. Nonce \in 0 .. Word - 1
    <3>1. file.encrypted \in BOOLEAN
      BY <1>0 DEF TypeOK
    <3>2. file.plain \in Nat /\ 2 * (EncryptedSize(file.plain) + EncryptedChunk) < Word
      BY <1>0, FileSizes, WordAssumption
    <3>3. EncryptedSize(file.plain) - Nonce \in Nat
      BY <3>2, EncryptedLayout
    <3>4. EncryptedSize(file.plain) \in Int
      <4>1. Overhead * (file.plain \div PlainChunk + 1) \in Int
        <5>1. file.plain \div PlainChunk \in Nat
          BY <3>2, Division, LayoutAssumption
        <5>2. \A x, y \in Nat : x * y \in Int
          OBVIOUS
        <5> QED BY <5>1, <5>2, LayoutAssumption
      <4> QED BY <3>2, <4>1, LayoutAssumption DEF EncryptedSize
    <3> QED BY <3>2, <3>3, <3>4, EncryptedChunkType, WordTypes, LayoutAssumption
  <2>2. seek' \in 0 .. Word - 1
    BY <1>3, <2>1, WordTypes DEF AnswerWhole
  <2>3. Kept /\ UNCHANGED <<remaining, position, body>>
    BY <1>3 DEF AnswerWhole
  <2>4. GoodReply
    BY <1>3 DEF AnswerWhole, NoReply
  <2> QED BY <1>0, <2>2, <2>3, <2>4 DEF TypeOK, Typed
<1>4. CASE AnswerPart
  <2>1. UsedRange # NoRange
    BY <1>4 DEF AnswerPart
  <2>2. remaining' \in 0 .. Word - 1
    BY <1>0, <1>4, <2>1, RangeTypes DEF AnswerPart
  <2>3. seek' \in 0 .. Word - 1
    <3>1. seek' = seek \/ seek' = First
      BY <1>4 DEF AnswerPart, First
    <3>2. seek \in 0 .. Word - 1
      BY <1>0 DEF TypeOK
    <3> QED BY <1>0, <2>1, <3>1, <3>2, RangeTypes
  <2>4. Kept /\ UNCHANGED <<position, body>>
    BY <1>4 DEF AnswerPart
  <2>5. GoodReply
    BY <1>4 DEF AnswerPart, NoReply, PartReply
  <2> QED BY <1>0, <2>2, <2>3, <2>4, <2>5 DEF TypeOK, Typed
<1>5. ASSUME NEW r \in Nat, r <= Available, r <= remaining \/ remaining' = remaining, r > 0,
             ~file.encrypted, Yield(Bytes(seek, seek + r)), seek' = seek + r,
             remaining' \in {remaining, remaining - r},
             Kept, UNCHANGED <<pc, reply, position>>
      PROVE  Typed'
  <2>1. seek + r <= file.plain /\ file.plain < Word /\ file.plain \in Nat /\ seek \in Nat
    <3>1. /\ file.plain \in Nat /\ SizeOnDisk = file.plain
          /\ 2 * (SizeOnDisk + EncryptedChunk) < Word
      BY <1>0, <1>5, FileSizes
    <3>2. Available \in Nat /\ (Available > 0 => Available = SizeOnDisk - seek)
      BY <1>0, AvailableType
    <3>3. seek \in Nat
      BY <1>0 DEF TypeOK
    <3> QED BY <1>5, <3>1, <3>2, <3>3, EncryptedChunkType, WordTypes
  <2>2. body' \in Seq(0 .. file.plain)
    BY <1>0, <1>5, <2>1, YieldType
  <2>3. remaining' \in 0 .. Word - 1
    <3>1. remaining \in 0 .. Word - 1
      BY <1>0 DEF TypeOK
    <3> QED BY <1>5, <3>1, WordTypes
  <2>4. seek' \in 0 .. Word - 1
    BY <1>5, <2>1, WordTypes
  <2> QED BY <1>0, <1>5, <2>2, <2>3, <2>4 DEF TypeOK, Typed
<1>6. CASE WholeRead
  <2>1. PICK r \in 1 .. SmallerOf(BufSize, Available) :
           Yield(Bytes(seek, seek + r)) /\ seek' = seek + r
    BY <1>6 DEF WholeRead
  <2>2. r \in Nat /\ r > 0 /\ r <= Available
    BY <1>0, <2>1, AvailableType, BufferAssumption DEF SmallerOf
  <2> QED BY <1>5, <1>6, <2>1, <2>2 DEF WholeRead
<1>7. CASE SizedRead
  <2>1. PICK r \in 1 .. SmallerOf(SmallerOf(BufSize, remaining), Available) :
           /\ Yield(Bytes(seek, seek + r)) /\ seek' = seek + r
           /\ remaining' = remaining - r
    BY <1>7 DEF SizedRead
  <2>2. r \in Nat /\ r > 0 /\ r <= Available /\ r <= remaining
    BY <1>0, <2>1, AvailableType, BufferAssumption DEF SmallerOf, TypeOK
  <2> QED BY <1>5, <1>7, <2>1, <2>2 DEF SizedRead
<1>8. CASE OpenPart
  <2> DEFINE p == PositionOf(First)
             q == ChunkedPosition(First)
  <2>1. UsedRange # NoRange /\ First = request.range.start
    BY <1>8 DEF OpenPart, Replied, UsedRange, First
  <2>2. First \in 0 .. Word - 1
    BY <1>0, <2>1, RangeTypes
  <2>3. /\ q \in Positions /\ q.active_chunk_counter \in 0 .. First
        /\ q.offset_in_active_chunk \in 0 .. PlainChunk - 1
    BY <2>2, PositionTypes
  <2>4. /\ p \in Positions /\ p.active_chunk_counter = q.active_chunk_counter
        /\ p.offset_in_active_chunk = q.offset_in_active_chunk
        /\ p.beginning_of_active_chunk \in 0 .. Word - 1
    <3>1. p = [q EXCEPT !.beginning_of_active_chunk = q.beginning_of_active_chunk % Word]
      BY DEF PositionOf
    <3>2. q.beginning_of_active_chunk % Word \in 0 .. Word - 1
      BY <2>3, Remainder, WordTypes DEF Positions
    <3> HIDE DEF p, q
    <3> QED BY <2>3, <3>1, <3>2 DEF Positions
  <2>5. position' = p
    BY <1>8, <2>1 DEF OpenPart
  <2> HIDE DEF p, q
  <2>6. seek' = seek \/ seek' = p.beginning_of_active_chunk
    BY <1>8, <2>5 DEF OpenPart
  <2>7. pc' \in {"failed", "sized"} /\ Kept /\ UNCHANGED <<reply, remaining, body>>
    BY <1>8 DEF OpenPart
  <2>8. seek' \in 0 .. Word - 1
    BY <1>0, <2>4, <2>6 DEF TypeOK
  <2>9. position'.active_chunk_counter \in 0 .. Word - 1
        /\ position'.offset_in_active_chunk \in 0 .. PlainChunk - 1
        /\ position' \in Positions
    BY <2>2, <2>3, <2>4, <2>5, WordTypes
  <2> QED BY <1>0, <2>7, <2>8, <2>9 DEF TypeOK, Typed
<1>9. CASE NextChunk
  <2>1. file.encrypted /\ ReadCount > 0 /\ seek' = seek + ReadCount /\ pc = "whole"
        /\ Yield(PlainOfChunk((seek - Nonce) \div EncryptedChunk))
    BY <1>9 DEF NextChunk
  <2>2. Kept /\ UNCHANGED <<reply, remaining, position>> /\ pc' \in {"whole", "done"}
    BY <1>9 DEF NextChunk
  <2>3. PICK i \in 0 .. LastChunk(file.plain) : seek = ChunkBegin(i)
    BY <2>1 DEF WholeSoFar
  <2>4. file.plain \in Nat /\ i \in Nat /\ i <= LastChunk(file.plain)
    BY <1>0, FileSizes, PlainLayout
  <2>5. Yield(PlainOfChunk(i))
    BY <1>0, <2>1, <2>3, <2>4, ChunkReads
  <2>6. /\ i * PlainChunk \in Nat /\ ChunkEnd(i) \in Nat
        /\ i * PlainChunk <= ChunkEnd(i) /\ ChunkEnd(i) <= file.plain
        /\ PlainOfChunk(i) = Bytes(i * PlainChunk, ChunkEnd(i))
    BY <2>4, ChunkPlain
  <2>7. body' \in Seq(0 .. file.plain)
    <3>1. ChunkEnd(i) <= file.plain + 1
      BY <2>4, <2>6
    <3> QED BY <1>0, <2>5, <2>6, <3>1, YieldType
  <2>8. seek' \in 0 .. Word - 1
    BY <1>0, <2>1, ReadCountType
  <2> QED BY <1>0, <2>2, <2>7, <2>8 DEF TypeOK, Typed
<1>10. CASE SizedChunk
  <2> DEFINE i == position.active_chunk_counter
             len == ChunkEnd(i) - At
             rest == remaining % Usize
             more == i # LastChunk(file.plain) /\ ~(rest < len)
  <2>1. /\ i \in Nat /\ i <= LastChunk(file.plain) /\ file.plain \in Nat /\ remaining \in Nat
        /\ rest \in Nat
        /\ At \in Nat /\ At <= ChunkEnd(i) /\ ChunkEnd(i) <= file.plain
        /\ seek + ReadCount <= SizeOnDisk /\ seek' = seek + ReadCount
        /\ rest < len => Yield(Bytes(At, At + rest))
        /\ ~(rest < len) => Yield(Bytes(At, ChunkEnd(i)))
        /\ ~more => pc' = "done" /\ UNCHANGED <<remaining, position>>
        /\ more => /\ pc' = "sized" /\ remaining' = remaining - len
                   /\ position' = [position EXCEPT
                         !.active_chunk_counter = i + 1,
                         !.offset_in_active_chunk =
                             IF request.range.start # 0 THEN 0 ELSE @]
    BY <1>10, SizedTurn
  <2>2. Kept /\ UNCHANGED reply /\ ReadCount > 0
    BY <1>10 DEF SizedChunk
  <2>3. seek' \in 0 .. Word - 1
    BY <1>0, <2>1, <2>2, ReadCountType
  <2>4. PICK y \in Nat : At <= y /\ y <= ChunkEnd(i) /\ Yield(Bytes(At, y))
    <3>1. ChunkEnd(i) \in Nat
      BY <2>1, ChunkPlain
    <3>2. CASE rest < len
      <4>1. At + rest \in Nat /\ At <= At + rest /\ At + rest <= ChunkEnd(i)
        BY <2>1, <3>1, <3>2
      <4> QED BY <2>1, <3>2, <4>1
    <3>3. CASE ~(rest < len)
      BY <2>1, <3>1, <3>3
    <3> QED BY <3>2, <3>3
  <2>5. body' \in Seq(0 .. file.plain)
    <3>1. y <= file.plain + 1 /\ ChunkEnd(i) \in Nat
      BY <2>1, <2>4, ChunkPlain
    <3> QED BY <1>0, <2>1, <2>4, <3>1, YieldType
  <2>6. remaining' \in 0 .. Word - 1
    <3>1. remaining \in 0 .. Word - 1
      BY <1>0 DEF TypeOK
    <3>2. len \in Nat
      BY <2>1, ChunkPlain
    <3>3. rest <= remaining
      <4>1. rest \in 0 .. Usize - 1 /\ remaining = Usize * (remaining \div Usize) + rest
            /\ remaining \div Usize \in Nat
        BY <2>1, Division, WordTypes
      <4>2. Usize * (remaining \div Usize) \in Nat
        <5>1. \A x, z \in Nat : x * z \in Nat
          OBVIOUS
        <5> QED BY <4>1, <5>1, WordTypes
      <4> QED BY <2>1, <4>1, <4>2
    <3> HIDE DEF len, rest
    <3>4. more => rest >= len
      BY <2>1, <3>2 DEF more
    <3>5. remaining' = remaining \/ (remaining' = remaining - len /\ len <= remaining)
      <4>1. CASE more
        BY <2>1, <3>2, <3>3, <3>4, <4>1
      <4>2. CASE ~more
        BY <2>1, <4>2
      <4> QED BY <4>1, <4>2
    <3> QED BY <2>1, <3>1, <3>2, <3>5, WordTypes
  <2>7. /\ position' \in Positions
        /\ position'.active_chunk_counter \in 0 .. Word - 1
        /\ position'.offset_in_active_chunk \in 0 .. PlainChunk - 1
    <3>1. /\ position.active_chunk_counter \in 0 .. Word - 1
          /\ position.offset_in_active_chunk \in 0 .. PlainChunk - 1
          /\ position \in Positions
      BY <1>0 DEF TypeOK
    <3>2. CASE ~more
      BY <2>1, <3>1, <3>2
    <3>3. CASE more
      <4>1. i + 1 \in 0 .. Word - 1
        <5>1. LastChunk(file.plain) <= file.plain
          BY <2>1, LastChunkBound
        <5>2. file.plain \in Nat /\ SizeOnDisk \in Nat /\ file.plain <= SizeOnDisk
              /\ 2 * (SizeOnDisk + EncryptedChunk) < Word
          BY <1>0, FileSizes
        <5> QED BY <2>1, <5>1, <5>2, EncryptedChunkType, WordTypes, PlainLayout
      <4>2. position' = [position EXCEPT
                         !.active_chunk_counter = i + 1,
                         !.offset_in_active_chunk =
                             IF request.range.start # 0 THEN 0 ELSE @]
        BY <2>1, <3>3
      <4>3. PICK o \in 0 .. PlainChunk - 1 :
               position' = [position EXCEPT !.active_chunk_counter = i + 1,
                                            !.offset_in_active_chunk = o]
        <5>1. 0 \in 0 .. PlainChunk - 1
          BY LayoutAssumption
        <5> QED BY <3>1, <4>2, <5>1, Zenon
      <4> HIDE DEF i, more
      <4>4. position' \in Positions /\ position'.active_chunk_counter = i + 1
            /\ position'.offset_in_active_chunk = o
        <5>1. position \in Positions /\ i + 1 \in Int /\ o \in Int
          BY <3>1, <4>1
        <5> DEFINE q == position'
                   c == i + 1
        <5>2. q = [position EXCEPT !.active_chunk_counter = c, !.offset_in_active_chunk = o]
          BY <4>3
        <5> HIDE DEF q, c
        <5>3. q \in Positions /\ q.active_chunk_counter = c /\ q.offset_in_active_chunk = o
          <6>1. position \in Positions /\ c \in Int /\ o \in Int
            BY <5>1 DEF c
          <6> QED BY <5>2, <6>1 DEF Positions
        <5> QED BY <5>3 DEF q, c
      <4> QED BY <4>1, <4>3, <4>4
    <3> QED BY <3>2, <3>3
  <2>8. pc' \in {"done", "sized"}
    BY <2>1
  <2> HIDE DEF more, len, rest, i
  <2> QED BY <1>0, <2>2, <2>3, <2>5, <2>6, <2>7, <2>8 DEF TypeOK, Typed
<1>11. CASE UNCHANGED vars
  BY <1>0, <1>11 DEF vars, TypeOK, Typed
<1> QED BY <1>2, <1>3, <1>4, <1>6, <1>7, <1>8, <1>9, <1>10, <1>11 DEF Next, Answer, Stream

-----------------------------------------------------------------------------
(* The answer.                                                             *)

LEMMA RequestStays ==
    ASSUME [Next]_vars
    PROVE  UNCHANGED <<file, overflow_checks, request>>
BY DEF Next, Answer, Stream, CheckCache, AnswerWhole, AnswerPart, AnswerPartPanics,
       AnswerUnsatisfiable, WholeRead, SizedRead, PlainEnds, OpenPart, NextChunk, SizedChunk,
       DrainPanics, DecryptFails, EncryptedEnds, EndOfBody, Panic, vars

LEMMA RangeStays ==
    ASSUME [Next]_vars
    PROVE  /\ UsedRange' = UsedRange /\ First' = First /\ Stop' = Stop
           /\ Satisfiable' <=> Satisfiable
           /\ Accepted(UsedRange)' <=> Accepted(UsedRange)
           /\ PartReply(UsedRange)' = PartReply(UsedRange)
           /\ file' = file /\ request' = request
<1>1. file' = file /\ request' = request
  BY RequestStays
<1>2. UsedRange' = UsedRange /\ PlainSize' = PlainSize
  BY <1>1 DEF UsedRange, PlainSize, SizeOnDisk
<1>3. PartEnd(UsedRange)' = PartEnd(UsedRange)
  BY <1>2 DEF PartEnd
<1> QED BY <1>1, <1>2, <1>3 DEF First, Stop, Satisfiable, Accepted, PartReply, PartSize

LEMMA ReplyStep ==
    ASSUME Typed, Replied, [Next]_vars
    PROVE  Replied'
<1>1. /\ UsedRange' = UsedRange
      /\ Accepted(UsedRange)' <=> Accepted(UsedRange)
      /\ PartReply(UsedRange)' = PartReply(UsedRange)
      /\ file' = file /\ request' = request
  BY RangeStays
<1> DEFINE range == UsedRange
           part == PartReply(UsedRange)
           ok == Accepted(UsedRange)
<1>2. /\ pc \in {"cache", "range"} => reply.status = 0
      /\ pc = "whole" => reply.status = 200
      /\ pc \in {"open", "sized", "failed"} => reply.status = 206
      /\ pc = "open" => file.encrypted
      /\ reply.status = 200 => /\ pc \in {"whole", "done"} /\ range = NoRange
                               /\ reply.length = file.plain
      /\ reply.status = 206 => range # NoRange /\ ok /\ reply = part
      /\ request.head => pc \notin {"whole", "open", "sized"}
      /\ request.head \/ pc \in {"cache", "range", "open"} => body = << >>
  BY DEF Replied
<1>3. ASSUME /\ pc' \in {"cache", "range"} => reply'.status = 0
             /\ pc' = "whole" => reply'.status = 200
             /\ pc' \in {"open", "sized", "failed"} => reply'.status = 206
             /\ pc' = "open" => file.encrypted
             /\ reply'.status = 200 => /\ pc' \in {"whole", "done"} /\ range = NoRange
                                       /\ reply'.length = file.plain
             /\ reply'.status = 206 => range # NoRange /\ ok /\ reply' = part
             /\ request.head => pc' \notin {"whole", "open", "sized"}
             /\ request.head \/ pc' \in {"cache", "range", "open"} => body' = << >>
      PROVE  Replied'
  BY <1>1, <1>3 DEF Replied
<1>4. part.status = 206 /\ NoReply.status = 0
  BY DEF PartReply, NoReply
<1> HIDE DEF range, part, ok
<1>5. CASE CheckCache
  BY <1>2, <1>3, <1>5 DEF CheckCache, NoReply
<1>6. CASE AnswerWhole
  <2>1. PlainSize = file.plain
    BY FileSizes DEF Typed
  <2> QED BY <1>2, <1>3, <1>6, <2>1 DEF AnswerWhole, NoReply, range
<1>7. CASE AnswerPart
  <2>1. pc = "range" /\ range # NoRange /\ ok /\ body' = body
    BY <1>7 DEF AnswerPart, range, ok
  <2>2. \/ /\ reply' = part
           /\ pc' = "done" \/ (pc' = "open" /\ file.encrypted /\ ~request.head)
                           \/ (pc' = "sized" /\ ~request.head)
        \/ reply'.status = 500 /\ pc' = "done"
    BY <1>7 DEF AnswerPart, part, NoReply
  <2> QED BY <1>2, <1>3, <1>4, <2>1, <2>2
<1>8. CASE AnswerUnsatisfiable
  BY <1>2, <1>3, <1>8 DEF AnswerUnsatisfiable, NoReply
<1>9. ASSUME pc \in {"range", "sized"}, pc' = "panicked", UNCHANGED <<reply, body>>
      PROVE  Replied'
  BY <1>2, <1>3, <1>9
<1>10. ASSUME pc \in {"whole", "sized"}, pc' \in {pc, "done"}, reply' = reply
       PROVE  Replied'
  BY <1>2, <1>3, <1>10
<1>11. CASE AnswerPartPanics \/ DrainPanics
  BY <1>9, <1>11 DEF AnswerPartPanics, DrainPanics, Panic
<1>12. CASE WholeRead \/ SizedRead \/ NextChunk \/ SizedChunk \/ PlainEnds \/ EncryptedEnds
  BY <1>10, <1>12 DEF WholeRead, SizedRead, NextChunk, SizedChunk, PlainEnds, EncryptedEnds,
                      EndOfBody
<1>13. CASE OpenPart
  BY <1>2, <1>3, <1>13 DEF OpenPart
<1>14. CASE DecryptFails
  BY <1>2, <1>3, <1>14 DEF DecryptFails
<1>15. CASE UNCHANGED vars
  BY <1>2, <1>3, <1>15 DEF vars
<1> QED BY <1>5, <1>6, <1>7, <1>8, <1>11, <1>12, <1>13, <1>14, <1>15 DEF Next, Answer, Stream

-----------------------------------------------------------------------------
(* The whole file.                                                         *)

\* A read of a plain file goes on where the last one stopped.
LEMMA PlainRead ==
    ASSUME TypeOK, ~file.encrypted, NEW from \in Nat, from <= seek, body = Bytes(from, seek),
           NEW r \in Nat, 0 < r, r <= Available, Yield(Bytes(seek, seek + r))
    PROVE  /\ body' = Bytes(from, seek + r)
           /\ seek + r <= file.plain /\ seek \in Nat /\ file.plain \in Nat
<1>1. /\ file.plain \in Nat /\ SizeOnDisk = file.plain /\ seek \in Nat
      /\ Available \in Nat /\ (Available > 0 => Available = SizeOnDisk - seek)
  BY FileSizes, AvailableType DEF TypeOK
<1>2. seek + r \in Nat /\ seek <= seek + r /\ seek + r <= file.plain
  BY <1>1
<1>3. Bytes(from, seek) \o Bytes(seek, seek + r) = Bytes(from, seek + r)
  BY <1>1, <1>2, BytesConcat
<1> QED BY <1>1, <1>2, <1>3 DEF Yield

LEMMA WholeStep ==
    ASSUME Typed, Replied, WholeSoFar, WholeFinished, [Next]_vars
    PROVE  WholeSoFar' /\ WholeFinished'
<1> DEFINE n == file.plain
<1>1. file' = file /\ request' = request
  BY RequestStays
<1>2. TypeOK /\ n \in Nat
  BY FileSizes DEF Typed
<1>3. ASSUME pc' # "whole", ~(pc' = "done" /\ ~request.head /\ reply'.status = 200)
      PROVE  WholeSoFar' /\ WholeFinished'
  BY <1>1, <1>3 DEF WholeSoFar, WholeFinished
<1>4. CASE CheckCache \/ AnswerPart \/ AnswerPartPanics \/ AnswerUnsatisfiable \/ OpenPart
           \/ DrainPanics \/ DecryptFails
  <2>1. pc' # "whole"
    BY <1>4 DEF CheckCache, AnswerPart, AnswerPartPanics, AnswerUnsatisfiable, OpenPart,
                DrainPanics, DecryptFails, Panic
  <2>2. ~(pc' = "done" /\ ~request.head /\ reply'.status = 200)
    BY <1>4 DEF CheckCache, AnswerPart, AnswerPartPanics, AnswerUnsatisfiable, OpenPart,
                DrainPanics, DecryptFails, Panic, NoReply, PartReply
  <2> QED BY <1>3, <2>1, <2>2
<1>5. CASE AnswerWhole
  <2>1. body = << >> /\ body' = body /\ pc' = IF request.head THEN "done" ELSE "whole"
    BY <1>5 DEF AnswerWhole, Replied
  <2>2. CASE request.head
    BY <1>3, <2>1, <2>2
  <2>3. CASE file.encrypted /\ ~request.head
    <3>1. seek' = Nonce
      BY <1>5, <2>3 DEF AnswerWhole
    <3>2. 0 \in 0 .. LastChunk(n)
      BY <1>2, PlainLayout
    <3>3. ChunkBegin(0) = Nonce /\ 0 * PlainChunk = 0
      BY LayoutAssumption, EncryptedChunkType DEF ChunkBegin
    <3>4. body' = Bytes(0, 0 * PlainChunk)
      BY <2>1, <3>3, BytesEmpty
    <3>5. WholeSoFar'
      BY <1>1, <2>3, <3>1, <3>2, <3>3, <3>4 DEF WholeSoFar
    <3> QED BY <2>1, <2>3, <3>5 DEF WholeFinished
  <2>4. CASE ~file.encrypted /\ ~request.head
    <3>1. seek' = 0 /\ body' = Bytes(0, 0)
      BY <1>5, <2>1, <2>4, BytesEmpty DEF AnswerWhole
    <3>2. WholeSoFar'
      BY <1>1, <1>2, <2>4, <3>1 DEF WholeSoFar
    <3> QED BY <2>1, <2>4, <3>2 DEF WholeFinished
  <2> QED BY <2>2, <2>3, <2>4
<1>6. CASE WholeRead
  <2>1. PICK r \in 1 .. SmallerOf(BufSize, Available) :
           Yield(Bytes(seek, seek + r)) /\ seek' = seek + r
    BY <1>6 DEF WholeRead
  <2>2. r \in Nat /\ 0 < r /\ r <= Available
    BY <1>2, <2>1, AvailableType, BufferAssumption DEF SmallerOf
  <2>3. ~file.encrypted /\ pc' = "whole" /\ pc = "whole"
    BY <1>6 DEF WholeRead
  <2>4. body = Bytes(0, seek) /\ 0 <= seek
    BY <2>3 DEF WholeSoFar
  <2>5. body' = Bytes(0, seek + r) /\ seek + r <= n /\ seek \in Nat
    BY <1>2, <2>1, <2>2, <2>3, <2>4, PlainRead
  <2> QED BY <1>1, <1>2, <2>1, <2>2, <2>3, <2>5 DEF WholeSoFar, WholeFinished
<1>7. CASE PlainEnds
  <2>1. CASE pc = "sized"
    <3>1. reply.status = 206 /\ reply' = reply /\ pc' = "done"
      BY <1>7, <2>1 DEF PlainEnds, EndOfBody, Replied
    <3> QED BY <1>3, <3>1
  <2>2. CASE pc = "whole"
    <3>1. Available = 0 /\ ~file.encrypted /\ body' = body /\ pc' = "done"
      BY <1>7, <2>2 DEF PlainEnds, EndOfBody
    <3>2. seek \in 0 .. n /\ body = Bytes(0, seek)
      BY <2>2, <3>1 DEF WholeSoFar
    <3>3. seek = n
      <4>1. SizeOnDisk = n
        BY <1>2, <3>1, FileSizes
      <4> QED BY <1>2, <3>1, <3>2, <4>1 DEF Available
    <3> QED BY <1>1, <3>1, <3>2, <3>3 DEF WholeSoFar, WholeFinished
  <2> QED BY <1>7, <2>1, <2>2 DEF PlainEnds
<1>8. CASE NextChunk
  <2>1. file.encrypted /\ ReadCount > 0 /\ seek' = seek + ReadCount /\ pc = "whole"
        /\ Yield(PlainOfChunk((seek - Nonce) \div EncryptedChunk))
        /\ pc' = IF ReadCount < EncryptedChunk THEN "done" ELSE pc
    BY <1>8 DEF NextChunk
  <2>2. PICK i \in 0 .. LastChunk(n) : seek = ChunkBegin(i) /\ body = Bytes(0, i * PlainChunk)
    BY <2>1 DEF WholeSoFar
  <2>3. i \in Nat /\ i <= LastChunk(n) /\ LastChunk(n) \in Nat
    BY <1>2, PlainLayout
  <2>4. Yield(PlainOfChunk(i)) /\ ReadCount = ChunkLength(n, i)
    BY <1>2, <2>1, <2>2, <2>3, ChunkReads
  <2>5. /\ i * PlainChunk \in Nat /\ ChunkEnd(i) \in Nat
        /\ i * PlainChunk <= ChunkEnd(i)
        /\ PlainOfChunk(i) = Bytes(i * PlainChunk, ChunkEnd(i))
    BY <1>2, <2>3, ChunkPlain
  <2>6. body' = Bytes(0, ChunkEnd(i))
    <3>1. body' = Bytes(0, i * PlainChunk) \o Bytes(i * PlainChunk, ChunkEnd(i))
      BY <2>2, <2>4, <2>5 DEF Yield
    <3>2. 0 \in Nat /\ 0 <= i * PlainChunk
      BY <2>5
    <3>3. Bytes(0, i * PlainChunk) \o Bytes(i * PlainChunk, ChunkEnd(i)) = Bytes(0, ChunkEnd(i))
      BY <2>5, <3>2, BytesConcat
    <3> QED BY <3>1, <3>3
  <2>7. /\ ReadCount < EncryptedChunk <=> i = LastChunk(n)
        /\ i # LastChunk(n) => seek' = ChunkBegin(i + 1)
    BY <1>2, <2>1, <2>2, <2>3, <2>4, ChunkFacts
  <2>8. CASE i = LastChunk(n)
    <3>1. pc' = "done" /\ body' = Bytes(0, n)
      BY <2>1, <2>6, <2>7, <2>8 DEF ChunkEnd
    <3> QED BY <1>1, <3>1 DEF WholeSoFar, WholeFinished
  <2>9. CASE i # LastChunk(n)
    <3>1. pc' = "whole" /\ body' = Bytes(0, (i + 1) * PlainChunk) /\ seek' = ChunkBegin(i + 1)
      BY <2>1, <2>6, <2>7, <2>9 DEF ChunkEnd
    <3>2. i + 1 \in 0 .. LastChunk(n)
      BY <2>3, <2>9
    <3> QED BY <1>1, <2>1, <3>1, <3>2 DEF WholeSoFar, WholeFinished
  <2> QED BY <2>8, <2>9
<1>9. CASE EncryptedEnds
  <2>1. CASE pc = "sized"
    <3>1. reply.status = 206 /\ reply' = reply /\ pc' = "done"
      BY <1>9, <2>1 DEF EncryptedEnds, EndOfBody, Replied
    <3> QED BY <1>3, <3>1
  <2>2. CASE pc = "whole"
    <3>1. file.encrypted /\ ReadCount = 0
      BY <1>9, <2>2 DEF EncryptedEnds
    <3>2. PICK i \in 0 .. LastChunk(n) : seek = ChunkBegin(i)
      BY <2>2, <3>1 DEF WholeSoFar
    <3>3. i \in Nat /\ i <= LastChunk(n)
      BY <1>2, PlainLayout
    <3>4. ReadCount = ChunkLength(n, i) /\ ChunkLength(n, i) > 0
      BY <1>2, <3>1, <3>2, <3>3, ChunkReads, ChunkFacts, EncryptedChunkType
    <3> QED BY <3>1, <3>4
  <2> QED BY <1>9, <2>1, <2>2 DEF EncryptedEnds
<1>10. CASE SizedRead \/ SizedChunk
  <2>1. reply.status = 206 /\ reply' = reply /\ pc' \in {"sized", "done"}
    BY <1>10 DEF SizedRead, SizedChunk, Replied
  <2> QED BY <1>3, <2>1
<1>11. CASE UNCHANGED vars
  BY <1>11 DEF vars, WholeSoFar, WholeFinished
<1> QED BY <1>4, <1>5, <1>6, <1>7, <1>8, <1>9, <1>10, <1>11 DEF Next, Answer, Stream

-----------------------------------------------------------------------------
(* A part of the file.                                                     *)

LEMMA ServedRange ==
    ASSUME Typed, Replied, Satisfiable, reply.status = 206
    PROVE  /\ First \in Nat /\ Stop \in Nat /\ First < Stop /\ Stop <= file.plain
           /\ PartSize(UsedRange) = Stop - First
           /\ file.plain \in Nat
BY SatisfiableRange, FileSizes DEF Typed, Replied

\* A stream that is to go on is at a chunk the file has, and decrypts it.
LEMMA SizedPlace ==
    ASSUME Typed, Replied, PartSoFar, Satisfiable, pc = "sized", file.encrypted, remaining # 0
    PROVE  LET i == position.active_chunk_counter
           IN  /\ i \in Nat /\ i <= LastChunk(file.plain)
               /\ ReadCount > 0 /\ Decrypts(i, ReadCount < EncryptedChunk)
               /\ ~(Drained > Len(PlainOfChunk(i)))
<1> DEFINE n == file.plain
           i == position.active_chunk_counter
           from == i * PlainChunk
           q == LastChunk(n)
<1>1. /\ First \in Nat /\ Stop \in Nat /\ Stop <= n /\ n \in Nat
  BY ServedRange DEF Replied
<1>2. At \in First .. Stop /\ remaining = Stop - At /\ seek = ChunkBegin(i)
  BY DEF PartSoFar
<1>3. TypeOK /\ i \in Nat
  BY DEF Typed, TypeOK
<1>4. Drained \in 0 .. PlainChunk - 1
  BY <1>3, LayoutAssumption DEF Drained, TypeOK
<1>5. At = from + Drained /\ At < n
  BY <1>1, <1>2 DEF At
<1>6. q \in Nat /\ q * PlainChunk \in Nat /\ n < q * PlainChunk + PlainChunk
  <2>1. q \in Nat /\ q <= LastChunk(n)
    BY <1>1, LastChunkBound
  <2>2. q * PlainChunk \in Nat /\ (q + 1) * PlainChunk = q * PlainChunk + PlainChunk
        /\ n < (q + 1) * PlainChunk
    BY <1>1, <2>1, ChunkFacts
  <2> QED BY <2>1, <2>2
<1>7. i <= q
  <2>1. q < i => PlainChunk * i >= PlainChunk * q + PlainChunk
    BY <1>3, <1>6, ProductGrows, LayoutAssumption
  <2>2. PlainChunk * i = from /\ PlainChunk * q = q * PlainChunk /\ from \in Nat
    BY <1>3, <1>6, LayoutAssumption
  <2>3. ~(q < i)
    <3> DEFINE full == q * PlainChunk
               drained == Drained
               at == At
    <3>1. /\ from \in Nat /\ full \in Nat /\ drained \in Nat /\ n \in Nat
          /\ at = from + drained /\ at < n /\ n < full + PlainChunk
          /\ q < i => from >= full + PlainChunk
      BY <1>1, <1>4, <1>5, <1>6, <2>1, <2>2
    <3> HIDE DEF from, full, drained, at, n
    <3> QED BY <3>1, LayoutAssumption
  <2> QED BY <1>3, <1>6, <2>3
<1>8. Decrypts(i, ReadCount < EncryptedChunk) /\ ReadCount = ChunkLength(n, i)
  BY <1>2, <1>3, <1>7, ChunkReads
<1>9. ReadCount > 0
  BY <1>1, <1>3, <1>7, <1>8, ChunkFacts, EncryptedChunkType
<1>10. ~(Drained > Len(PlainOfChunk(i)))
  <2>1. Len(PlainOfChunk(i)) = ChunkEnd(i) - from /\ from \in Nat
    BY <1>1, <1>3, <1>7, ChunkPlain
  <2>2. CASE i = q
    <3>1. ChunkEnd(i) = n
      BY <2>2 DEF ChunkEnd
    <3> HIDE DEF from
    <3> QED BY <1>1, <1>4, <1>5, <2>1, <3>1
  <2>3. CASE i # q
    <3>1. ChunkEnd(i) = from + PlainChunk
      BY <1>1, <1>3, <1>7, <2>3, ChunkFacts DEF ChunkEnd
    <3> HIDE DEF from
    <3> QED BY <1>4, <2>1, <3>1, LayoutAssumption
  <2> QED BY <2>2, <2>3
<1> QED BY <1>3, <1>7, <1>8, <1>9, <1>10

\* Where the stream of an encrypted part begins.
LEMMA OpenPlace ==
    ASSUME Typed, Replied, Satisfiable, OpenPart
    PROVE  /\ pc' = "sized"
           /\ seek' = ChunkBegin(position'.active_chunk_counter)
           /\ At' = First
<1> DEFINE n == file.plain
           p == ChunkedPosition(First)
           i == p.active_chunk_counter
           begin == p.beginning_of_active_chunk
<1>1. pc = "open" /\ file.encrypted /\ reply.status = 206
  BY DEF OpenPart, Replied
<1>2. First \in Nat /\ n \in Nat /\ First < n /\ First = request.range.start
  BY <1>1, ServedRange DEF Satisfiable, First, UsedRange
<1>3. /\ i \in 0 .. LastChunk(n) /\ begin = ChunkBegin(i)
      /\ p.offset_in_active_chunk \in 0 .. PlainChunk - 1
      /\ First = i * PlainChunk + p.offset_in_active_chunk
  BY <1>2, PositionIsExact, PositionTypes
<1>4. i \in Nat /\ i <= LastChunk(n)
  BY <1>2, <1>3, LastChunkBound
<1>5. begin \in Nat /\ 2 * begin < Word
  <2>1. begin \in Nat /\ ChunkLength(n, i) \in Nat /\ begin + ChunkLength(n, i) <= EncryptedSize(n)
    BY <1>2, <1>3, <1>4, ChunkFacts, EncryptedChunkType
  <2>2. SizeOnDisk = EncryptedSize(n) /\ SizeOnDisk \in Nat /\ 2 * (SizeOnDisk + EncryptedChunk) < Word
    BY <1>1, FileSizes DEF Typed
  <2> HIDE DEF begin
  <2> QED BY <2>1, <2>2, EncryptedChunkType, WordTypes
<1>6. begin % Word = begin
  <2>1. begin \in 0 .. Word - 1
    BY <1>5, WordTypes
  <2> HIDE DEF begin
  <2> QED BY <2>1, Remainder, WordTypes
<1>7. p \in Positions
  BY <1>2, PositionTypes
<1>8. position' = [p EXCEPT !.beginning_of_active_chunk = begin % Word]
  BY <1>2 DEF OpenPart, PositionOf
<1> HIDE DEF p
<1>9. /\ position'.active_chunk_counter = i /\ position'.beginning_of_active_chunk = begin
      /\ position'.offset_in_active_chunk = p.offset_in_active_chunk
  BY <1>6, <1>7, <1>8 DEF Positions
<1>10. pc' = "sized" /\ seek' = begin
  BY <1>5, <1>9, WordTypes DEF OpenPart, TooFar
<1>11. At' = First
  <2>1. file' = file /\ request' = request
    BY DEF OpenPart
  <2> DEFINE from == i * PlainChunk
             off == p.offset_in_active_chunk
  <2>2. At' = from + IF request.range.start # 0 THEN off ELSE 0
    BY <1>1, <1>9, <2>1 DEF At, Drained
  <2>3. from \in Nat
    <3>1. \A x, y \in Nat : x * y \in Nat
      OBVIOUS
    <3> HIDE DEF i
    <3> QED BY <1>4, <3>1, LayoutAssumption
  <2>4. off \in Nat
    BY <1>3, LayoutAssumption
  <2>5. First = from + off
    BY <1>3
  <2> HIDE DEF from, off
  <2> QED BY <1>2, <2>2, <2>3, <2>4, <2>5
<1> QED BY <1>3, <1>9, <1>10, <1>11

\* Where the stream is after a turn.
LEMMA SizedMoves ==
    ASSUME Typed, Replied, PartSoFar, Satisfiable, SizedChunk, FilesFitUsize \in BOOLEAN
    PROVE  \/ /\ pc' = "sized"
              /\ At' \in First .. Stop /\ body' = Bytes(First, At') /\ remaining' = Stop - At'
              /\ seek' = ChunkBegin(position'.active_chunk_counter)
           \/ /\ pc' = "done"
              /\ \E stop \in First .. Stop : /\ body' = Bytes(First, stop)
                                             /\ FilesFitUsize => stop = Stop
<1> DEFINE n == file.plain
           i == position.active_chunk_counter
           end == ChunkEnd(i)
           len == end - At
           rest == remaining % Usize
           cut == rest < len
           last == i = LastChunk(n)
<1>1. /\ i \in Nat /\ i <= LastChunk(n) /\ n \in Nat /\ remaining \in Nat /\ rest \in Nat
      /\ At \in Nat /\ At <= end /\ end <= n
      /\ ~last => seek' = ChunkBegin(i + 1)
      /\ cut => Yield(Bytes(At, At + rest))
      /\ ~cut => Yield(Bytes(At, end))
      /\ last \/ cut => pc' = "done" /\ UNCHANGED <<remaining, position>>
      /\ ~last /\ ~cut =>
            /\ pc' = "sized" /\ remaining' = remaining - len
            /\ position' = [position EXCEPT
                  !.active_chunk_counter = i + 1,
                  !.offset_in_active_chunk = IF request.range.start # 0 THEN 0 ELSE @]
  BY SizedTurn
<1>2. /\ pc = "sized" /\ file.encrypted /\ reply.status = 206
      /\ file' = file /\ request' = request
  BY DEF SizedChunk, Replied
<1>3. First \in Nat /\ Stop \in Nat /\ First < Stop /\ Stop <= n
  BY <1>2, ServedRange
<1>4. At \in First .. Stop /\ body = Bytes(First, At) /\ remaining = Stop - At
  BY <1>2 DEF PartSoFar
<1>5. end \in Nat
  BY <1>1, ChunkPlain
<1>6. rest <= remaining /\ (FilesFitUsize => rest = remaining)
  <2>1. rest \in 0 .. Usize - 1 /\ remaining = Usize * (remaining \div Usize) + rest
        /\ remaining \div Usize \in Nat
    BY <1>1, Division, WordTypes
  <2>2. Usize * (remaining \div Usize) \in Nat
    <3>1. \A x, z \in Nat : x * z \in Nat
      OBVIOUS
    <3> QED BY <2>1, <3>1, WordTypes
  <2>3. FilesFitUsize => remaining \in 0 .. Usize - 1
    <3>1. FilesFitUsize => n < Usize
      BY FileSizes DEF Typed, FilesFitUsize
    <3> QED BY <1>1, <1>3, <1>4, <3>1, WordTypes
  <2>4. FilesFitUsize => rest = remaining
    BY <2>3, Remainder, WordTypes
  <2> QED BY <1>1, <2>1, <2>2, <2>4
<1>7. ASSUME NEW to \in Nat, At <= to, Yield(Bytes(At, to))
      PROVE  body' = Bytes(First, to)
  <2>1. First <= At
    BY <1>3, <1>4
  <2>2. Bytes(First, At) \o Bytes(At, to) = Bytes(First, to)
    BY <1>1, <1>3, <1>7, <2>1, BytesConcat
  <2> QED BY <1>4, <1>7, <2>2 DEF Yield
<1>8. CASE cut
  <2>1. At + rest \in Nat /\ At <= At + rest /\ At + rest \in First .. Stop
    BY <1>1, <1>3, <1>4, <1>6
  <2>2. body' = Bytes(First, At + rest)
    BY <1>1, <1>7, <1>8, <2>1
  <2>3. FilesFitUsize => At + rest = Stop
    BY <1>1, <1>3, <1>4, <1>6
  <2> QED BY <1>1, <1>8, <2>1, <2>2, <2>3
<1>9. CASE ~cut
  <2>1. At + len <= Stop /\ At + len = end
    BY <1>1, <1>3, <1>4, <1>5, <1>6, <1>9
  <2>2. end \in First .. Stop
    BY <1>1, <1>3, <1>4, <1>5, <2>1
  <2>3. body' = Bytes(First, end)
    BY <1>1, <1>5, <1>7, <1>9
  <2>4. CASE last
    <3>1. end = Stop
      BY <1>1, <1>3, <2>2, <2>4 DEF ChunkEnd
    <3> QED BY <1>1, <2>2, <2>3, <2>4, <3>1
  <2>5. CASE ~last
    <3>1. /\ pc' = "sized" /\ remaining' = remaining - len /\ seek' = ChunkBegin(i + 1)
          /\ position' = [position EXCEPT
                !.active_chunk_counter = i + 1,
                !.offset_in_active_chunk = IF request.range.start # 0 THEN 0 ELSE @]
      BY <1>1, <1>9, <2>5
    <3>2. /\ position'.active_chunk_counter = i + 1
          /\ request.range.start # 0 => position'.offset_in_active_chunk = 0
      <4>1. position \in Positions
        BY DEF Typed
      <4> QED BY <3>1, <4>1 DEF Positions
    <3>3. At' = (i + 1) * PlainChunk + 0
      BY <1>2, <3>2 DEF At, Drained
    <3>4. (i + 1) * PlainChunk = end
      BY <2>5 DEF ChunkEnd
    <3>5. At' = end
      BY <1>5, <3>3, <3>4
    <3>6. remaining' = Stop - end
      BY <1>1, <1>3, <1>4, <1>5, <3>1
    <3> QED BY <2>2, <2>3, <3>1, <3>2, <3>5, <3>6
  <2> QED BY <2>4, <2>5
<1> QED BY <1>8, <1>9

LEMMA PartStep ==
    ASSUME Typed, Replied, Untroubled, PartSoFar, PartFinished, [Next]_vars
    PROVE  Untroubled' /\ PartSoFar' /\ PartFinished'
<1> DEFINE failed == pc \in {"failed", "panicked"} \/ reply.status = 500
           Sized == /\ At \in First .. Stop
                    /\ body = Bytes(First, At)
                    /\ remaining = Stop - At
                    /\ file.encrypted => seek = ChunkBegin(position.active_chunk_counter)
           Ended == \E stop \in First .. Stop : /\ body = Bytes(First, stop)
                                                /\ FilesFitUsize => stop = Stop
           place == position.active_chunk_counter
<1>1. /\ UsedRange' = UsedRange /\ First' = First /\ Stop' = Stop
      /\ Satisfiable' <=> Satisfiable
      /\ file' = file /\ request' = request
  BY RangeStays
<1>2. TypeOK /\ file.plain \in Nat
  BY FileSizes DEF Typed
<1>3. CASE ~Satisfiable
  <2>1. PartSoFar' /\ PartFinished'
    BY <1>1, <1>3 DEF PartSoFar, PartFinished
  <2>2. UsedRange # NoRange => Untroubled'
    BY <1>1, <1>3 DEF Untroubled
  <2>3. CASE UsedRange = NoRange
    <3>1. pc \notin {"open", "sized", "failed", "panicked"} /\ reply.status # 500
      BY <2>3 DEF Replied, Untroubled
    <3> SUFFICES Untroubled'
      BY <2>1
    <3>2. CASE CheckCache \/ AnswerWhole
      <4>1. pc' \in {"range", "whole", "done"}
        BY <3>2 DEF CheckCache, AnswerWhole
      <4>2. CASE AnswerWhole
        <5>1. reply'.status = 200
          BY <4>2 DEF AnswerWhole, NoReply
        <5> QED BY <4>1, <5>1 DEF Untroubled
      <4>3. CASE CheckCache
        <5>1. reply' = reply \/ reply'.status = 304
          BY <4>3 DEF CheckCache, NoReply
        <5> QED BY <3>1, <4>1, <5>1 DEF Untroubled
      <4> QED BY <3>2, <4>2, <4>3
    <3>3. CASE WholeRead \/ NextChunk \/ PlainEnds \/ EncryptedEnds
      <4>1. pc' \in {"whole", "done"} /\ reply' = reply
        BY <3>1, <3>3 DEF WholeRead, NextChunk, PlainEnds, EncryptedEnds, EndOfBody
      <4> QED BY <3>1, <4>1 DEF Untroubled
    <3>4. CASE UNCHANGED vars
      <4>1. pc' = pc /\ reply' = reply
        BY <3>4 DEF vars
      <4> QED BY <3>1, <4>1 DEF Untroubled
    <3>5. ~(AnswerPart \/ AnswerPartPanics \/ AnswerUnsatisfiable)
      BY <2>3 DEF AnswerPart, AnswerPartPanics, AnswerUnsatisfiable
    <3>6. ~(SizedRead \/ OpenPart \/ SizedChunk \/ DrainPanics \/ DecryptFails)
      BY <3>1 DEF SizedRead, OpenPart, SizedChunk, DrainPanics, DecryptFails
    <3> QED BY <3>2, <3>3, <3>4, <3>5, <3>6 DEF Next, Answer, Stream
  <2> QED BY <2>1, <2>2, <2>3
<1>4. ASSUME Satisfiable PROVE Untroubled' /\ PartSoFar' /\ PartFinished'
  <2>1. pc \notin {"failed", "panicked"} /\ reply.status # 500
    BY <1>4 DEF Untroubled
  <2>2. /\ pc = "open" => remaining = Stop - First
        /\ pc = "sized" => Sized
        /\ pc = "done" /\ ~request.head /\ reply.status = 206 => Ended
    BY <1>4 DEF PartSoFar, PartFinished
  <2>3. ASSUME ~failed',
               pc' = "open" => remaining' = Stop - First,
               pc' = "sized" => Sized',
               pc' = "done" /\ ~request.head /\ reply'.status = 206 => Ended'
        PROVE  Untroubled' /\ PartSoFar' /\ PartFinished'
    BY <1>1, <2>3 DEF Untroubled, PartSoFar, PartFinished
  <2> HIDE DEF Sized, Ended
  <2>4. CASE CheckCache \/ AnswerWhole \/ AnswerUnsatisfiable
    <3>1. pc' \in {"range", "whole", "done"}
      BY <2>4 DEF CheckCache, AnswerWhole, AnswerUnsatisfiable
    <3>2. pc = "cache" => reply.status = 0
      BY DEF Replied
    <3>3. CheckCache => reply'.status \in {0, 304}
      BY <3>2 DEF CheckCache, NoReply
    <3>4. AnswerWhole => reply'.status = 200
      BY DEF AnswerWhole, NoReply
    <3>5. AnswerUnsatisfiable => reply'.status = 416
      BY DEF AnswerUnsatisfiable, NoReply
    <3>6. pc' \notin {"open", "sized", "failed", "panicked"} /\ reply'.status \notin {206, 500}
      BY <2>4, <3>1, <3>3, <3>4, <3>5
    <3> QED BY <2>3, <3>6
  <2>5. CASE AnswerPart \/ AnswerPartPanics
    <3>1. Accepted(UsedRange) /\ body = << >> /\ UsedRange # NoRange
      BY <2>5 DEF AnswerPart, AnswerPartPanics, Replied
    <3>2. /\ First \in Nat /\ Stop \in Nat /\ First < Stop /\ Stop <= file.plain
          /\ PartSize(UsedRange) = Stop - First
          /\ ~Underflows(UsedRange) /\ ~TooFar(First)
      BY <1>2, <1>4, <3>1, SatisfiableRange
    <3>3. AnswerPart
      BY <2>5, <3>2 DEF AnswerPartPanics
    <3>4. /\ remaining' = Stop - First /\ body' = << >> /\ reply'.status = 206
          /\ \/ pc' = "done" /\ request.head
             \/ pc' = "open"
             \/ pc' = "sized" /\ ~file.encrypted /\ seek' = First
      BY <3>2, <3>3, <3>1 DEF AnswerPart, First, PartReply
    <3>5. body' = Bytes(First, First)
      BY <3>2, <3>4, BytesEmpty
    <3>6. pc' = "sized" => Sized'
      <4>1. pc' = "sized" => At' = First
        BY <1>1, <3>4 DEF At
      <4> QED BY <1>1, <3>2, <3>4, <3>5, <4>1 DEF Sized
    <3> QED BY <2>3, <3>4, <3>6
  <2>6. CASE WholeRead \/ NextChunk
    <3>1. reply' = reply /\ reply.status = 200 /\ pc' \in {"whole", "done"}
      BY <2>6 DEF WholeRead, NextChunk, Replied
    <3> QED BY <2>3, <3>1
  <2>7. CASE OpenPart
    <3>1. pc = "open" /\ body = << >> /\ reply.status = 206 /\ UNCHANGED <<reply, remaining, body>>
      BY <2>7 DEF OpenPart, Replied
    <3>2. First \in Nat /\ Stop \in Nat /\ First < Stop
      BY <1>4, <3>1, ServedRange
    <3>3. /\ pc' = "sized" /\ At' = First
          /\ seek' = ChunkBegin(position'.active_chunk_counter)
      BY <1>4, <2>7, OpenPlace
    <3>4. body' = Bytes(First, First)
      BY <3>1, <3>2, BytesEmpty
    <3>5. Sized'
      BY <1>1, <2>2, <3>1, <3>2, <3>3, <3>4 DEF Sized
    <3> QED BY <2>1, <2>3, <3>1, <3>3, <3>5
  <2>8. CASE SizedRead
    <3>1. PICK r \in 1 .. SmallerOf(SmallerOf(BufSize, remaining), Available) :
             /\ Yield(Bytes(seek, seek + r)) /\ seek' = seek + r
             /\ remaining' = remaining - r
      BY <2>8 DEF SizedRead
    <3>2. r \in Nat /\ 0 < r /\ r <= Available /\ r <= remaining
      BY <1>2, <3>1, AvailableType, BufferAssumption DEF SmallerOf, TypeOK
    <3>3. pc = "sized" /\ pc' = pc /\ ~file.encrypted /\ reply' = reply /\ reply.status = 206
      BY <2>8 DEF SizedRead, Replied
    <3>4. First \in Nat /\ Stop \in Nat /\ At = seek
      BY <1>4, <3>3, ServedRange DEF At
    <3>5. seek \in First .. Stop /\ body = Bytes(First, seek) /\ remaining = Stop - seek
      BY <2>2, <3>3, <3>4 DEF Sized
    <3>6. body' = Bytes(First, seek + r) /\ seek \in Nat
      <4>1. First <= seek
        BY <3>4, <3>5
      <4> QED BY <1>2, <3>1, <3>2, <3>3, <3>4, <3>5, <4>1, PlainRead
    <3>7. At' = seek + r
      BY <1>1, <3>1, <3>3 DEF At
    <3>8. seek + r \in First .. Stop /\ remaining' = Stop - (seek + r)
      BY <3>1, <3>2, <3>4, <3>5, <3>6
    <3>9. Sized'
      BY <1>1, <3>3, <3>6, <3>7, <3>8 DEF Sized
    <3> QED BY <2>1, <2>3, <3>3, <3>9
  <2>9. ASSUME pc = "sized", At = Stop, pc' = "done", UNCHANGED <<reply, body>>
        PROVE  Untroubled' /\ PartSoFar' /\ PartFinished'
    <3>1. First \in Nat /\ Stop \in Nat /\ First < Stop /\ reply.status = 206
      BY <1>4, <2>9, ServedRange DEF Replied
    <3>2. body' = Bytes(First, Stop)
      BY <2>2, <2>9 DEF Sized
    <3>3. Ended'
      BY <1>1, <3>1, <3>2 DEF Ended
    <3> QED BY <2>1, <2>3, <2>9, <3>3
  <2>10. ASSUME pc = "whole", pc' = "done", UNCHANGED <<reply, body>>
         PROVE  Untroubled' /\ PartSoFar' /\ PartFinished'
    <3>1. reply.status = 200
      BY <2>10 DEF Replied
    <3> QED BY <2>1, <2>3, <2>10, <3>1
  <2>11. CASE PlainEnds
    <3>1. /\ ~file.encrypted /\ pc' = "done" /\ UNCHANGED <<reply, body>>
          /\ Available = 0 \/ (pc = "sized" /\ remaining = 0)
          /\ pc \in {"whole", "sized"}
      BY <2>11 DEF PlainEnds, EndOfBody
    <3>2. CASE pc = "sized"
      <4>1. First \in Nat /\ Stop \in Nat /\ Stop <= file.plain /\ At = seek
        BY <1>4, <3>1, <3>2, ServedRange DEF At, Replied
      <4>2. At \in First .. Stop /\ remaining = Stop - At
        BY <2>2, <3>2 DEF Sized
      <4>3. Available = 0 => seek >= file.plain
        BY <1>2, <3>1, FileSizes DEF Available, TypeOK
      <4>4. At = Stop
        BY <1>2, <3>1, <4>1, <4>2, <4>3
      <4> QED BY <2>9, <3>1, <3>2, <4>4
    <3> QED BY <2>10, <3>1, <3>2
  <2>12. CASE EncryptedEnds
    <3>1. /\ file.encrypted /\ pc' = "done" /\ UNCHANGED <<reply, body>>
          /\ ReadCount = 0 \/ (pc = "sized" /\ remaining = 0)
          /\ pc \in {"whole", "sized"}
      BY <2>12 DEF EncryptedEnds, EndOfBody
    <3>2. CASE pc = "sized"
      <4>1. remaining = 0
        BY <1>4, <3>1, <3>2, SizedPlace
      <4>2. At \in First .. Stop /\ remaining = Stop - At
        BY <2>2, <3>2 DEF Sized
      <4>3. First \in Nat /\ Stop \in Nat
        BY <1>4, <3>2, ServedRange DEF Replied
      <4>4. At = Stop
        BY <4>1, <4>2, <4>3
      <4> QED BY <2>9, <3>1, <3>2, <4>4
    <3> QED BY <2>10, <3>1, <3>2
  <2>13. CASE SizedChunk
    <3>1. reply' = reply /\ file.encrypted
      BY <2>13 DEF SizedChunk
    <3>2. FilesFitUsize \in BOOLEAN
      BY DEF FilesFitUsize
    <3>3. \/ /\ pc' = "sized"
             /\ At' \in First .. Stop /\ body' = Bytes(First, At') /\ remaining' = Stop - At'
             /\ seek' = ChunkBegin(position'.active_chunk_counter)
          \/ /\ pc' = "done"
             /\ \E stop \in First .. Stop : /\ body' = Bytes(First, stop)
                                            /\ FilesFitUsize => stop = Stop
      BY <1>4, <2>13, <3>2, SizedMoves
    <3>4. CASE pc' = "sized"
      BY <1>1, <2>1, <2>3, <3>1, <3>3, <3>4 DEF Sized
    <3>5. CASE pc' = "done"
      BY <1>1, <2>1, <2>3, <3>1, <3>3, <3>5 DEF Ended
    <3> QED BY <3>3, <3>4, <3>5
  <2>14. CASE DrainPanics \/ DecryptFails
    <3>1. pc = "sized" /\ file.encrypted /\ remaining # 0
      BY <2>14 DEF DrainPanics, DecryptFails
    <3>2. /\ Decrypts(place, ReadCount < EncryptedChunk)
          /\ ~(Drained > Len(PlainOfChunk(place)))
      BY <1>4, <3>1, SizedPlace
    <3> QED BY <2>14, <3>2 DEF DrainPanics, DecryptFails
  <2>15. CASE UNCHANGED vars
    BY <2>15 DEF vars, Untroubled, PartSoFar, PartFinished, At, Drained, Satisfiable, UsedRange,
                 First, Stop, PartEnd, PlainSize, SizeOnDisk
  <2> QED BY <2>4, <2>5, <2>6, <2>7, <2>8, <2>11, <2>12, <2>13, <2>14, <2>15
          DEF Next, Answer, Stream
<1> QED BY <1>3, <1>4

-----------------------------------------------------------------------------
(* The invariant, and the theorems.                                        *)

Inv == /\ Typed
       /\ Replied
       /\ Untroubled
       /\ WholeSoFar /\ WholeFinished
       /\ PartSoFar /\ PartFinished

LEMMA InitInv == Init => Inv
<1> SUFFICES ASSUME Init PROVE Inv
  OBVIOUS
<1>1. pc = "cache" /\ reply.status = 0 /\ body = << >>
  BY DEF Init, NoReply
<1>2. /\ position \in Positions
      /\ position.active_chunk_counter \in 0 .. Word - 1
      /\ position.offset_in_active_chunk \in 0 .. PlainChunk - 1
  <2>1. position = ChunkedPosition(0) /\ 0 \in Nat
    BY DEF Init
  <2>2. position.active_chunk_counter = 0
    BY <2>1, PositionTypes
  <2> QED BY <2>1, <2>2, PositionTypes, WordTypes
<1>3. seek \in 0 .. Word - 1 /\ remaining \in 0 .. Word - 1
  BY WordTypes DEF Init
<1>4. << >> \in Seq(0 .. file.plain)
  BY EmptySeq
<1>5. TypeOK
  BY <1>1, <1>2, <1>3, <1>4 DEF Init, TypeOK
<1> QED BY <1>1, <1>2, <1>5 DEF Inv, Typed, Replied, Untroubled, WholeSoFar, WholeFinished,
        PartSoFar, PartFinished

LEMMA StepInv == Inv /\ [Next]_vars => Inv'
<1> SUFFICES ASSUME Inv, [Next]_vars PROVE Inv'
  OBVIOUS
<1>1. /\ Typed /\ Replied /\ Untroubled
      /\ WholeSoFar /\ WholeFinished /\ PartSoFar /\ PartFinished
  BY DEF Inv
<1>2. Typed'
  BY <1>1, TypeStep
<1>3. Replied'
  BY <1>1, ReplyStep
<1>4. WholeSoFar' /\ WholeFinished'
  BY <1>1, WholeStep
<1>5. Untroubled' /\ PartSoFar' /\ PartFinished'
  BY <1>1, PartStep
<1> QED BY <1>2, <1>3, <1>4, <1>5 DEF Inv

LEMMA Invariance == Spec => []Inv
BY InitInv, StepInv, PTL DEF Spec

LEMMA WholeFileHolds == Inv => WholeFile
<1> DEFINE n == file.plain
<1> SUFFICES ASSUME Inv, reply.status = 200
             PROVE  /\ reply.length = n
                    /\ IsPrefix(body, Bytes(0, n))
                    /\ Complete => body = Bytes(0, n)
  BY DEF WholeFile
<1>1. Typed /\ Replied /\ WholeSoFar /\ WholeFinished
  BY DEF Inv
<1>2. n \in Nat
  BY <1>1, FileSizes DEF Typed
<1>3. /\ pc \in {"whole", "done"} /\ reply.length = n
      /\ request.head => body = << >>
  BY <1>1 DEF Replied
<1>4. ASSUME NEW k \in Nat, k <= n, body = Bytes(0, k) PROVE IsPrefix(body, Bytes(0, n))
  <2>1. 0 \in Nat /\ 0 <= k
    OBVIOUS
  <2> QED BY <1>2, <1>4, <2>1, BytesPrefix
<1>5. CASE pc = "whole" /\ file.encrypted
  <2>1. PICK i \in 0 .. LastChunk(n) : body = Bytes(0, i * PlainChunk)
    BY <1>1, <1>5 DEF WholeSoFar
  <2>2. i \in Nat /\ i <= LastChunk(n)
    OBVIOUS
  <2>3. i * PlainChunk \in Nat /\ i * PlainChunk <= n
    BY <1>2, <2>2, ChunkFacts
  <2> QED BY <1>3, <1>4, <1>5, <2>1, <2>3 DEF Complete
<1>6. CASE pc = "whole" /\ ~file.encrypted
  <2>1. seek \in 0 .. n /\ body = Bytes(0, seek)
    BY <1>1, <1>6 DEF WholeSoFar
  <2>2. seek \in Nat /\ seek <= n
    BY <1>2, <2>1
  <2> QED BY <1>3, <1>4, <1>6, <2>1, <2>2 DEF Complete
<1>7. CASE pc = "done" /\ request.head
  <2>1. body = Bytes(0, 0)
    BY <1>3, <1>7, BytesEmpty
  <2> QED BY <1>2, <1>3, <1>4, <1>7, <2>1 DEF Complete
<1>8. CASE pc = "done" /\ ~request.head
  <2>1. body = Bytes(0, n) /\ n <= n
    BY <1>1, <1>2, <1>8 DEF WholeFinished
  <2> QED BY <1>2, <1>3, <1>4, <2>1
<1> QED BY <1>3, <1>5, <1>6, <1>7, <1>8

LEMMA FailsHolds == Inv => FailsOnlyBeyondTheEnd
<1> SUFFICES ASSUME Inv, pc \in {"failed", "panicked"} \/ reply.status = 500
             PROVE  UsedRange # NoRange /\ UsedRange.start >= file.plain
  BY DEF FailsOnlyBeyondTheEnd
<1>1. TypeOK /\ UsedRange # NoRange /\ ~Satisfiable
  BY DEF Inv, Typed, Untroubled
<1>2. First \in Nat /\ First = UsedRange.start
  BY <1>1, RangeTypes, WordTypes DEF First
<1>3. file.plain \in Nat
  BY <1>1, FileSizes
<1> QED BY <1>1, <1>2, <1>3 DEF Satisfiable

LEMMA BodyHolds == Inv /\ FilesFitUsize => BodyIsTheRange
<1> DEFINE range == reply.range
           asked == Bytes(range.start, range.end + 1)
<1> SUFFICES ASSUME Inv, FilesFitUsize, reply.status = 206, request.range.start < file.plain
             PROVE  /\ range.start = request.range.start /\ range.end < file.plain
                    /\ IsPrefix(body, asked)
                    /\ Complete => body = asked /\ reply.length = Len(body)
  BY DEF BodyIsTheRange
<1>1. Typed /\ Replied /\ Untroubled /\ PartSoFar /\ PartFinished
  BY DEF Inv
<1>2. /\ UsedRange # NoRange /\ UsedRange = request.range /\ reply = PartReply(UsedRange)
      /\ request.head => body = << >> /\ pc \notin {"open", "sized"}
      /\ pc = "open" => body = << >>
      /\ pc \notin {"cache", "range", "whole"}
  BY <1>1 DEF Replied, UsedRange
<1>3. Satisfiable
  BY <1>2 DEF Satisfiable
<1>4. /\ First \in Nat /\ Stop \in Nat /\ First < Stop /\ Stop <= file.plain
      /\ PartSize(UsedRange) = Stop - First /\ file.plain \in Nat
  BY <1>1, <1>3, ServedRange
<1>5. range.start = First /\ range.end = Stop - 1 /\ reply.length = Stop - First
  <2>1. /\ range.start = First /\ range.end = PartEnd(UsedRange)
        /\ reply.length = PartSize(UsedRange)
    BY <1>2 DEF PartReply, First
  <2>2. PartEnd(UsedRange) \in Nat
    BY <1>1, <1>2, RangeTypes, WordTypes DEF Typed
  <2> QED BY <1>4, <2>1, <2>2 DEF Stop
<1>6. asked = Bytes(First, Stop)
  BY <1>4, <1>5
<1>7. range.start = request.range.start /\ range.end < file.plain
  BY <1>2, <1>4, <1>5 DEF First
<1>8. Len(Bytes(First, Stop)) = Stop - First
  <2>1. First <= Stop /\ First .. Stop - 1 \subseteq Nat
    BY <1>4
  <2> QED BY <1>4, <2>1, BytesProperties
<1>9. ASSUME NEW k \in First .. Stop, body = Bytes(First, k) PROVE IsPrefix(body, asked)
  <2>1. k \in Nat /\ First <= k /\ k <= Stop
    BY <1>4
  <2> QED BY <1>4, <1>6, <1>9, <2>1, BytesPrefix
<1> HIDE DEF range, asked
<1>10. CASE body = << >> /\ ~Complete
  <2>1. First \in First .. Stop /\ body = Bytes(First, First)
    BY <1>4, <1>10, BytesEmpty
  <2> QED BY <1>7, <1>9, <1>10, <2>1
<1>11. CASE pc = "sized"
  <2>1. At \in First .. Stop /\ body = Bytes(First, At)
    BY <1>1, <1>3, <1>11 DEF PartSoFar
  <2> QED BY <1>7, <1>9, <1>11, <2>1 DEF Complete
<1>12. CASE Complete
  <2>1. PICK stop \in First .. Stop : /\ body = Bytes(First, stop)
                                      /\ FilesFitUsize => stop = Stop
    BY <1>1, <1>3, <1>12 DEF Complete, PartFinished
  <2>2. body = Bytes(First, Stop)
    BY <2>1
  <2> QED BY <1>5, <1>6, <1>7, <1>8, <1>9, <2>1, <2>2
<1>13. pc \in {"open", "sized", "done"}
  BY <1>1, <1>2, <1>3 DEF Typed, TypeOK, Untroubled
<1> QED BY <1>2, <1>10, <1>11, <1>12, <1>13 DEF Complete

\* The types of the answer and its stream: every length, offset and position
\* stays a u64, the offset in the chunk stays in the chunk, and what is sent are
\* bytes of the plaintext.
THEOREM RangeTypeCorrect == Spec => []TypeOK
<1>1. Inv => TypeOK
  BY DEF Inv, Typed
<1> QED BY <1>1, Invariance, PTL

\* GET without a usable range sends a prefix of the plaintext, in the end all of
\* it, as long as the Content-Length header says: for every chunk size, however
\* the reads of the file are cut.
THEOREM WholeFileAlways == Spec => []WholeFile
BY WholeFileHolds, Invariance, PTL

\* A range whose first byte the file has is never answered by an error, cut or
\* ended by a panic, with or without overflow checks and whatever usize is: the
\* chunk decrypts at the counter it is read for, nothing wraps, the drain stays
\* inside its chunk.
THEOREM FailsOnlyBeyondTheEndAlways == Spec => []FailsOnlyBeyondTheEnd
BY FailsHolds, Invariance, PTL

\* Such a range is answered with exactly its bytes, in order, none before its
\* beginning (drained) or after its end (cut), as many as announced; the files
\* must be shorter than usize, to which the length of the range is narrowed.
THEOREM BodyIsTheRangeAlways == FilesFitUsize => (Spec => []BodyIsTheRange)
<1> SUFFICES ASSUME FilesFitUsize PROVE Spec => []BodyIsTheRange
  OBVIOUS
<1>1. Inv => BodyIsTheRange
  BY BodyHolds
<1> QED BY <1>1, Invariance, PTL
=============================================================================
