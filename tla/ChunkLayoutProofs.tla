-------------------------- MODULE ChunkLayoutProofs --------------------------
(***************************************************************************)
(* The sizes and positions computed by ChunkLayout are right for every     *)
(* chunk size, tag length, nonce length and file length.                   *)
(***************************************************************************)
EXTENDS ChunkLayout, TLAPS

\* A product grows by at least its factor when the other factor grows.
LEMMA ProductGrows ==
    ASSUME NEW b \in Nat, NEW x \in Int, NEW y \in Int, x < y
    PROVE  b * y >= b * x + b
<1>1. PICK d \in Nat : y = x + 1 + d
  <2>1. y - x - 1 \in Nat /\ y = x + 1 + (y - x - 1)
    OBVIOUS
  <2> QED BY <2>1
<1>2. b * y = b * x + b + b * d
  BY <1>1
<1>3. b * d \in Nat
  OBVIOUS
<1>4. b * x \in Int
  OBVIOUS
<1> QED BY <1>2, <1>3, <1>4

\* Euclidean division by a positive number, and its uniqueness.
LEMMA Division ==
    ASSUME NEW a \in Nat, NEW b \in Nat \ {0}
    PROVE  /\ a \div b \in Nat /\ a % b \in 0 .. b - 1
           /\ a = b * (a \div b) + (a % b)
OBVIOUS

LEMMA DivisionUnique ==
    ASSUME NEW a \in Nat, NEW b \in Nat \ {0}, NEW q \in Nat,
           NEW r \in 0 .. b - 1, a = b * q + r
    PROVE  a \div b = q /\ a % b = r
<1> DEFINE d == a \div b
           m == a % b
<1>1. d \in Nat /\ m \in 0 .. b - 1 /\ a = b * d + m
  BY Division
<1> HIDE DEF d, m
<1>2. b * d \in Int /\ b * q \in Int
  BY <1>1
<1>3. ~(d < q)
  <2>1. d < q => b * q >= b * d + b
    BY <1>1, ProductGrows
  <2> QED BY <1>1, <1>2, <2>1
<1>4. ~(q < d)
  <2>1. q < d => b * d >= b * q + b
    BY <1>1, ProductGrows
  <2> QED BY <1>1, <1>2, <2>1
<1>5. d = q
  BY <1>1, <1>3, <1>4
<1>6. m = r
  BY <1>1, <1>2, <1>5
<1> QED BY <1>5, <1>6 DEF d, m

\* The plaintext of n bytes is LastChunk(n) full chunks and a shorter one.
LEMMA PlainLayout ==
    ASSUME NEW n \in Nat
    PROVE  /\ LastChunk(n) \in Nat /\ n % PlainChunk \in 0 .. PlainChunk - 1
           /\ n = PlainChunk * LastChunk(n) + (n % PlainChunk)
BY Division, LayoutAssumption DEF LastChunk

\* The size on disk is the nonce, the full chunks and the last chunk.
LEMMA EncryptedLayout ==
    ASSUME NEW n \in Nat
    PROVE  /\ EncryptedSize(n) - Nonce \in Nat
           /\ EncryptedSize(n) - Nonce
                = EncryptedChunk * LastChunk(n) + ((n % PlainChunk) + Overhead)
           /\ (n % PlainChunk) + Overhead \in 1 .. EncryptedChunk - 1
<1> DEFINE q == LastChunk(n)
           r == n % PlainChunk
<1>1. q \in Nat /\ r \in 0 .. PlainChunk - 1 /\ n = PlainChunk * q + r
  BY PlainLayout
<1>2. EncryptedSize(n) - Nonce = n + Overhead * (q + 1)
  <2>1. Overhead * (q + 1) \in Int
    BY <1>1, LayoutAssumption
  <2> QED BY <2>1, LayoutAssumption DEF EncryptedSize, LastChunk
<1> HIDE DEF q, r
<1>3. /\ Overhead * (q + 1) = Overhead * q + Overhead
      /\ EncryptedChunk * q = PlainChunk * q + Overhead * q
      /\ PlainChunk * q \in Nat /\ Overhead * q \in Nat
  BY <1>1, LayoutAssumption DEF EncryptedChunk
<1>4. EncryptedSize(n) - Nonce = EncryptedChunk * q + (r + Overhead)
  BY <1>1, <1>2, <1>3, LayoutAssumption
<1>5. r + Overhead \in 1 .. EncryptedChunk - 1
  BY <1>1, LayoutAssumption DEF EncryptedChunk
<1>6. EncryptedSize(n) - Nonce \in Nat
  BY <1>1, <1>2, <1>3, LayoutAssumption
<1> QED BY <1>4, <1>5, <1>6 DEF q, r

\* What decrypted_size answers for a completed upload is the length of the
\* plaintext, whatever that length: the sizes listed by PROPFIND, the
\* Content-Length and the bounds of a range are those of the plaintext.
THEOREM DecryptedSizeIsPlainSize ==
    ASSUME NEW n \in Nat
    PROVE  decrypted_size(EncryptedSize(n)) = n
<1> DEFINE body == EncryptedSize(n) - Nonce
           q == LastChunk(n)
           r == (n % PlainChunk) + Overhead
<1>1. /\ q \in Nat /\ body \in Nat /\ r \in 1 .. EncryptedChunk - 1
      /\ body = EncryptedChunk * q + r
  BY PlainLayout, EncryptedLayout
<1>2. EncryptedChunk \in Nat \ {0}
  BY LayoutAssumption DEF EncryptedChunk
<1>3. body \div EncryptedChunk = q /\ body % EncryptedChunk = r
  <2> HIDE DEF body, q, r
  <2> QED BY <1>1, <1>2, DivisionUnique
<1>4. decrypted_size(EncryptedSize(n))
        = EncryptedSize(n) - Overhead * (q + 1) - Nonce
  <2>1. r > 0
    BY <1>1
  <2> QED BY <1>3, <2>1 DEF decrypted_size
<1>5. EncryptedSize(n) = Nonce + n + Overhead * (q + 1)
  BY DEF EncryptedSize, LastChunk
<1>6. Overhead * (q + 1) \in Int
  <2> HIDE DEF q
  <2> QED BY <1>1, LayoutAssumption
<1> DEFINE tags == Overhead * (q + 1)
<1> HIDE DEF tags
<1>7. tags \in Int /\ EncryptedSize(n) = Nonce + n + tags
      /\ decrypted_size(EncryptedSize(n)) = EncryptedSize(n) - tags - Nonce
  BY <1>4, <1>5, <1>6 DEF tags
<1> QED BY <1>7, LayoutAssumption

\* The position computed for a range inside the plaintext is exact: the chunk
\* that holds the byte, where that chunk begins on disk, and the byte's place
\* in the chunk.  So decryption starts at a chunk boundary, with the counter
\* the chunk was encrypted with, and drains bytes the chunk really has.
THEOREM PositionIsExact ==
    ASSUME NEW n \in Nat, NEW off \in Nat, off < n
    PROVE  LET p == ChunkedPosition(off)
               i == p.active_chunk_counter
           IN  /\ i \in 0 .. LastChunk(n)
               /\ p.beginning_of_active_chunk = ChunkBegin(i)
               /\ p.offset_in_active_chunk = off % PlainChunk
               /\ p.offset_in_active_chunk < ChunkLength(n, i) - Overhead
               /\ off = i * PlainChunk + p.offset_in_active_chunk
<1> DEFINE i == off \div PlainChunk
           r == off % PlainChunk
           last == LastChunk(n)
           rest == n % PlainChunk
<1>1. i \in Nat /\ r \in 0 .. PlainChunk - 1 /\ off = PlainChunk * i + r
  BY Division, LayoutAssumption
<1>2. /\ last \in Nat /\ rest \in 0 .. PlainChunk - 1
      /\ n = PlainChunk * last + rest
  BY PlainLayout
<1>3. ChunkedPosition(off) =
        [active_chunk_counter |-> i,
         beginning_of_active_chunk |-> i * EncryptedChunk + Nonce,
         offset_in_active_chunk |->
            (off + Overhead * (i + 1) + Nonce)
              - (i * EncryptedChunk + Nonce + Overhead)]
  BY DEF ChunkedPosition, encrypted_offset
<1> HIDE DEF i, r, last, rest
<1>4. /\ Overhead * (i + 1) = Overhead * i + Overhead
      /\ i * EncryptedChunk = PlainChunk * i + Overhead * i
      /\ PlainChunk * i \in Nat /\ Overhead * i \in Nat
      /\ i * PlainChunk = PlainChunk * i
  BY <1>1, LayoutAssumption DEF EncryptedChunk
<1>5. (off + Overhead * (i + 1) + Nonce)
        - (i * EncryptedChunk + Nonce + Overhead) = r
  BY <1>1, <1>4, LayoutAssumption
<1>6. ~(last < i)
  <2>1. last < i => PlainChunk * i >= PlainChunk * last + PlainChunk
    BY <1>1, <1>2, ProductGrows, LayoutAssumption
  <2>2. PlainChunk * last \in Int
    BY <1>2, LayoutAssumption
  <2> QED BY <1>1, <1>2, <1>4, <2>1, <2>2, LayoutAssumption
<1>7. i = last => r < rest
  <2> SUFFICES ASSUME i = last PROVE r < rest
    OBVIOUS
  <2> QED BY <1>1, <1>2, <1>4, LayoutAssumption
<1>8. r < ChunkLength(n, i) - Overhead
  <2>1. CASE i < last
    BY <2>1, <1>1, LayoutAssumption DEF ChunkLength, EncryptedChunk, last
  <2>2. CASE i = last
    BY <2>2, <1>1, <1>2, <1>7, LayoutAssumption
       DEF ChunkLength, EncryptedChunk, last, rest
  <2> QED BY <2>1, <2>2, <1>1, <1>2, <1>6
<1>9. ChunkedPosition(off) =
        [active_chunk_counter |-> i,
         beginning_of_active_chunk |-> i * EncryptedChunk + Nonce,
         offset_in_active_chunk |-> r]
  BY <1>3, <1>5
<1>10. i * EncryptedChunk + Nonce = ChunkBegin(i)
  <2>1. i * EncryptedChunk \in Int
    BY <1>1, <1>4, LayoutAssumption
  <2> QED BY <2>1, LayoutAssumption DEF ChunkBegin
<1>11. i \in 0 .. last /\ off = i * PlainChunk + r
  BY <1>1, <1>2, <1>4, <1>6
<1>12. /\ ChunkedPosition(off).active_chunk_counter = i
       /\ ChunkedPosition(off).beginning_of_active_chunk = ChunkBegin(i)
       /\ ChunkedPosition(off).offset_in_active_chunk = r
  BY <1>9, <1>10
<1> QED BY <1>8, <1>11, <1>12 DEF last, r
=============================================================================
