---------------------------- MODULE ChunkLayout ----------------------------
(***************************************************************************)
(* Where the plaintext bytes of an encrypted file lie: the arithmetic of   *)
(* src/davs/encrypted_streamer.rs.  An encrypted file is the nonce         *)
(* followed by chunks; every chunk but the last holds PlainChunk bytes of  *)
(* plaintext, the last one fewer (none, when the length is a multiple of   *)
(* PlainChunk), and each adds Overhead bytes of authentication tag.        *)
(***************************************************************************)
EXTENDS Integers

CONSTANTS PlainChunk,   \* PLAIN_CHUNK_SIZE
          Overhead,     \* ENCRYPTION_OVERHEAD
          Nonce         \* NONCE_SIZE

ASSUME LayoutAssumption ==
    PlainChunk \in Nat \ {0} /\ Overhead \in Nat \ {0} /\ Nonce \in Nat

EncryptedChunk == PlainChunk + Overhead

\* What copy_from leaves on disk for a plaintext of n bytes: one chunk per
\* full PlainChunk, then encrypt_last of what is left.
EncryptedSize(n) == Nonce + n + Overhead * (n \div PlainChunk + 1)

\* Chunk i of a plaintext of n bytes: where it begins, and its length on disk.
ChunkBegin(i) == Nonce + i * EncryptedChunk
LastChunk(n) == n \div PlainChunk
ChunkLength(n, i) ==
    IF i < LastChunk(n) THEN EncryptedChunk ELSE (n % PlainChunk) + Overhead

\* Slip: the last, shorter chunk is not counted.
decrypted_size_floor(enc_size) ==
    enc_size - Overhead * ((enc_size - Nonce) \div EncryptedChunk) - Nonce

decrypted_size(enc_size) ==
    LET body == enc_size - Nonce
        chunks == body \div EncryptedChunk
                    + IF body % EncryptedChunk > 0 THEN 1 ELSE 0
    IN  enc_size - Overhead * chunks - Nonce

encrypted_offset(dec_offset) ==
    dec_offset + Overhead * (dec_offset \div PlainChunk + 1) + Nonce

ChunkedPosition(plain_offset) ==
    LET counter == plain_offset \div PlainChunk
        begin == counter * EncryptedChunk + Nonce
    IN  [active_chunk_counter |-> counter,
         beginning_of_active_chunk |-> begin,
         offset_in_active_chunk |-> encrypted_offset(plain_offset)
                                      - (begin + Overhead)]
=============================================================================
