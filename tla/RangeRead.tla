----------------------------- MODULE RangeRead -----------------------------
(***************************************************************************)
(* GET and HEAD on one stored file: handle_send_file of                    *)
(* src/davs/webdav_server.rs and the two streamers it hands the file to.   *)
(* The file does not change meanwhile (UploadStore is about files that     *)
(* do).  Byte k of the plaintext is the number k, so that a body shows     *)
(* which bytes were sent and in which order.                               *)
(*                                                                         *)
(* The arithmetic is on u64: a result that does not fit panics in a build  *)
(* with overflow checks and wraps in one without (overflow_checks).        *)
(***************************************************************************)
EXTENDS ChunkLayout, SequencesExt

CONSTANTS BufSize,    \* BUF_SIZE, the most a plain read returns
          Sizes,      \* lengths of the plaintext
          Offsets,    \* numbers a Range header may hold
          Word,       \* 2^64
          Usize,      \* 2^64 or 2^32: what `as usize` keeps
          NoRange, NoEnd

ASSUME BufferAssumption == BufSize \in Nat \ {0} /\ Sizes \subseteq Nat
ASSUME WordAssumption ==
    /\ Word \in Nat /\ Usize \in 1 .. Word
    /\ Offsets \subseteq 0 .. Word - 1
    /\ \A n \in Sizes : 2 * (EncryptedSize(n) + EncryptedChunk) < Word

VARIABLES file,       \* the stored file: encrypted or not, plaintext length
          overflow_checks,
          request,    \* method, Range header, and what the validators say
          pc, reply,  \* the headers of the answer
          seek,       \* position of the open file
          remaining, position,   \* of into_stream_sized
          body        \* the bytes yielded so far

vars == <<file, overflow_checks, request, pc, reply, seek, remaining,
          position, body>>

Ranges == [start : Offsets, end : Offsets \cup {NoEnd}]
Requests == [head : BOOLEAN, range : Ranges \cup {NoRange},
             not_modified : BOOLEAN, if_range_stale : BOOLEAN]
NoReply == [status |-> 0, length |-> 0, range |-> NoRange]

Bytes(from, to) == [k \in 1 .. to - from |-> from + k - 1]   \* from .. to - 1
SmallerOf(a, b) == IF a < b THEN a ELSE b

SizeOnDisk == IF file.encrypted THEN EncryptedSize(file.plain) ELSE file.plain
PlainSize == IF file.encrypted THEN decrypted_size(SizeOnDisk) ELSE SizeOnDisk

TypeOK ==
    /\ file \in [encrypted : BOOLEAN, plain : Sizes]
    /\ overflow_checks \in BOOLEAN
    /\ request \in Requests
    /\ pc \in {"cache", "range", "whole", "open", "sized", "done", "failed",
              "panicked"}
    /\ reply.status \in {0, 200, 206, 304, 416, 500}
    /\ seek \in 0 .. Word - 1 /\ remaining \in 0 .. Word - 1
    /\ position.active_chunk_counter \in 0 .. Word - 1
    /\ position.offset_in_active_chunk \in 0 .. PlainChunk - 1
    /\ body \in Seq(0 .. file.plain)

Init ==
    /\ file \in [encrypted : BOOLEAN, plain : Sizes]
    /\ overflow_checks \in BOOLEAN
    /\ request \in Requests
    /\ pc = "cache" /\ reply = NoReply
    /\ seek = 0 /\ remaining = 0 /\ position = ChunkedPosition(0)
    /\ body = << >>

Panic ==
    /\ pc' = "panicked"
    /\ UNCHANGED <<file, overflow_checks, request, reply, seek, remaining,
                   position, body>>

\* If-None-Match and If-Modified-Since are answered before the range is read.
CheckCache ==
    /\ pc = "cache"
    /\ IF request.not_modified
         THEN pc' = "done" /\ reply' = [NoReply EXCEPT !.status = 304]
         ELSE pc' = "range" /\ reply' = reply
    /\ UNCHANGED <<file, overflow_checks, request, seek, remaining,
                   position, body>>

\* An If-Range validator that does not match makes the range be ignored, as
\* does a header parse_range cannot parse (NoRange stands for both).
UsedRange == IF request.if_range_stale THEN NoRange ELSE request.range

\* A range with an end is accepted whenever it is not reversed.
Accepted(range) ==
    IF range.end = NoEnd THEN range.start < PlainSize
                         ELSE range.end >= range.start

\* Slip: the end the client sent is not limited to the file.
PartEndUnbounded(range) ==
    IF range.end = NoEnd THEN (PlainSize - 1) % Word ELSE range.end

PartEnd(range) ==
    LET last == (PlainSize - 1) % Word
    IN  IF range.end = NoEnd THEN last ELSE SmallerOf(range.end, last)

PartSize(range) == (PartEnd(range) - range.start + 1) % Word

Underflows(range) ==
    \/ PlainSize = 0
    \/ PartEnd(range) < range.start
    \/ PartEnd(range) - range.start + 1 = Word

AnswerWhole ==
    /\ pc = "range" /\ UsedRange = NoRange
    /\ reply' = [NoReply EXCEPT !.status = 200, !.length = PlainSize]
    /\ pc' = IF request.head THEN "done" ELSE "whole"
    /\ seek' = IF file.encrypted THEN Nonce ELSE 0
    /\ UNCHANGED <<file, overflow_checks, request, remaining, position, body>>

\* lseek takes a signed offset.
TooFar(offset) == 2 * offset >= Word

PartReply(range) ==
    [status |-> 206, length |-> PartSize(range),
     range |-> [start |-> range.start, end |-> PartEnd(range)]]

AnswerPart ==
    LET range == UsedRange IN
    /\ pc = "range" /\ range # NoRange /\ Accepted(range)
    /\ ~(overflow_checks /\ Underflows(range))
    /\ remaining' = PartSize(range)
    /\ \/ /\ request.head \/ file.encrypted
          /\ reply' = PartReply(range)
          /\ pc' = IF request.head THEN "done" ELSE "open"
          /\ seek' = seek
       \/ /\ ~request.head /\ ~file.encrypted /\ ~TooFar(range.start)
          /\ reply' = PartReply(range)
          /\ pc' = "sized" /\ seek' = range.start
       \/ /\ ~request.head /\ ~file.encrypted /\ TooFar(range.start)
          /\ reply' = [NoReply EXCEPT !.status = 500]
          /\ pc' = "done" /\ seek' = seek
    /\ UNCHANGED <<file, overflow_checks, request, position, body>>

AnswerPartPanics ==
    /\ pc = "range" /\ UsedRange # NoRange /\ Accepted(UsedRange)
    /\ overflow_checks /\ Underflows(UsedRange)
    /\ Panic

AnswerUnsatisfiable ==
    /\ pc = "range" /\ UsedRange # NoRange /\ ~Accepted(UsedRange)
    /\ reply' = [NoReply EXCEPT !.status = 416]
    /\ pc' = "done"
    /\ UNCHANGED <<file, overflow_checks, request, seek, remaining,
                   position, body>>

EndOfBody ==
    /\ pc' = "done"
    /\ UNCHANGED <<file, overflow_checks, request, reply, seek, remaining,
                   position, body>>

Yield(bytes) == body' = body \o bytes

----------------------------------------------------------------------------
\* Streamer: each read returns what it likes, up to the buffer.
Available == IF seek < SizeOnDisk THEN SizeOnDisk - seek ELSE 0

WholeRead ==
    /\ pc = "whole" /\ ~file.encrypted /\ Available > 0
    /\ \E r \in 1 .. SmallerOf(BufSize, Available) :
         Yield(Bytes(seek, seek + r)) /\ seek' = seek + r
    /\ UNCHANGED <<file, overflow_checks, request, pc, reply, remaining,
                   position>>

\* Slip: the buffer is not cut to what remains.
SizedReadWholeBuffer ==
    /\ pc = "sized" /\ ~file.encrypted /\ remaining > 0 /\ Available > 0
    /\ \E r \in 1 .. SmallerOf(BufSize, Available) :
         /\ Yield(Bytes(seek, seek + r)) /\ seek' = seek + r
         /\ remaining' = remaining - r
    /\ UNCHANGED <<file, overflow_checks, request, pc, reply, position>>

SizedRead ==
    /\ pc = "sized" /\ ~file.encrypted /\ remaining > 0 /\ Available > 0
    /\ \E r \in 1 .. SmallerOf(SmallerOf(BufSize, remaining), Available) :
         /\ Yield(Bytes(seek, seek + r)) /\ seek' = seek + r
         /\ remaining' = remaining - r
    /\ UNCHANGED <<file, overflow_checks, request, pc, reply, position>>

\* Slip: a read of nothing does not end the sized stream.
PlainEndsByCount ==
    /\ pc \in {"whole", "sized"} /\ ~file.encrypted
    /\ IF pc = "whole" THEN Available = 0 ELSE remaining = 0
    /\ EndOfBody

PlainEnds ==
    /\ pc \in {"whole", "sized"} /\ ~file.encrypted
    /\ Available = 0 \/ (pc = "sized" /\ remaining = 0)
    /\ EndOfBody

----------------------------------------------------------------------------
\* EncryptedStreamer: read_to_end of a take of one chunk.
ReadCount == SmallerOf(EncryptedChunk, Available)

\* A chunk decrypts when it is whole, at its counter, with its last flag.
Decrypts(counter, last) ==
    /\ counter <= LastChunk(file.plain)
    /\ seek = ChunkBegin(counter)
    /\ ReadCount = ChunkLength(file.plain, counter)
    /\ last <=> counter = LastChunk(file.plain)

PlainOfChunk(counter) ==
    Bytes(counter * PlainChunk,
          SmallerOf((counter + 1) * PlainChunk, file.plain))

NextChunk ==
    LET counter == (seek - Nonce) \div EncryptedChunk   \* of the decryptor
        last == ReadCount < EncryptedChunk
    IN  /\ pc = "whole" /\ file.encrypted /\ ReadCount > 0
        /\ Decrypts(counter, last)
        /\ Yield(PlainOfChunk(counter))
        /\ seek' = seek + ReadCount
        /\ pc' = IF last THEN "done" ELSE pc
        /\ UNCHANGED <<file, overflow_checks, request, reply, remaining,
                       position>>

\* Slip: the offset on disk where the one in the plaintext is meant.
PositionOfEncrypted(offset) ==
    [ChunkedPosition(encrypted_offset(offset))
        EXCEPT !.beginning_of_active_chunk = @ % Word]

\* The sized stream finds its chunk when it is first polled.
PositionOf(offset) ==
    [ChunkedPosition(offset) EXCEPT !.beginning_of_active_chunk = @ % Word]

\* With overflow checks, a start whose position would not fit has panicked
\* before, in AnswerPartPanics.
OpenPart ==
    LET start == request.range.start IN
    /\ pc = "open"
    /\ position' = PositionOf(start)
    /\ IF TooFar(position'.beginning_of_active_chunk)
         THEN pc' = "failed" /\ seek' = seek
         ELSE pc' = "sized" /\ seek' = position'.beginning_of_active_chunk
    /\ UNCHANGED <<file, overflow_checks, request, reply, remaining, body>>

\* What the sized stream drains from the front of a chunk.
Drained == IF request.range.start # 0
             THEN position.offset_in_active_chunk ELSE 0

\* One turn of the loop of into_stream_sized on a chunk that decrypts.
SizedChunk ==
    LET counter == position.active_chunk_counter
        last == ReadCount < EncryptedChunk
        plain == PlainOfChunk(counter)
        kept == SubSeq(plain, Drained + 1, Len(plain))
        cut == (remaining % Usize) < Len(kept)
    IN  /\ pc = "sized" /\ file.encrypted /\ remaining # 0 /\ ReadCount > 0
        /\ Decrypts(counter, last)
        /\ Drained <= Len(plain)
        /\ Yield(IF cut THEN SubSeq(kept, 1, remaining % Usize) ELSE kept)
        /\ seek' = seek + ReadCount
        /\ IF last \/ cut
             THEN pc' = "done" /\ UNCHANGED <<remaining, position>>
             ELSE /\ pc' = pc
                  /\ remaining' = remaining - Len(kept)
                  /\ position' = [position EXCEPT
                        !.active_chunk_counter = @ + 1,
                        !.offset_in_active_chunk =
                            IF request.range.start # 0 THEN 0 ELSE @]
        /\ UNCHANGED <<file, overflow_checks, request, reply>>

\* drain(0..offset) beyond the end of the chunk panics in every build.
DrainPanics ==
    /\ pc = "sized" /\ file.encrypted /\ remaining # 0 /\ ReadCount > 0
    /\ Decrypts(position.active_chunk_counter, ReadCount < EncryptedChunk)
    /\ Drained > Len(PlainOfChunk(position.active_chunk_counter))
    /\ Panic

\* The chunk does not decrypt at the counter it is read for: the stream yields
\* an error, which cuts the response.
DecryptFails ==
    /\ pc = "sized" /\ file.encrypted /\ remaining # 0 /\ ReadCount > 0
    /\ ~Decrypts(position.active_chunk_counter, ReadCount < EncryptedChunk)
    /\ pc' = "failed"
    /\ UNCHANGED <<file, overflow_checks, request, reply, seek, remaining,
                   position, body>>

EncryptedEnds ==
    /\ pc \in {"whole", "sized"} /\ file.encrypted
    /\ ReadCount = 0 \/ (pc = "sized" /\ remaining = 0)
    /\ EndOfBody

Answer == \/ CheckCache \/ AnswerWhole \/ AnswerPart
          \/ AnswerPartPanics \/ AnswerUnsatisfiable
Stream == \/ WholeRead \/ SizedRead \/ PlainEnds
          \/ OpenPart \/ NextChunk \/ SizedChunk
          \/ DrainPanics \/ DecryptFails \/ EncryptedEnds

Next == Answer \/ Stream
Spec == Init /\ [][Next]_vars
\* The task of a connection is polled while its client reads.
FairSpec == Spec /\ WF_vars(Next)

----------------------------------------------------------------------------
Complete == pc = "done" /\ ~request.head

\* A satisfiable range is answered with exactly its bytes: never a byte that
\* was not asked for or out of place (offset in the first chunk, chunk
\* counter, short reads), and in the end all of them, as many as the
\* Content-Length header says.
BodyIsTheRange ==
    (reply.status = 206 /\ request.range.start < file.plain) =>
       LET range == reply.range
           asked == Bytes(range.start, range.end + 1)
       IN  /\ range.start = request.range.start /\ range.end < file.plain
           /\ IsPrefix(body, asked)
           /\ Complete => body = asked /\ reply.length = Len(body)

\* Without a range the body is the whole plaintext, as long as announced.
WholeFile ==
    reply.status = 200 =>
       /\ reply.length = file.plain
       /\ IsPrefix(body, Bytes(0, file.plain))
       /\ Complete => body = Bytes(0, file.plain)

\* Only a range that starts beyond the file can make the answer fail half way
\* (a wrapped length or position, a chunk read for the wrong counter) or panic.
FailsOnlyBeyondTheEnd ==
    pc \in {"failed", "panicked"} \/ reply.status = 500 =>
       UsedRange # NoRange /\ UsedRange.start >= file.plain

\* Every request comes to an end, also when the announced length wrapped
\* around and the file has fewer bytes than it.
RequestEnds == pc = "cache" ~> pc \in {"done", "failed", "panicked"}

\* tests/backend/davs.rs:205 asks for a range that starts beyond the file and
\* expects 416: that a range with an end is treated like one without.
UnsatisfiableIs416 ==
    UsedRange # NoRange /\ UsedRange.start >= file.plain =>
       reply.status \in {0, 304, 416} /\ pc # "panicked"
=============================================================================
