---------------------------- MODULE UploadStore ----------------------------
(***************************************************************************)
(* Uploads (PUT) and downloads (GET) of one encrypted file, interleaved:   *)
(* handle_upload and handle_send_file of src/davs/webdav_server.rs with    *)
(* copy_from and into_stream of src/davs/encrypted_streamer.rs.  Nothing   *)
(* locks the file: an upload truncates and rewrites it in place, under     *)
(* the readers and under the other uploads.                                *)
(*                                                                         *)
(* The file is a sequence of cells: the nonce, then the chunks.  A cell    *)
(* records under which nonce it was encrypted, whose data it holds, at     *)
(* which chunk index, and whether it is shorter than a full chunk; a cell  *)
(* with nonce Nobody decrypts under no nonce.                              *)
(***************************************************************************)
EXTENDS Integers, SequencesExt

CONSTANTS Puts,      \* the PUT requests, each with a body of its own
          Gets,      \* the GET requests
          Full,      \* full chunks in the body of a PUT
          Rest,      \* plaintext bytes after them
          PlainChunk,
          Nobody,    \* no request
          Missing    \* there is no file

ASSUME UploadAssumption ==
    /\ PlainChunk \in Nat \ {0}
    /\ Full \in [Puts -> Nat] /\ Rest \in [Puts -> 0 .. PlainChunk - 1]
    /\ Nobody \notin Puts

VARIABLES cells,     \* the file, or Missing
          put,       \* the uploads: where each is in copy_from
          get,       \* the downloads
          alone,     \* history: the upload that no other one overlapped
          settled    \* history: whose acknowledged upload the file is

vars == <<cells, put, get, alone, settled>>

Cell == [nonce : Puts \cup {Nobody}, data : Puts \cup {Nobody},
         index : Nat, short : BOOLEAN]
Garbage(short) ==
    [nonce |-> Nobody, data |-> Nobody, index |-> 0, short |-> short]

\* Cell 1 is the nonce, cell i + 2 is chunk i; the last chunk is the short one.
LastCell(p) == Full[p] + 2
\* Slip: the same nonce for every upload.
EncryptedFixedNonce(p, k) ==
    [nonce |-> CHOOSE q \in Puts : TRUE, data |-> p, index |-> k,
     short |-> k = LastCell(p)]

Encrypted(p, k) ==
    [nonce |-> p, data |-> p, index |-> k, short |-> k = LastCell(p)]

\* The plaintext of an upload: its chunks, and its length.
PlainChunks(p) == [i \in 1 .. Full[p] + 1 |-> <<p, i + 1>>]
PlainLength(p) == Full[p] * PlainChunk + Rest[p]

\* The file after a write of cell new at k: what was longer there sticks out
\* of a short cell, a gap reads as zeros, and a short cell is one only at the
\* end of the file.
Written(file, k, new) ==
    LET length == IF k > Len(file) THEN k ELSE Len(file)
        over == k < length \/ (k = Len(file) /\ ~file[k].short)
    IN  [i \in 1 .. length |->
           IF i = k THEN (IF new.short /\ over THEN Garbage(FALSE) ELSE new)
           ELSE IF i <= Len(file) /\ (file[i].short => i = length)
                  THEN file[i]
                  ELSE Garbage(FALSE)]

\* A chunk of plaintext: whose, and from which cell.
Chunk == Puts \X Nat

Reader == [pc : {"idle", "nonce", "chunk", "reading", "done", "failed",
                 "panicked"},
           announced : Int, nonce : Puts \cup {Nobody}, at : Nat,
           seen : Cell, body : Seq(Chunk), clean : Puts \cup {Nobody}]

TypeOK ==
    /\ cells = Missing \/ cells \in Seq(Cell)
    /\ put \in [Puts -> [pc : {"idle", "writing", "torn", "acked", "failed"},
                       at : Nat]]
    /\ \A p \in Puts : put[p].at \in 1 .. LastCell(p) + 1
    /\ get \in [Gets -> Reader]
    /\ alone \in Puts \cup {Nobody} /\ settled \in Puts \cup {Nobody}

Init ==
    /\ cells = Missing
    /\ put = [p \in Puts |-> [pc |-> "idle", at |-> 1]]
    /\ get = [g \in Gets |->
                [pc |-> "idle", announced |-> 0, nonce |-> Nobody, at |-> 1,
                 seen |-> Garbage(FALSE), body |-> << >>, clean |-> Nobody]]
    /\ alone = Nobody /\ settled = Nobody

Busy == {p \in Puts : put[p].pc \in {"writing", "torn"}}

----------------------------------------------------------------------------
\* Slip: the file is opened for writing without being truncated.
CreateOver(p) ==
    /\ put[p].pc = "idle"
    /\ cells' = IF cells = Missing THEN << >> ELSE cells
    /\ put' = [put EXCEPT ![p].pc = "writing"]
    /\ alone' = IF Busy = {} THEN p ELSE Nobody
    /\ settled' = Nobody
    /\ get' = [g \in Gets |-> [get[g] EXCEPT !.clean = Nobody]]

\* fs::File::create: the file is empty from here on, for everyone.
Create(p) ==
    /\ put[p].pc = "idle"
    /\ cells' = << >>
    /\ put' = [put EXCEPT ![p].pc = "writing"]
    /\ alone' = IF Busy = {} THEN p ELSE Nobody
    /\ settled' = Nobody
    /\ get' = [g \in Gets |-> [get[g] EXCEPT !.clean = Nobody]]

\* The path cannot be created or opened: 403.
CreateFails(p) ==
    /\ put[p].pc = "idle"
    /\ put' = [put EXCEPT ![p].pc = "failed"]
    /\ UNCHANGED <<cells, get, alone, settled>>

\* write_all of the nonce or of a chunk, at the offset of this upload's own
\* file handle: first some of it, then all of it.
BeginWrite(p) ==
    /\ put[p].pc = "writing"
    /\ cells' = Written(cells, put[p].at, Garbage(TRUE))
    /\ put' = [put EXCEPT ![p].pc = "torn"]
    /\ UNCHANGED <<get, alone, settled>>

\* Slip: the loop does not end after encrypt_last.
EndWriteGoesOn(p) ==
    /\ put[p].pc = "torn"
    /\ cells' = Written(cells, put[p].at, Encrypted(p, put[p].at))
    /\ put' = [put EXCEPT ![p] = [pc |-> "writing", at |-> @.at + 1]]
    /\ UNCHANGED <<get, alone, settled>>

EndWrite(p) ==
    LET k == put[p].at
        last == k = LastCell(p)
    IN  /\ put[p].pc = "torn"
        /\ cells' = Written(cells, k, Encrypted(p, k))
        /\ put' = [put EXCEPT ![p] = [pc |-> IF last THEN "acked"
                                                     ELSE "writing",
                                      at |-> k + 1]]
        /\ settled' = IF last /\ alone = p THEN p ELSE settled
        /\ UNCHANGED <<get, alone>>

\* The client goes away, or the body ends in an error, while a chunk is being
\* collected: what was written so far stays.
Abort(p) ==
    /\ put[p].pc = "writing"
    /\ put' = [put EXCEPT ![p].pc = "failed"]
    /\ UNCHANGED <<cells, get, alone, settled>>

\* A write that fails (a full disk) leaves part of the cell.
WriteFails(p) ==
    /\ put[p].pc = "torn"
    /\ put' = [put EXCEPT ![p].pc = "failed"]
    /\ UNCHANGED <<cells, get, alone, settled>>

----------------------------------------------------------------------------
\* The plaintext lengths decrypted_size can make of the file's length: of a
\* torn cell some bytes are there, maybe fewer than a tag has.
Sizes(file) ==
    LET n == Len(file) IN
    IF n = 0 THEN {-1}
    ELSE IF ~file[n].short THEN {(n - 1) * PlainChunk}
    ELSE IF n = 1 THEN {-1}
    ELSE LET full == (n - 2) * PlainChunk IN
         IF file[n].nonce # Nobody THEN {full + Rest[file[n].data]}
         ELSE full - 1 .. full + PlainChunk - 1

\* Open and stat.  A length below zero panics or wraps, with the build.
Stat(g) ==
    /\ get[g].pc = "idle" /\ cells # Missing
    /\ \E size \in Sizes(cells), panics \in BOOLEAN :
         get' = [get EXCEPT ![g].announced = size,
                            ![g].clean = settled,
                            ![g].pc = IF size < 0 /\ panics THEN "panicked"
                                                            ELSE "nonce"]
    /\ UNCHANGED <<cells, put, alone, settled>>

\* No file: 404.
StatMissing(g) ==
    /\ get[g].pc = "idle" /\ cells = Missing
    /\ get' = [get EXCEPT ![g].pc = "failed"]
    /\ UNCHANGED <<cells, put, alone, settled>>

\* retrieve_nonce: read_exact, which fails at the end of the file.
ReadNonce(g) ==
    /\ get[g].pc = "nonce"
    /\ get' = IF cells = << >> \/ (Len(cells) = 1 /\ cells[1].short)
                THEN [get EXCEPT ![g].pc = "failed"]
                ELSE [get EXCEPT ![g].pc = "chunk", ![g].at = 2,
                                 ![g].nonce = cells[1].nonce]
    /\ UNCHANGED <<cells, put, alone, settled>>

\* read_to_end of one chunk takes several reads; the first sees the end of
\* the file, and then the body ends, or a cell.
BeginRead(g) ==
    /\ get[g].pc = "chunk"
    /\ get' = IF get[g].at > Len(cells)
                THEN [get EXCEPT ![g].pc = "done"]
                ELSE [get EXCEPT ![g].pc = "reading",
                                 ![g].seen = cells[get[g].at]]
    /\ UNCHANGED <<cells, put, alone, settled>>

\* decrypt_next, or decrypt_last when less than a chunk was there.
Decrypts(reader, cell) ==
    /\ cell.nonce # Nobody /\ cell.nonce = reader.nonce
    /\ cell.index = reader.at
    /\ cell.short <=> cell.index = LastCell(cell.data)

\* The last read.  A chunk that changed in between is a mixture.
EndRead(g) ==
    LET reader == get[g]
        cell == IF /\ reader.at <= Len(cells)
                   /\ cells[reader.at] = reader.seen
                  THEN reader.seen ELSE Garbage(reader.seen.short)
        sent == Append(reader.body, <<cell.data, cell.index>>)
    IN  /\ reader.pc = "reading"
        /\ get' = IF ~Decrypts(reader, cell)
                    THEN [get EXCEPT ![g].pc = "failed"]
                    ELSE [get EXCEPT ![g].body = sent,
                                     ![g].at = reader.at + 1,
                                     ![g].pc = IF cell.short THEN "done"
                                                             ELSE "chunk"]
        /\ UNCHANGED <<cells, put, alone, settled>>

Upload(p) == \/ Create(p) \/ CreateFails(p) \/ BeginWrite(p) \/ EndWrite(p)
             \/ Abort(p) \/ WriteFails(p)
Download(g) == \/ Stat(g) \/ StatMissing(g) \/ ReadNonce(g) \/ BeginRead(g) \/ EndRead(g)

Next == (\E p \in Puts : Upload(p)) \/ (\E g \in Gets : Download(g))
Spec == Init /\ [][Next]_vars

----------------------------------------------------------------------------
\* What a download delivers is the beginning of one upload's plaintext,
\* whatever uploads truncated and rewrote the file while it was read: the
\* fresh nonce of each upload and the chunk counter keep the chunks of two
\* uploads, and of two places, apart.
BodyIsOneUpload ==
    \A g \in Gets : get[g].body # << >> =>
       \E p \in Puts : IsPrefix(get[g].body, PlainChunks(p))

\* A download of an acknowledged upload that nothing overlapped, and that no
\* upload disturbs, delivers all of it, as long as announced, and without
\* error.
AckedReadsBack ==
    \A g \in Gets : get[g].clean # Nobody =>
       LET p == get[g].clean IN
       /\ get[g].pc \notin {"failed", "panicked"}
       /\ get[g].pc \notin {"idle"} => get[g].announced = PlainLength(p)
       /\ get[g].pc = "done" => get[g].body = PlainChunks(p)
=============================================================================
