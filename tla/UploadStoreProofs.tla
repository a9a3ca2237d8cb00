-------------------------- MODULE UploadStoreProofs --------------------------
(***************************************************************************)
(* A download delivers the beginning of one upload, for any number of      *)
(* uploads and downloads and any lengths.                                  *)
(*                                                                         *)
(* The invariant: a cell that decrypts at all is the one its upload wrote  *)
(* at that place, and a download that has delivered something has          *)
(* delivered the first chunks of the upload whose nonce it read.           *)
(*                                                                         *)
(* From it, a second one: the file under an upload that nothing overlaps   *)
(* is what that upload has written so far, a settled file is complete, and *)
(* a download of it that nothing disturbs reads its cells one by one to    *)
(* the last.                                                               *)
(***************************************************************************)
EXTENDS UploadStore, TLAPS

\* A cell at place k that has a nonce is that upload's cell k.
GoodCell(cell, k) ==
    cell.nonce # Nobody =>
       /\ cell.nonce \in Puts /\ k \in 1 .. LastCell(cell.nonce)
       /\ cell = Encrypted(cell.nonce, k)

GoodFile(file) == /\ file \in Seq(Cell)
                  /\ \A k \in 1 .. Len(file) : GoodCell(file[k], k)

FileOK == \/ /\ cells = Missing /\ Busy = {}
             /\ \A g \in Gets : get[g].pc \in {"idle", "failed"}
          \/ GoodFile(cells)

PutsOK == \A p \in Puts : put[p].pc \in {"idle", "writing", "torn"} =>
                             put[p].at \in 1 .. LastCell(p)

\* Where a download is, and what it has delivered.
GoodReader(r) ==
    /\ \E k \in Nat : GoodCell(r.seen, k)
    /\ r.pc \in {"idle", "nonce"} => r.body = << >>
    /\ r.pc \in {"chunk", "reading"} => r.at = Len(r.body) + 2
    /\ r.body # << >> =>
          /\ r.nonce \in Puts /\ Len(r.body) <= Full[r.nonce] + 1
          /\ \A i \in 1 .. Len(r.body) : r.body[i] = <<r.nonce, i + 1>>

ReadersOK == \A g \in Gets : GoodReader(get[g])

IInv == TypeOK /\ FileOK /\ PutsOK /\ ReadersOK

----------------------------------------------------------------------------
LEMMA EncryptedFields ==
    ASSUME NEW p \in Puts, NEW k
    PROVE  /\ Encrypted(p, k).nonce = p /\ Encrypted(p, k).data = p
           /\ Encrypted(p, k).index = k
           /\ Encrypted(p, k).short <=> k = LastCell(p)
<1>1. /\ Encrypted(p, k).nonce = p /\ Encrypted(p, k).data = p
      /\ Encrypted(p, k).index = k
  BY DEF Encrypted
<1>2. Encrypted(p, k).short <=> k = LastCell(p)
  BY Zenon DEF Encrypted
<1> QED
  BY <1>1, <1>2

LEMMA CellFacts ==
    /\ \A short \in BOOLEAN : /\ Garbage(short) \in Cell
                              /\ \A k : GoodCell(Garbage(short), k)
    /\ \A p \in Puts : \A k \in 1 .. LastCell(p) :
          Encrypted(p, k) \in Cell /\ GoodCell(Encrypted(p, k), k)
<1>1. \A short \in BOOLEAN : /\ Garbage(short) \in Cell
                             /\ \A k : GoodCell(Garbage(short), k)
  BY DEF Garbage, Cell, GoodCell
<1>2. ASSUME NEW p \in Puts, NEW k \in 1 .. LastCell(p)
      PROVE  Encrypted(p, k) \in Cell /\ GoodCell(Encrypted(p, k), k)
  <2>1. k \in Nat
    BY UploadAssumption DEF LastCell
  <2> QED
    BY <2>1 DEF Encrypted, Cell, GoodCell
<1> QED
  BY <1>1, <1>2

\* Writing a good cell keeps the file good: the cells around it stay, or turn
\* into garbage.
LEMMA WrittenGood ==
    ASSUME NEW file, GoodFile(file), NEW k \in Nat \ {0},
           NEW new \in Cell, GoodCell(new, k)
    PROVE  GoodFile(Written(file, k, new))
<1> DEFINE length == IF k > Len(file) THEN k ELSE Len(file)
           over == k < length \/ (k = Len(file) /\ ~file[k].short)
           cell(i) == IF i = k
                        THEN (IF new.short /\ over THEN Garbage(FALSE) ELSE new)
                        ELSE IF i <= Len(file) /\ (file[i].short => i = length)
                               THEN file[i]
                               ELSE Garbage(FALSE)
<1>1. file \in Seq(Cell) /\ Len(file) \in Nat /\ length \in Nat
  BY DEF GoodFile
<1>2. ASSUME NEW i \in 1 .. length
      PROVE  cell(i) \in Cell /\ GoodCell(cell(i), i)
  <2>1. Garbage(FALSE) \in Cell /\ GoodCell(Garbage(FALSE), i)
    BY CellFacts
  <2>2. CASE i = k
    BY <2>1, <2>2
  <2>3. CASE i # k /\ i <= Len(file)
    <3>1. file[i] \in Cell /\ GoodCell(file[i], i)
      BY <1>1, <2>3 DEF GoodFile
    <3> QED
      BY <2>1, <2>3, <3>1
  <2>4. CASE i # k /\ ~(i <= Len(file))
    BY <2>1, <2>4
  <2> QED
    BY <2>2, <2>3, <2>4
<1>3. Written(file, k, new) = [i \in 1 .. length |-> cell(i)]
  BY DEF Written
<1> HIDE DEF cell, length
<1>4. Written(file, k, new) \in Seq(Cell)
      /\ Len(Written(file, k, new)) = length
  BY <1>1, <1>2, <1>3
<1> QED
  BY <1>2, <1>3, <1>4 DEF GoodFile

LEMMA InitInv == Init => IInv
<1> SUFFICES ASSUME Init PROVE IInv
  OBVIOUS
<1>1. \A p \in Puts : LastCell(p) \in Nat \ {0, 1}
  BY UploadAssumption DEF LastCell
<1>2. Garbage(FALSE) \in Cell
  BY CellFacts
<1>3. TypeOK
  <2>1. put \in [Puts -> [pc : {"idle", "writing", "torn", "acked", "failed"},
                        at : Nat]]
    BY DEF Init
  <2>2. \A p \in Puts : put[p].at \in 1 .. LastCell(p) + 1
    BY <1>1 DEF Init
  <2>3. ASSUME NEW c \in Cell
        PROVE  [pc |-> "idle", announced |-> 0, nonce |-> Nobody, at |-> 1,
                seen |-> c, body |-> << >>, clean |-> Nobody] \in Reader
    BY DEF Reader
  <2>4. get \in [Gets -> Reader]
    BY <1>2, <2>3 DEF Init
  <2> QED
    BY <2>1, <2>2, <2>4 DEF Init, TypeOK
<1>4. FileOK /\ PutsOK
  BY <1>1 DEF Init, FileOK, PutsOK, Busy
<1>5. ReadersOK
  BY CellFacts DEF Init, ReadersOK, GoodReader
<1> QED
  BY <1>3, <1>4, <1>5 DEF IInv

----------------------------------------------------------------------------
\* An upload writes good cells, and to no download.
LEMMA UploadKeepsInv ==
    ASSUME NEW p \in Puts, IInv, Upload(p)
    PROVE  IInv'
<1> USE DEF IInv
<1>0. \A q \in Puts : LastCell(q) \in Nat \ {0, 1}
  BY UploadAssumption DEF LastCell
<1>1. LastCell(p) \in Nat \ {0, 1} /\ put[p].at \in Nat \ {0}
  BY <1>0 DEF TypeOK
<1>2. ASSUME get' = [g \in Gets |-> [get[g] EXCEPT !.clean = Nobody]]
      PROVE  ReadersOK' /\ get' \in [Gets -> Reader]
  <2>1. ASSUME NEW g \in Gets
        PROVE  get'[g] \in Reader /\ GoodReader(get'[g])
    <3>1. get[g] \in Reader /\ GoodReader(get[g])
      BY DEF TypeOK, ReadersOK
    <3>2. get'[g] = [get[g] EXCEPT !.clean = Nobody]
      BY <1>2
    <3>3. /\ get'[g] \in Reader /\ get'[g].pc = get[g].pc
          /\ get'[g].nonce = get[g].nonce /\ get'[g].at = get[g].at
          /\ get'[g].seen = get[g].seen /\ get'[g].body = get[g].body
      BY <3>1, <3>2 DEF Reader
    <3> QED
      BY <3>1, <3>3 DEF GoodReader
  <2> QED
    BY <1>2, <2>1 DEF ReadersOK
<1>3. get' = get => ReadersOK' /\ get' \in [Gets -> Reader]
  BY DEF ReadersOK, GoodReader, TypeOK
<1>4. p \in Busy => GoodFile(cells)
  BY DEF FileOK
\* What put' must satisfy, for the places this upload may go to.
<1>5. /\ put \in [Puts -> [pc : {"idle", "writing", "torn", "acked", "failed"},
                           at : Nat]]
      /\ put[p].at \in 1 .. LastCell(p) + 1
      /\ put[p].pc \in {"idle", "writing", "torn"} =>
            put[p].at \in 1 .. LastCell(p)
  BY DEF TypeOK, PutsOK
<1>6. ASSUME NEW pc \in {"idle", "writing", "torn", "acked", "failed"},
             NEW at \in 1 .. LastCell(p) + 1,
             pc \in {"idle", "writing", "torn"} => at \in 1 .. LastCell(p),
             put' = [put EXCEPT ![p] = [pc |-> pc, at |-> at]],
             cells' = Missing \/ cells' \in Seq(Cell),
             get' \in [Gets -> Reader],
             alone' \in Puts \cup {Nobody}, settled' \in Puts \cup {Nobody}
      PROVE  TypeOK' /\ PutsOK'
  <2>1. at \in Nat
    BY <1>1
  <2>2. put' \in [Puts -> [pc : {"idle", "writing", "torn", "acked", "failed"},
                          at : Nat]]
    BY <1>5, <1>6, <2>1
  <2>3. ASSUME NEW q \in Puts
        PROVE  /\ put'[q].at \in 1 .. LastCell(q) + 1
               /\ put'[q].pc \in {"idle", "writing", "torn"} =>
                     put'[q].at \in 1 .. LastCell(q)
    <3>1. CASE q = p
      BY <1>5, <1>6, <3>1
    <3>2. CASE q # p
      <4>1. put'[q] = put[q]
        BY <1>5, <1>6, <3>2
      <4> QED
        BY <4>1 DEF TypeOK, PutsOK
    <3> QED
      BY <3>1, <3>2
  <2> QED
    BY <1>6, <2>2, <2>3 DEF TypeOK, PutsOK
<1>7. /\ cells = Missing \/ cells \in Seq(Cell)
      /\ alone \in Puts \cup {Nobody} /\ settled \in Puts \cup {Nobody}
  BY DEF TypeOK
<1>8. ASSUME NEW pc, put' = [put EXCEPT ![p].pc = pc]
      PROVE  put' = [put EXCEPT ![p] = [pc |-> pc, at |-> put[p].at]]
  <2>1. [put[p] EXCEPT !.pc = pc] = [pc |-> pc, at |-> put[p].at]
    BY <1>5
  <2> QED
    BY <1>8, <2>1, Zenon
<1>9. CASE Create(p)
  <2>1. GoodFile(cells') /\ cells' \in Seq(Cell)
    BY <1>9 DEF Create, GoodFile
  <2>2. ReadersOK' /\ get' \in [Gets -> Reader]
    BY <1>2, <1>9 DEF Create, Busy
  <2>3. /\ put' = [put EXCEPT ![p] = [pc |-> "writing", at |-> put[p].at]]
        /\ put[p].pc = "idle"
        /\ alone' \in Puts \cup {Nobody} /\ settled' \in Puts \cup {Nobody}
    BY <1>8, <1>9 DEF Create
  <2>4. TypeOK' /\ PutsOK'
    BY <1>5, <1>6, <2>1, <2>2, <2>3
  <2> QED
    BY <2>1, <2>2, <2>4 DEF FileOK
<1>10. CASE CreateFails(p) \/ Abort(p) \/ WriteFails(p)
  <2>1. /\ put' = [put EXCEPT ![p] = [pc |-> "failed", at |-> put[p].at]]
        /\ UNCHANGED <<cells, get, alone, settled>>
    BY <1>8, <1>10 DEF CreateFails, Abort, WriteFails
  <2>2. ReadersOK' /\ get' \in [Gets -> Reader]
    BY <1>3, <2>1
  <2>3. TypeOK' /\ PutsOK'
    BY <1>5, <1>6, <1>7, <2>1, <2>2
  <2>4. Busy' \subseteq Busy
    BY <1>5, <2>1 DEF Busy
  <2>5. FileOK'
    BY <2>1, <2>4 DEF FileOK, GoodFile
  <2> QED
    BY <2>2, <2>3, <2>5
<1>11. CASE BeginWrite(p)
  <2>1. /\ put[p].pc = "writing" /\ p \in Busy
        /\ cells' = Written(cells, put[p].at, Garbage(TRUE))
        /\ put' = [put EXCEPT ![p] = [pc |-> "torn", at |-> put[p].at]]
        /\ UNCHANGED <<get, alone, settled>>
    BY <1>8, <1>11 DEF BeginWrite, Busy
  <2>2. GoodFile(cells')
    BY <1>1, <1>4, <2>1, WrittenGood, CellFacts
  <2>3. ReadersOK' /\ get' \in [Gets -> Reader] /\ cells' \in Seq(Cell)
    BY <1>3, <2>1, <2>2 DEF GoodFile
  <2>4. TypeOK' /\ PutsOK'
    BY <1>5, <1>6, <1>7, <2>1, <2>3
  <2> QED
    BY <2>2, <2>3, <2>4 DEF FileOK
<1>12. CASE EndWrite(p)
  <2> DEFINE k == put[p].at
             last == k = LastCell(p)
             next == IF last THEN "acked" ELSE "writing"
  <2>1. /\ put[p].pc = "torn" /\ p \in Busy
        /\ cells' = Written(cells, k, Encrypted(p, k))
        /\ put' = [put EXCEPT ![p] = [pc |-> next, at |-> k + 1]]
        /\ settled' = IF last /\ alone = p THEN p ELSE settled
        /\ UNCHANGED <<get, alone>>
    BY <1>12 DEF EndWrite, Busy
  <2>2. k \in 1 .. LastCell(p)
    BY <1>5, <2>1
  <2>3. GoodFile(cells')
    BY <1>1, <1>4, <2>1, <2>2, WrittenGood, CellFacts
  <2>4. ReadersOK' /\ get' \in [Gets -> Reader] /\ cells' \in Seq(Cell)
    BY <1>3, <2>1, <2>3 DEF GoodFile
  <2>5. /\ next \in {"acked", "writing"} /\ k + 1 \in 1 .. LastCell(p) + 1
        /\ next = "writing" => k + 1 \in 1 .. LastCell(p)
    BY <1>1, <2>2
  <2>6. settled' \in Puts \cup {Nobody} /\ alone' \in Puts \cup {Nobody}
    BY <1>7, <2>1
  <2> HIDE DEF next, k
  <2>7. TypeOK' /\ PutsOK'
    BY <1>6, <2>1, <2>4, <2>5, <2>6
  <2> QED
    BY <2>3, <2>4, <2>7 DEF FileOK
<1> QED
  BY <1>9, <1>10, <1>11, <1>12 DEF Upload

----------------------------------------------------------------------------
\* A step of a download is that download's: the file, the uploads and the
\* other downloads stay.
LEMMA DownloadFrame ==
    ASSUME NEW g \in Gets, get \in [Gets -> Reader], Download(g)
    PROVE  /\ UNCHANGED <<cells, put, alone, settled>>
           /\ \A h \in Gets \ {g} : get'[h] = get[h]
           /\ get' = [get EXCEPT ![g] = get'[g]]
           /\ \/ get[g].pc = "idle" /\ (Stat(g) \/ StatMissing(g))
              \/ /\ get[g].pc \in {"nonce", "chunk", "reading"}
                 /\ get'[g].clean = get[g].clean
                 /\ ReadNonce(g) \/ BeginRead(g) \/ EndRead(g)
<1>1. ASSUME NEW new, get' = [get EXCEPT ![g] = new]
      PROVE  /\ \A h \in Gets \ {g} : get'[h] = get[h]
             /\ get' = [get EXCEPT ![g] = get'[g]]
             /\ get'[g] = new
  BY <1>1
<1>2. CASE Stat(g)
  <2>1. PICK size \in Sizes(cells), panics \in BOOLEAN :
          get' = [get EXCEPT ![g].announced = size,
                             ![g].clean = settled,
                             ![g].pc = IF size < 0 /\ panics THEN "panicked"
                                                             ELSE "nonce"]
    BY <1>2 DEF Stat
  <2>2. PICK new : get' = [get EXCEPT ![g] = new]
    BY <2>1
  <2> QED
    BY <1>1, <1>2, <2>2 DEF Stat
<1>3. CASE StatMissing(g)
  <2>1. PICK new : get' = [get EXCEPT ![g] = new]
    BY <1>3 DEF StatMissing
  <2> QED
    BY <1>1, <1>3, <2>1 DEF StatMissing
<1>4. CASE ReadNonce(g)
  <2>1. get'[g] = IF cells = << >> \/ (Len(cells) = 1 /\ cells[1].short)
                    THEN [get[g] EXCEPT !.pc = "failed"]
                    ELSE [get[g] EXCEPT !.pc = "chunk", !.at = 2,
                                        !.nonce = cells[1].nonce]
    BY <1>4 DEF ReadNonce
  <2>2. get'[g].clean = get[g].clean
    BY <2>1 DEF Reader
  <2>3. PICK new : get' = [get EXCEPT ![g] = new]
    BY <1>4 DEF ReadNonce
  <2> QED
    BY <1>1, <1>4, <2>2, <2>3 DEF ReadNonce
<1>5. CASE BeginRead(g)
  <2>1. get'[g] = IF get[g].at > Len(cells)
                    THEN [get[g] EXCEPT !.pc = "done"]
                    ELSE [get[g] EXCEPT !.pc = "reading",
                                        !.seen = cells[get[g].at]]
    BY <1>5 DEF BeginRead
  <2>2. get'[g].clean = get[g].clean
    BY <2>1 DEF Reader
  <2>3. PICK new : get' = [get EXCEPT ![g] = new]
    BY <1>5 DEF BeginRead
  <2> QED
    BY <1>1, <1>5, <2>2, <2>3 DEF BeginRead
<1>6. CASE EndRead(g)
  <2>1. PICK body, at, pc :
          \/ get' = [get EXCEPT ![g].pc = "failed"]
          \/ get' = [get EXCEPT ![g].body = body, ![g].at = at, ![g].pc = pc]
    BY <1>6, Zenon DEF EndRead
  <2>2. get'[g].clean = get[g].clean
    BY <2>1 DEF Reader
  <2>3. PICK new : get' = [get EXCEPT ![g] = new]
    BY <2>1
  <2>4. get[g].pc = "reading" /\ UNCHANGED <<cells, put, alone, settled>>
    BY <1>6 DEF EndRead
  <2> QED
    BY <1>1, <1>6, <2>2, <2>3, <2>4
<1> QED
  BY <1>2, <1>3, <1>4, <1>5, <1>6 DEF Download

\* A step of one download: that reader stays good.
LEMMA DownloadKeepsInv ==
    ASSUME NEW g \in Gets, IInv, Download(g)
    PROVE  IInv'
<1> USE DEF IInv
<1> DEFINE r == get[g]
<1>1. /\ UNCHANGED <<cells, put, alone, settled>>
      /\ \A h \in Gets \ {g} : get'[h] = get[h]
      /\ get' = [get EXCEPT ![g] = get'[g]]
  BY DownloadFrame DEF TypeOK
<1>2. r \in Reader /\ GoodReader(r)
  BY DEF TypeOK, ReadersOK
<1>3. ASSUME GoodFile(cells) \/ get'[g].pc = "failed",
             get'[g] \in Reader, GoodReader(get'[g])
      PROVE  IInv'
  <2>1. TypeOK' /\ PutsOK'
    BY <1>1, <1>3 DEF TypeOK, PutsOK
  <2>2. ReadersOK'
    BY <1>1, <1>3 DEF ReadersOK
  <2>3. FileOK'
    BY <1>1, <1>3 DEF FileOK, Busy, GoodFile
  <2> QED
    BY <2>1, <2>2, <2>3
<1>4. r.pc \notin {"idle", "failed"} => GoodFile(cells)
  BY DEF FileOK
<1>5. CASE Stat(g)
  <2>1. GoodFile(cells)
    BY <1>5 DEF Stat, FileOK
  <2>2. PICK size \in Sizes(cells), panics \in BOOLEAN :
          get'[g] = [r EXCEPT !.announced = size, !.clean = settled,
                              !.pc = IF size < 0 /\ panics THEN "panicked"
                                                           ELSE "nonce"]
    BY <1>5 DEF Stat, TypeOK
  <2>3. size \in Int
    BY <2>1, UploadAssumption DEF Sizes, GoodFile, GoodCell, Cell
  <2>4. r.body = << >> /\ settled \in Puts \cup {Nobody}
    BY <1>2, <1>5 DEF Stat, GoodReader, TypeOK
  <2>5. get'[g] \in Reader
    BY <1>2, <2>2, <2>3, <2>4 DEF Reader
  <2>6. /\ get'[g].seen = r.seen /\ get'[g].body = r.body
        /\ get'[g].pc \in {"panicked", "nonce"}
    BY <1>2, <2>2 DEF Reader
  <2>7. GoodReader(get'[g])
    BY <1>2, <2>4, <2>6 DEF GoodReader
  <2> QED
    BY <1>3, <2>1, <2>5, <2>7
<1>6. CASE StatMissing(g)
  <2>1. get'[g] = [r EXCEPT !.pc = "failed"]
    BY <1>6 DEF StatMissing, TypeOK
  <2>2. get'[g] \in Reader /\ GoodReader(get'[g])
    BY <1>2, <2>1 DEF Reader, GoodReader
  <2>3. get'[g].pc = "failed"
    BY <1>2, <2>1 DEF Reader
  <2> QED
    BY <1>3, <2>2, <2>3
<1>7. CASE ReadNonce(g)
  <2>1. GoodFile(cells) /\ r.pc = "nonce" /\ r.body = << >>
    BY <1>2, <1>4, <1>7 DEF ReadNonce, GoodReader
  <2>2. CASE cells = << >> \/ (Len(cells) = 1 /\ cells[1].short)
    <3>1. get'[g] = [r EXCEPT !.pc = "failed"]
      BY <1>7, <2>2 DEF ReadNonce, TypeOK
    <3>2. get'[g] \in Reader /\ GoodReader(get'[g])
      BY <1>2, <3>1 DEF Reader, GoodReader
    <3> QED
      BY <1>3, <2>1, <3>2
  <2>3. CASE ~(cells = << >> \/ (Len(cells) = 1 /\ cells[1].short))
    <3>1. cells[1] \in Cell
      BY <2>1, <2>3 DEF GoodFile
    <3>2. cells[1].nonce \in Puts \cup {Nobody}
      BY <3>1 DEF Cell
    <3>3. get'[g] = [r EXCEPT !.pc = "chunk", !.at = 2,
                              !.nonce = cells[1].nonce]
      BY <1>7, <2>3 DEF ReadNonce, TypeOK
    <3>4. get'[g] \in Reader
      <4>1. ASSUME NEW n \in Puts \cup {Nobody}
            PROVE  [r EXCEPT !.pc = "chunk", !.at = 2, !.nonce = n] \in Reader
        BY <1>2 DEF Reader
      <4> QED
        BY <3>2, <3>3, <4>1
    <3>5. /\ get'[g].pc = "chunk" /\ get'[g].at = 2
          /\ get'[g].body = << >> /\ get'[g].seen = r.seen
      BY <1>2, <2>1, <3>3 DEF Reader
    <3>6. GoodReader(get'[g])
      BY <1>2, <3>5 DEF GoodReader
    <3> QED
      BY <1>3, <2>1, <3>4, <3>6
  <2> QED
    BY <2>2, <2>3
<1>8. CASE BeginRead(g)
  <2>1. GoodFile(cells) /\ r.pc = "chunk"
    BY <1>4, <1>8 DEF BeginRead
  <2>2. CASE r.at > Len(cells)
    <3>1. get'[g] = [r EXCEPT !.pc = "done"]
      BY <1>8, <2>2 DEF BeginRead, TypeOK
    <3>2. get'[g] \in Reader /\ GoodReader(get'[g])
      BY <1>2, <3>1 DEF Reader, GoodReader
    <3> QED
      BY <1>3, <2>1, <3>2
  <2>3. CASE ~(r.at > Len(cells))
    <3>1. r.at \in 1 .. Len(cells)
      BY <1>2, <2>1, <2>3 DEF Reader, GoodReader, GoodFile
    <3>2. cells[r.at] \in Cell /\ GoodCell(cells[r.at], r.at)
      BY <2>1, <3>1 DEF GoodFile
    <3>3. get'[g] = [r EXCEPT !.pc = "reading", !.seen = cells[r.at]]
      BY <1>8, <2>3 DEF BeginRead, TypeOK
    <3>4. get'[g] \in Reader
      BY <1>2, <3>2, <3>3 DEF Reader
    <3>5. /\ get'[g].seen = cells[r.at] /\ get'[g].pc = "reading"
          /\ get'[g].at = r.at /\ get'[g].body = r.body
          /\ get'[g].nonce = r.nonce
      BY <1>2, <3>3 DEF Reader
    <3>6. GoodReader(get'[g])
      BY <1>2, <2>1, <3>1, <3>2, <3>5 DEF GoodReader
    <3> QED
      BY <1>3, <2>1, <3>4, <3>6
  <2> QED
    BY <2>2, <2>3
<1>9. CASE EndRead(g)
  <2> DEFINE cell == IF /\ r.at <= Len(cells)
                        /\ cells[r.at] = r.seen
                       THEN r.seen ELSE Garbage(r.seen.short)
             sent == Append(r.body, <<cell.data, cell.index>>)
  <2>1. GoodFile(cells) /\ r.pc = "reading"
    BY <1>4, <1>9 DEF EndRead
  <2>2. CASE ~Decrypts(r, cell)
    <3>1. get'[g] = [r EXCEPT !.pc = "failed"]
      BY <1>9, <2>2 DEF EndRead, TypeOK
    <3>2. get'[g] \in Reader /\ GoodReader(get'[g])
      BY <1>2, <3>1 DEF Reader, GoodReader
    <3> QED
      BY <1>3, <2>1, <3>2
  <2>3. CASE Decrypts(r, cell)
    \* The cell the reader decrypts is the one of the upload it reads.
    <3>1. /\ r.nonce \in Puts /\ r.at \in 1 .. LastCell(r.nonce)
          /\ cell = Encrypted(r.nonce, r.at)
      <4>1. cell = r.seen /\ cell.nonce # Nobody
        BY <2>3 DEF Decrypts, Garbage
      <4>2. PICK k \in Nat : GoodCell(r.seen, k)
        BY <1>2 DEF GoodReader
      <4>3. /\ r.nonce \in Puts /\ k \in 1 .. LastCell(r.nonce)
            /\ cell = Encrypted(r.nonce, k)
        BY <2>3, <4>1, <4>2 DEF GoodCell, Decrypts
      <4>4. k = r.at
        BY <2>3, <4>3 DEF Decrypts, Encrypted
      <4> QED
        BY <4>3, <4>4
    <3>2. /\ r.at \in Nat /\ Len(r.body) \in Nat /\ r.at = Len(r.body) + 2
          /\ r.body \in Seq(Chunk) /\ Full[r.nonce] \in Nat
      BY <1>2, <2>1, <3>1, UploadAssumption DEF Reader, GoodReader
    <3>3. /\ sent = Append(r.body, <<r.nonce, r.at>>)
          /\ sent \in Seq(Chunk) /\ Len(sent) = Len(r.body) + 1
      <4>1. cell.data = r.nonce /\ cell.index = r.at
        BY <3>1, EncryptedFields
      <4>2. <<r.nonce, r.at>> \in Chunk
        BY <3>1, <3>2 DEF Chunk
      <4>3. ASSUME NEW c \in Chunk
            PROVE  /\ Append(r.body, c) \in Seq(Chunk)
                   /\ Len(Append(r.body, c)) = Len(r.body) + 1
        BY <3>2
      <4>4. sent = Append(r.body, <<r.nonce, r.at>>)
        BY <4>1
      <4> QED
        BY <4>2, <4>3, <4>4
    <3>4. \A i \in 1 .. Len(sent) : sent[i] = <<r.nonce, i + 1>>
      <4>1. ASSUME NEW i \in 1 .. Len(r.body)
            PROVE  sent[i] = <<r.nonce, i + 1>>
        <5>1. /\ Append(r.body, <<r.nonce, r.at>>)[i] = r.body[i]
              /\ r.body # << >>
          BY <3>2
        <5> QED
          BY <1>2, <3>3, <5>1 DEF GoodReader
      <4>2. sent[Len(r.body) + 1] = <<r.nonce, Len(r.body) + 2>>
        BY <3>2, <3>3
      <4> HIDE DEF sent
      <4>3. ASSUME NEW i \in 1 .. Len(sent)
            PROVE  i \in 1 .. Len(r.body) \/ i = Len(r.body) + 1
        BY <3>2, <3>3
      <4>4. <<r.nonce, Len(r.body) + 2>> = <<r.nonce, Len(r.body) + 1 + 1>>
        BY <3>2
      <4> QED
        BY <4>1, <4>2, <4>3, <4>4
    <3> HIDE DEF sent
    <3>5. Len(sent) <= Full[r.nonce] + 1
      BY <3>1, <3>2, <3>3 DEF LastCell
    <3>6. get'[g] = [r EXCEPT !.body = sent, !.at = r.at + 1,
                              !.pc = IF cell.short THEN "done" ELSE "chunk"]
      BY <1>9, <2>3 DEF EndRead, TypeOK, sent
    <3> HIDE DEF cell
    <3>7. get'[g] \in Reader
      <4>1. ASSUME NEW pc \in {"done", "chunk"}, NEW s \in Seq(Chunk),
                   NEW n \in Nat
            PROVE  [r EXCEPT !.body = s, !.at = n, !.pc = pc] \in Reader
        BY <1>2 DEF Reader
      <4>2. r.at + 1 \in Nat
        BY <3>2
      <4> DEFINE after == IF cell.short THEN "done" ELSE "chunk"
      <4>3. after \in {"done", "chunk"}
        OBVIOUS
      <4> HIDE DEF after
      <4>4. [r EXCEPT !.body = sent, !.at = r.at + 1, !.pc = after] \in Reader
        BY <3>3, <4>1, <4>2, <4>3
      <4> QED
        BY <3>6, <4>4 DEF after
    <3>8. /\ get'[g].body = sent /\ get'[g].at = r.at + 1
          /\ get'[g].nonce = r.nonce /\ get'[g].seen = r.seen
          /\ get'[g].pc \in {"done", "chunk"}
      BY <1>2, <3>6 DEF Reader
    <3>9. GoodReader(get'[g])
      <4>1. \E k \in Nat : GoodCell(get'[g].seen, k)
        BY <1>2, <3>8 DEF GoodReader
      <4>2. get'[g].at = Len(get'[g].body) + 2
        BY <3>2, <3>3, <3>8
      <4> QED
        BY <3>1, <3>4, <3>5, <3>8, <4>1, <4>2 DEF GoodReader
    <3> QED
      BY <1>3, <2>1, <3>7, <3>9
  <2> QED
    BY <2>2, <2>3
<1> QED
  BY <1>5, <1>6, <1>7, <1>8, <1>9 DEF Download

----------------------------------------------------------------------------
LEMMA Inductive == Spec => []IInv
<1>1. IInv /\ [Next]_vars => IInv'
  <2> SUFFICES ASSUME IInv, [Next]_vars PROVE IInv'
    OBVIOUS
  <2>1. CASE Next
    BY <2>1, UploadKeepsInv, DownloadKeepsInv DEF Next
  <2>2. CASE UNCHANGED vars
    BY <2>2 DEF vars, IInv, TypeOK, FileOK, GoodFile, PutsOK, ReadersOK, Busy
  <2> QED
    BY <2>1, <2>2
<1> QED
  BY InitInv, <1>1, PTL DEF Spec

\* Type correctness of the uploads and downloads of one file.
THEOREM UploadTypeCorrect == Spec => []TypeOK
<1>1. IInv => TypeOK
  BY DEF IInv
<1> QED
  BY Inductive, <1>1, PTL

\* Whatever uploads truncate and rewrite the file under a download, and
\* however they interleave, what handle_send_file has sent is the beginning of
\* one upload's plaintext: no mixture of two, no chunk out of place.
THEOREM DownloadIsOneUpload == Spec => []BodyIsOneUpload
<1>1. IInv => BodyIsOneUpload
  <2> SUFFICES ASSUME IInv, NEW g \in Gets, get[g].body # << >>
               PROVE  \E p \in Puts : IsPrefix(get[g].body, PlainChunks(p))
    BY DEF BodyIsOneUpload
  <2> DEFINE b == get[g].body
             p == get[g].nonce
  <2>1. /\ p \in Puts /\ b \in Seq(Chunk)
        /\ Len(b) \in Nat /\ Len(b) <= Full[p] + 1 /\ Full[p] \in Nat
        /\ \A i \in 1 .. Len(b) : b[i] = <<p, i + 1>>
    <3>1. get[g] \in Reader /\ GoodReader(get[g])
      BY DEF IInv, TypeOK, ReadersOK
    <3> QED
      BY <3>1, UploadAssumption DEF Reader, GoodReader
  <2> HIDE DEF b, p
  <2>2. /\ PlainChunks(p) \in Seq(Chunk)
        /\ Len(PlainChunks(p)) = Full[p] + 1
        /\ \A i \in 1 .. Len(b) : PlainChunks(p)[i] = <<p, i + 1>>
    <3>1. \A i \in 1 .. Full[p] + 1 : <<p, i + 1>> \in Chunk
      BY <2>1 DEF Chunk
    <3> DEFINE t == [i \in 1 .. Full[p] + 1 |-> <<p, i + 1>>]
    <3>2. t \in Seq(Chunk) /\ Len(t) = Full[p] + 1
      <4>1. Full[p] + 1 \in Nat /\ t \in [1 .. Full[p] + 1 -> Chunk]
        BY <2>1, <3>1
      <4> HIDE DEF t
      <4>2. \A n \in Nat : \A f \in [1 .. n -> Chunk] :
               f \in Seq(Chunk) /\ Len(f) = n
        OBVIOUS
      <4> QED
        BY <4>1, <4>2
    <3>3. \A i \in 1 .. Len(b) : t[i] = <<p, i + 1>>
      BY <2>1
    <3> QED
      BY <3>2, <3>3 DEF PlainChunks
  <2>3. SubSeq(b, 1, Len(b)) = SubSeq(PlainChunks(p), 1, Len(b))
    <3> DEFINE t == PlainChunks(p)
    <3>0. t \in Seq(Chunk) /\ Len(t) \in Nat /\ Len(b) <= Len(t)
      BY <2>1, <2>2
    <3>1. \A i \in 1 .. Len(b) : b[i] = t[i]
      BY <2>1, <2>2
    <3> HIDE DEF t
    <3>2. SubSeq(b, 1, Len(b)) = [i \in 1 .. Len(b) |-> b[i]]
      BY <2>1, <3>0
    <3>3. SubSeq(t, 1, Len(b)) = [i \in 1 .. Len(b) |-> t[i]]
      BY <2>1, <3>0
    <3>4. SubSeq(b, 1, Len(b)) = SubSeq(t, 1, Len(b))
      BY <2>1, <3>1, <3>2, <3>3
    <3> QED
      BY <3>4 DEF t
  <2> QED
    BY <2>1, <2>2, <2>3 DEF IsPrefix, b, p
<1> QED
  BY Inductive, <1>1, PTL
----------------------------------------------------------------------------
\* The first n cells of a file are the ones upload p wrote.
FirstCells(file, p, n) ==
    /\ file \in Seq(Cell)
    /\ \A k \in 1 .. n : file[k] = Encrypted(p, k)

\* What a write that is under way leaves.
TornCell == Garbage(TRUE)

\* An upload that nothing overlaps finds and leaves its own cells only.
AloneOK ==
    \A p \in Puts : alone = p /\ p \in Busy =>
       /\ Busy = {p}
       /\ FirstCells(cells, p, put[p].at - 1)
       /\ put[p].pc = "writing" => Len(cells) = put[p].at - 1
       /\ put[p].pc = "torn" => /\ Len(cells) = put[p].at
                                /\ cells[put[p].at] = TornCell

\* A settled file is complete, and nobody is writing to it.
SettledOK ==
    settled # Nobody => /\ Busy = {}
                        /\ FirstCells(cells, settled, LastCell(settled))
                        /\ Len(cells) = LastCell(settled)

\* A download of upload p that nothing disturbs reads p's cells one by one.
OnTrack(r, p) ==
    /\ r.pc \in {"nonce", "chunk", "reading", "done"}
    /\ r.announced = PlainLength(p)
    /\ r.pc # "nonce" => r.nonce = p
    /\ r.pc \in {"chunk", "reading"} => r.at \in 2 .. LastCell(p)
    /\ r.pc = "reading" => r.seen = Encrypted(p, r.at)
    /\ r.pc = "done" => Len(r.body) = Full[p] + 1

CleanOK == \A g \in Gets : get[g].clean # Nobody =>
              settled = get[g].clean /\ OnTrack(get[g], settled)

\* An upload begins with its nonce.
FreshOK == \A p \in Puts : put[p].pc = "idle" => put[p].at = 1

CleanInv == FreshOK /\ AloneOK /\ SettledOK /\ CleanOK

\* An upload that is alone writes its cells one after the other: writing at
\* the end of the file, or over the torn cell there, leaves those before.
LEMMA WrittenNext ==
    ASSUME NEW p \in Puts, NEW k \in 1 .. LastCell(p), NEW file \in Seq(Cell),
           \A i \in 1 .. k - 1 : file[i] = Encrypted(p, i),
           Len(file) = k - 1 \/ (Len(file) = k /\ file[k] = TornCell),
           NEW new \in Cell
    PROVE  /\ Len(Written(file, k, new)) = k
           /\ \A i \in 1 .. k - 1 : Written(file, k, new)[i] = Encrypted(p, i)
           /\ Written(file, k, new)[k] = new
<1>1. k \in Nat \ {0} /\ LastCell(p) \in Nat /\ k <= LastCell(p)
      /\ (Len(file) = k - 1 \/ Len(file) = k)
  BY UploadAssumption DEF LastCell
<1> DEFINE length == IF k > Len(file) THEN k ELSE Len(file)
           over == k < length \/ (k = Len(file) /\ ~file[k].short)
           cell(i) == IF i = k
                        THEN (IF new.short /\ over THEN Garbage(FALSE) ELSE new)
                        ELSE IF i <= Len(file) /\ (file[i].short => i = length)
                               THEN file[i]
                               ELSE Garbage(FALSE)
<1>2. length = k /\ ~over
  <2>1. TornCell.short = TRUE
    BY DEF TornCell, Garbage
  <2>2. Len(file) = k => file[k].short = TRUE
    BY <1>1, <2>1
  <2> QED
    BY <1>1, <2>2
<1>3. cell(k) = new
  BY <1>2
<1>4. ASSUME NEW i \in 1 .. k - 1
      PROVE  cell(i) = Encrypted(p, i)
  <2>1. file[i] = Encrypted(p, i) /\ i # LastCell(p) /\ i # k
        /\ i <= Len(file)
    BY <1>1
  <2>2. ~file[i].short
    BY <2>1, EncryptedFields
  <2> QED
    BY <2>1, <2>2
<1>5. Written(file, k, new) = [i \in 1 .. length |-> cell(i)]
  BY DEF Written
<1> HIDE DEF cell, length, over
<1>6. Written(file, k, new) = [i \in 1 .. k |-> cell(i)]
  BY <1>2, <1>5
<1>7. /\ Len(Written(file, k, new)) = k
      /\ \A i \in 1 .. k : Written(file, k, new)[i] = cell(i)
  BY <1>1, <1>6
<1> QED
  BY <1>1, <1>3, <1>4, <1>7

LEMMA UploadKeepsClean ==
    ASSUME NEW p \in Puts, IInv, CleanInv, Upload(p)
    PROVE  CleanInv'
<1>1. /\ put \in [Puts -> [pc : {"idle", "writing", "torn", "acked", "failed"},
                           at : Nat]]
      /\ LastCell(p) \in Nat \ {0, 1} /\ put[p].at \in Nat \ {0}
      /\ Nobody \notin Puts /\ alone \in Puts \cup {Nobody}
      /\ settled \in Puts \cup {Nobody}
  <2>1. \A q \in Puts : LastCell(q) \in Nat \ {0, 1}
    BY UploadAssumption DEF LastCell
  <2>2. Nobody \notin Puts
    BY UploadAssumption
  <2>3. put[p].at \in 1 .. LastCell(p) + 1
    BY DEF IInv, TypeOK
  <2> QED
    BY <2>1, <2>2, <2>3 DEF IInv, TypeOK
<1>2. p \in Busy => /\ cells \in Seq(Cell) /\ settled = Nobody
                    /\ \A g \in Gets : get[g].clean = Nobody
                    /\ put[p].at \in 1 .. LastCell(p)
  BY <1>1 DEF IInv, FileOK, GoodFile, PutsOK, CleanInv, SettledOK, CleanOK, Busy
<1>3. ASSUME NEW q \in Puts, alone = q, q \in Busy, p \in Busy
      PROVE  q = p /\ Busy = {p}
  BY <1>3 DEF CleanInv, AloneOK
<1>4. CASE Create(p)
  <2>1. settled' = Nobody /\ \A g \in Gets : get'[g].clean = Nobody
    <3>1. \A g \in Gets : get[g] \in Reader
      BY DEF IInv, TypeOK
    <3> QED
      BY <1>4, <3>1 DEF Create, Reader
  <2>2. put' = [put EXCEPT ![p].pc = "writing"] /\ put[p].at = 1
    BY <1>4 DEF Create, CleanInv, FreshOK
  <2>3. FreshOK'
    BY <1>1, <2>2 DEF CleanInv, FreshOK
  <2>4. ASSUME NEW q \in Puts, alone' = q
        PROVE  q = p /\ Busy' = {p}
    BY <1>1, <1>4, <2>2, <2>4 DEF Create, Busy
  <2>5. /\ Len(cells') = 0 /\ cells' \in Seq(Cell)
        /\ put'[p].pc = "writing" /\ put'[p].at = 1
    BY <1>1, <1>4, <2>2 DEF Create
  <2>6. AloneOK'
    <3>1. FirstCells(cells', p, put'[p].at - 1)
      BY <2>5 DEF FirstCells
    <3>2. put'[p].pc # "torn" /\ Len(cells') = put'[p].at - 1
      BY <2>5
    <3> QED
      BY <2>4, <3>1, <3>2 DEF AloneOK
  <2> QED
    BY <2>1, <2>3, <2>6 DEF CleanInv, SettledOK, CleanOK
<1>5. CASE CreateFails(p) \/ Abort(p) \/ WriteFails(p)
  <2>1. /\ put' = [put EXCEPT ![p].pc = "failed"]
        /\ UNCHANGED <<cells, get, alone, settled>>
    BY <1>5 DEF CreateFails, Abort, WriteFails
  <2>2. FreshOK' /\ Busy' = Busy \ {p}
        /\ \A q \in Puts \ {p} : put'[q] = put[q]
    BY <1>1, <2>1 DEF CleanInv, FreshOK, Busy
  <2>3. AloneOK'
    <3> SUFFICES ASSUME NEW q \in Puts, alone = q, q \in Busy \ {p}
                 PROVE  /\ Busy' = {q}
                        /\ FirstCells(cells, q, put[q].at - 1)
                        /\ put[q].pc = "writing" => Len(cells) = put[q].at - 1
                        /\ put[q].pc = "torn" =>
                              /\ Len(cells) = put[q].at
                              /\ cells[put[q].at] = TornCell
      BY <2>1, <2>2 DEF AloneOK, FirstCells
    <3> QED
      BY <2>2 DEF CleanInv, AloneOK
  <2>4. SettledOK'
    BY <2>1, <2>2 DEF CleanInv, SettledOK, FirstCells
  <2> QED
    BY <2>1, <2>2, <2>3, <2>4 DEF CleanInv, CleanOK
<1>6. CASE BeginWrite(p)
  <2> DEFINE k == put[p].at
  <2>1. /\ put' = [put EXCEPT ![p].pc = "torn"] /\ put[p].pc = "writing"
        /\ cells' = Written(cells, k, TornCell)
        /\ UNCHANGED <<get, alone, settled>>
    BY <1>6 DEF BeginWrite, TornCell
  <2>2. p \in Busy /\ Busy' = Busy /\ FreshOK'
        /\ put'[p].pc = "torn" /\ put'[p].at = k
    BY <1>1, <2>1 DEF Busy, CleanInv, FreshOK
  <2>3. ASSUME alone = p
        PROVE  /\ Busy = {p} /\ FirstCells(cells', p, k - 1) /\ Len(cells') = k
               /\ cells'[k] = TornCell
    <3>1. Busy = {p} /\ FirstCells(cells, p, k - 1) /\ Len(cells) = k - 1
      BY <2>1, <2>2, <2>3 DEF CleanInv, AloneOK
    <3>2. TornCell \in Cell /\ GoodCell(TornCell, k)
      BY CellFacts DEF TornCell
    <3>3. /\ Len(cells') = k /\ cells'[k] = TornCell
          /\ \A i \in 1 .. k - 1 : cells'[i] = Encrypted(p, i)
      <4>1. /\ k \in 1 .. LastCell(p) /\ cells \in Seq(Cell)
            /\ \A i \in 1 .. k - 1 : cells[i] = Encrypted(p, i)
            /\ Len(cells) = k - 1
        BY <1>2, <2>2, <3>1 DEF FirstCells
      <4> HIDE DEF k
      <4>2. ASSUME NEW new \in Cell
            PROVE  /\ Len(Written(cells, k, new)) = k
                   /\ \A i \in 1 .. k - 1 :
                         Written(cells, k, new)[i] = Encrypted(p, i)
                   /\ Written(cells, k, new)[k] = new
        BY <4>1, WrittenNext
      <4> QED
        BY <2>1, <3>2, <4>2
    <3>4. GoodFile(cells')
      BY <1>1, <1>2, <2>1, <2>2, <3>2, WrittenGood DEF IInv, FileOK, Busy
    <3> QED
      BY <3>1, <3>3, <3>4 DEF FirstCells, GoodFile
  <2>4. AloneOK'
    BY <1>3, <2>1, <2>2, <2>3 DEF AloneOK
  <2> QED
    BY <1>2, <2>1, <2>2, <2>4 DEF CleanInv, SettledOK, CleanOK
<1>7. CASE EndWrite(p)
  <2> DEFINE k == put[p].at
             last == k = LastCell(p)
  <2>1. /\ put' = [put EXCEPT ![p] = [pc |-> IF last THEN "acked"
                                                     ELSE "writing",
                                      at |-> k + 1]]
        /\ put[p].pc = "torn"
        /\ cells' = Written(cells, k, Encrypted(p, k))
        /\ settled' = IF last /\ alone = p THEN p ELSE settled
        /\ UNCHANGED <<get, alone>>
    BY <1>7 DEF EndWrite
  <2>2. /\ p \in Busy /\ Busy' = (IF last THEN Busy \ {p} ELSE Busy)
        /\ FreshOK'
        /\ put'[p].at = k + 1
        /\ put'[p].pc = (IF last THEN "acked" ELSE "writing")
    BY <1>1, <2>1 DEF Busy, CleanInv, FreshOK
  <2>3. ASSUME alone = p
        PROVE  Busy = {p} /\ FirstCells(cells', p, k) /\ Len(cells') = k
    <3>1. /\ Busy = {p} /\ FirstCells(cells, p, k - 1) /\ Len(cells) = k
          /\ cells[k] = TornCell
      BY <2>1, <2>2, <2>3 DEF CleanInv, AloneOK
    <3>2. Encrypted(p, k) \in Cell /\ GoodCell(Encrypted(p, k), k)
      BY <1>2, <2>2, CellFacts
    <3>3. /\ Len(cells') = k /\ cells'[k] = Encrypted(p, k)
          /\ \A i \in 1 .. k - 1 : cells'[i] = Encrypted(p, i)
      <4>1. /\ k \in 1 .. LastCell(p) /\ cells \in Seq(Cell)
            /\ \A i \in 1 .. k - 1 : cells[i] = Encrypted(p, i)
            /\ Len(cells) = k
        BY <1>2, <2>2, <3>1 DEF FirstCells
      <4> HIDE DEF k
      <4>2. ASSUME NEW new \in Cell
            PROVE  /\ Len(Written(cells, k, new)) = k
                   /\ \A i \in 1 .. k - 1 :
                         Written(cells, k, new)[i] = Encrypted(p, i)
                   /\ Written(cells, k, new)[k] = new
        BY <3>1, <4>1, WrittenNext
      <4> QED
        BY <2>1, <3>2, <4>2
    <3>4. GoodFile(cells')
      BY <1>1, <1>2, <2>1, <2>2, <3>2, WrittenGood DEF IInv, FileOK, Busy
    <3> QED
      BY <1>1, <3>1, <3>3, <3>4 DEF FirstCells, GoodFile
  <2>4. AloneOK'
    <3> SUFFICES ASSUME NEW q \in Puts, alone = q, q \in Busy'
                 PROVE  /\ Busy' = {q}
                        /\ FirstCells(cells', q, put'[q].at - 1)
                        /\ put'[q].pc = "writing" =>
                              Len(cells') = put'[q].at - 1
                        /\ put'[q].pc = "torn" =>
                              /\ Len(cells') = put'[q].at
                              /\ cells'[put'[q].at] = TornCell
      BY <2>1 DEF AloneOK
    <3>1. q = p /\ Busy = {p} /\ ~last
      BY <1>3, <2>2
    <3> QED
      <4>1. /\ put'[q].at - 1 = k /\ put'[q].pc = "writing"
            /\ Busy' = {q} /\ Len(cells') = k
        BY <1>1, <2>2, <2>3, <3>1
      <4>2. FirstCells(cells', q, k)
        BY <2>3, <3>1
      <4> HIDE DEF k
      <4> QED
        BY <4>1, <4>2
  <2>5. SettledOK'
    <3>1. CASE last /\ alone = p
      BY <2>1, <2>2, <2>3, <3>1 DEF SettledOK
    <3>2. CASE ~(last /\ alone = p)
      BY <1>2, <2>1, <2>2, <3>2 DEF SettledOK
    <3> QED
      BY <3>1, <3>2
  <2>6. CleanOK'
    BY <1>2, <2>1, <2>2 DEF CleanOK
  <2> QED
    BY <2>2, <2>4, <2>5, <2>6 DEF CleanInv
<1> QED
  BY <1>4, <1>5, <1>6, <1>7 DEF Upload

----------------------------------------------------------------------------
\* A settled file has the length of its upload's plaintext.
LEMMA SettledLength ==
    ASSUME IInv, CleanInv, settled # Nobody
    PROVE  /\ settled \in Puts /\ GoodFile(cells)
           /\ \A k \in 1 .. LastCell(settled) : cells[k] = Encrypted(settled, k)
           /\ Len(cells) = LastCell(settled)
           /\ LastCell(settled) \in Nat \ {0, 1}
           /\ Sizes(cells) = {PlainLength(settled)}
           /\ PlainLength(settled) \in Nat
<1>1. /\ settled \in Puts /\ Full[settled] \in Nat /\ PlainChunk \in Nat
      /\ Rest[settled] \in Nat /\ LastCell(settled) = Full[settled] + 2
      /\ Nobody \notin Puts
  BY UploadAssumption DEF IInv, TypeOK, LastCell
<1>2. /\ cells \in Seq(Cell) /\ Len(cells) = LastCell(settled)
      /\ \A k \in 1 .. LastCell(settled) : cells[k] = Encrypted(settled, k)
  BY DEF CleanInv, SettledOK, FirstCells
<1>3. GoodFile(cells)
  BY <1>1, <1>2, CellFacts DEF GoodFile
<1> DEFINE n == Len(cells)
<1>4. /\ n = Full[settled] + 2 /\ n # 0 /\ n # 1 /\ n - 2 = Full[settled]
      /\ cells[n] = Encrypted(settled, n) /\ n = LastCell(settled)
  BY <1>1, <1>2
<1>5. /\ cells[n].short /\ cells[n].nonce # Nobody
      /\ cells[n].data = settled
  BY <1>1, <1>4, EncryptedFields
<1>6. Sizes(cells) = {(n - 2) * PlainChunk + Rest[settled]}
  BY <1>4, <1>5 DEF Sizes
<1>7. Full[settled] * PlainChunk \in Nat
  <2>1. \A a, b \in Nat : a * b \in Nat
    OBVIOUS
  <2> QED
    BY <1>1, <2>1
<1>8. PlainLength(settled) \in Nat
  <2>1. \A a, b \in Nat : a + b \in Nat
    OBVIOUS
  <2> QED
    BY <1>1, <1>7, <2>1 DEF PlainLength
<1> QED
  BY <1>1, <1>2, <1>3, <1>4, <1>6, <1>8 DEF PlainLength

LEMMA DownloadKeepsClean ==
    ASSUME NEW g \in Gets, IInv, CleanInv, Download(g)
    PROVE  CleanInv'
<1> DEFINE r == get[g]
           p == r.clean
<1>1. /\ UNCHANGED <<cells, put, alone, settled>>
      /\ \A h \in Gets \ {g} : get'[h] = get[h]
  BY DownloadFrame DEF IInv, TypeOK
<1>2. r \in Reader /\ GoodReader(r) /\ get \in [Gets -> Reader]
  BY DEF IInv, TypeOK, ReadersOK
<1>3. ASSUME get'[g].clean # Nobody =>
               settled = get'[g].clean /\ OnTrack(get'[g], settled)
      PROVE  CleanInv'
  <2>1. CleanOK'
    BY <1>1, <1>3 DEF CleanInv, CleanOK, OnTrack
  <2> QED
    BY <1>1, <2>1 DEF CleanInv, FreshOK, AloneOK, SettledOK, FirstCells, Busy
<1>4. p # Nobody => p = settled /\ OnTrack(r, p)
  BY DEF CleanInv, CleanOK
<1>5. r.pc = "idle" => p = Nobody
  BY <1>4 DEF OnTrack
<1>6. CASE Stat(g)
  <2>1. PICK size \in Sizes(cells), panics \in BOOLEAN :
          get'[g] = [r EXCEPT !.announced = size, !.clean = settled,
                              !.pc = IF size < 0 /\ panics THEN "panicked"
                                                           ELSE "nonce"]
    BY <1>2, <1>6 DEF Stat
  <2>2. get'[g].clean = settled /\ get'[g].announced = size
        /\ (~(size < 0) => get'[g].pc = "nonce")
    BY <1>2, <2>1 DEF Reader
  <2>3. settled # Nobody => OnTrack(get'[g], settled)
    BY <2>2, SettledLength DEF OnTrack
  <2> QED
    BY <1>3, <2>2, <2>3
<1>7. CASE StatMissing(g)
  <2>1. get'[g].clean = Nobody
    BY <1>2, <1>5, <1>7 DEF StatMissing, Reader
  <2> QED
    BY <1>3, <2>1
<1>8. CASE r.pc # "idle" /\ p = Nobody
  <2>1. get'[g].clean = Nobody
    BY <1>2, <1>8, DownloadFrame
  <2> QED
    BY <1>3, <2>1
<1>9. CASE r.pc # "idle" /\ p # Nobody
  <2>1. /\ p = settled /\ OnTrack(r, p) /\ p \in Puts /\ GoodFile(cells)
        /\ \A k \in 1 .. LastCell(p) : cells[k] = Encrypted(p, k)
        /\ Len(cells) = LastCell(p) /\ LastCell(p) \in Nat \ {0, 1}
        /\ LastCell(p) = Full[p] + 2 /\ Full[p] \in Nat /\ Nobody \notin Puts
    BY <1>4, <1>9, SettledLength, UploadAssumption DEF LastCell
  <2> HIDE DEF p
  <2>2. CASE ReadNonce(g)
    <3>1. cells # << >> /\ Len(cells) # 1 /\ cells[1].nonce = p
      BY <2>1, EncryptedFields
    <3>2. get'[g] = [r EXCEPT !.pc = "chunk", !.at = 2,
                              !.nonce = cells[1].nonce]
      BY <1>2, <2>2, <3>1 DEF ReadNonce
    <3>3. /\ get'[g].pc = "chunk" /\ get'[g].at = 2 /\ get'[g].nonce = p
          /\ get'[g].clean = p /\ get'[g].announced = r.announced
      BY <1>2, <3>1, <3>2 DEF Reader, p
    <3> QED
      BY <1>3, <2>1, <3>3 DEF OnTrack
  <2>3. CASE BeginRead(g)
    <3>1. r.pc = "chunk" /\ r.at \in 2 .. LastCell(p) /\ r.nonce = p
          /\ ~(r.at > Len(cells)) /\ cells[r.at] = Encrypted(p, r.at)
      BY <2>1, <2>3 DEF BeginRead, OnTrack
    <3>2. get'[g] = [r EXCEPT !.pc = "reading", !.seen = cells[r.at]]
      BY <1>2, <2>3, <3>1 DEF BeginRead
    <3>3. /\ get'[g].pc = "reading" /\ get'[g].at = r.at
          /\ get'[g].nonce = r.nonce /\ get'[g].seen = cells[r.at]
          /\ get'[g].clean = p /\ get'[g].announced = r.announced
      BY <1>2, <3>2 DEF Reader, p
    <3> QED
      BY <1>3, <2>1, <3>1, <3>3 DEF OnTrack
  <2>4. CASE EndRead(g)
    <3>1. /\ r.pc = "reading" /\ r.at \in 2 .. LastCell(p) /\ r.nonce = p
          /\ r.seen = Encrypted(p, r.at)
          /\ r.at <= Len(cells) /\ cells[r.at] = r.seen
      BY <2>1, <2>4 DEF EndRead, OnTrack
    <3>2. Decrypts(r, r.seen)
      BY <2>1, <3>1, EncryptedFields DEF Decrypts
    <3> DEFINE sent == Append(r.body, <<r.seen.data, r.seen.index>>)
    <3>3. get'[g] = [r EXCEPT !.body = sent, !.at = r.at + 1,
                              !.pc = IF r.seen.short THEN "done" ELSE "chunk"]
      BY <1>2, <2>4, <3>1, <3>2 DEF EndRead
    <3>4. /\ get'[g].body = sent /\ get'[g].at = r.at + 1
          /\ get'[g].nonce = p /\ get'[g].clean = p
          /\ get'[g].announced = r.announced
          /\ get'[g].pc = IF r.seen.short THEN "done" ELSE "chunk"
      BY <1>2, <3>1, <3>3 DEF Reader, p
    <3>5. r.seen.short <=> r.at = LastCell(p)
      BY <2>1, <3>1, EncryptedFields
    <3>6. Len(sent) = Len(r.body) + 1 /\ r.at = Len(r.body) + 2
          /\ Len(r.body) \in Nat
      BY <1>2, <3>1 DEF GoodReader, Reader
    <3> HIDE DEF sent
    <3>7. CASE r.seen.short
      <4>1. get'[g].pc = "done" /\ Len(get'[g].body) = Full[p] + 1
        BY <2>1, <3>4, <3>5, <3>6, <3>7
      <4> QED
        BY <1>3, <2>1, <3>4, <4>1 DEF OnTrack
    <3>8. CASE ~r.seen.short
      <4>1. get'[g].pc = "chunk" /\ get'[g].at \in 2 .. LastCell(p)
        BY <2>1, <3>1, <3>4, <3>5, <3>8
      <4> QED
        BY <1>3, <2>1, <3>4, <4>1 DEF OnTrack
    <3> QED
      BY <3>7, <3>8
  <2> QED
    BY <1>2, <1>9, <2>2, <2>3, <2>4, DownloadFrame
<1> QED
  BY <1>2, <1>6, <1>7, <1>8, <1>9, DownloadFrame

\* A download of an acknowledged upload that nothing overlapped, and that no
\* upload disturbs, announces the length of the body of the PUT, delivers all
\* of it and does not fail: for every length, whether or not it is a multiple
\* of the chunk, and for any number of uploads and downloads around it.
THEOREM UndisturbedReadsBack == Spec => []AckedReadsBack
<1>1. Init => CleanInv
  <2> SUFFICES ASSUME Init PROVE CleanInv
    OBVIOUS
  <2>1. FreshOK /\ AloneOK /\ SettledOK
    BY DEF Init, FreshOK, AloneOK, SettledOK, Busy
  <2>2. CleanOK
    BY DEF Init, CleanOK
  <2> QED
    BY <2>1, <2>2 DEF CleanInv
<1>2. IInv /\ CleanInv /\ [Next]_vars => CleanInv'
  <2> SUFFICES ASSUME IInv, CleanInv, [Next]_vars PROVE CleanInv'
    OBVIOUS
  <2>1. CASE Next
    BY <2>1, UploadKeepsClean, DownloadKeepsClean DEF Next
  <2>2. CASE UNCHANGED vars
    BY <2>2 DEF vars, CleanInv, FreshOK, AloneOK, SettledOK, CleanOK, FirstCells,
                Busy, OnTrack
  <2> QED
    BY <2>1, <2>2
<1>3. IInv /\ CleanInv => AckedReadsBack
  <2> SUFFICES ASSUME IInv, CleanInv, NEW g \in Gets, get[g].clean # Nobody
               PROVE  LET p == get[g].clean IN
                      /\ get[g].pc \notin {"failed", "panicked"}
                      /\ get[g].pc \notin {"idle"} =>
                            get[g].announced = PlainLength(p)
                      /\ get[g].pc = "done" => get[g].body = PlainChunks(p)
    BY DEF AckedReadsBack
  <2> DEFINE p == get[g].clean
             b == get[g].body
  <2>1. OnTrack(get[g], p) /\ p \in Puts /\ Full[p] \in Nat
    BY UploadAssumption DEF CleanInv, CleanOK, IInv, TypeOK
  <2>2. ASSUME get[g].pc = "done" PROVE b = PlainChunks(p)
    <3>1. /\ b \in Seq(Chunk) /\ Len(b) = Full[p] + 1 /\ get[g].nonce = p
          /\ GoodReader(get[g])
      BY <2>1, <2>2 DEF OnTrack, IInv, TypeOK, ReadersOK, Reader
    <3>2. \A i \in 1 .. Full[p] + 1 : b[i] = <<p, i + 1>>
      BY <2>1, <3>1 DEF GoodReader
    <3> HIDE DEF b, p
    <3>3. b = [i \in 1 .. Full[p] + 1 |-> b[i]]
      BY <2>1, <3>1
    <3> QED
      BY <3>2, <3>3 DEF PlainChunks
  <2> QED
    BY <2>1, <2>2 DEF OnTrack
<1> QED
  BY Inductive, <1>1, <1>2, <1>3, PTL DEF Spec
=============================================================================
