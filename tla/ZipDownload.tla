---------------------------- MODULE ZipDownload ----------------------------
(***************************************************************************)
(* GET ?zip of a directory that other requests change meanwhile:           *)
(* handle_zip_dir and zip_dir of src/davs/webdav_server.rs, and into_stream*)
(* of src/davs/streamer.rs.  A task of its own walks the directory and     *)
(* writes into a bounded pipe; the answer, 200, was given before it began, *)
(* and its body is what comes out of the pipe until the task drops its end.*)
(***************************************************************************)
EXTENDS WebdavTree

CONSTANTS
    Capacity,   \* pieces the pipe holds
    Directory,  \* the central directory, which ends a zip
    NoPiece

ASSUME CapacityAssumption == Capacity \in Nat \ {0}

VARIABLE zip    \* per client: the task, the pipe, and what the client received

zipVars == <<vars, zip>>

Entry == [path : Paths, content : Content]
Piece == Entry \cup {Directory}

ASSUME PieceAssumption == Directory \notin Entry /\ NoPiece \notin Piece

NoTask == [task |-> "none", todo |-> {}, out |-> NoPiece, pipe |-> << >>, got |-> << >>]

ZipTypeOK ==
    /\ zip \in [Clients -> [task : {"none", "walk", "closed", "failed"},
                            todo : SUBSET Paths, out : Piece \cup {NoPiece},
                            pipe : Seq(Piece), got : Seq(Piece)]]
    /\ \A c \in Clients : Len(zip[c].pipe) <= Capacity

ZipInit == Init /\ zip = [c \in Clients |-> NoTask]

\* The task was spawned; the client may have left since.
ZipStart(c) ==
    /\ conn[c].req # NoRequest /\ conn[c].req.op = "ZIP"
    /\ conn[c].pc \in {"sending", "away"} /\ zip[c].task = "none"
    /\ zip' = [zip EXCEPT ![c].task = "walk", ![c].todo = {conn[c].req.path}]
    /\ UNCHANGED vars

\* One entry of the walk.  One that cannot be found is left out, but one that
\* vanishes before it is opened, cannot be read or does not decrypt ends the task.
ZipNext(c) ==
    /\ zip[c].task = "walk" /\ zip[c].out = NoPiece
    /\ \E p \in zip[c].todo :
         LET rest == zip[c].todo \ {p} IN
         \/ /\ ~IsFile(tree, p)
            /\ zip' = [zip EXCEPT ![c].todo = rest \cup Children(tree, p)]
         \/ /\ IsFile(tree, p)
            /\ zip' = [zip EXCEPT ![c].todo = rest,
                                  ![c].out = [path |-> p, content |-> tree[p]]]
         \/ zip' = [zip EXCEPT ![c].task = "failed"]
    /\ UNCHANGED vars

\* An I/O error of read_dir or of the metadata: the entry is left out, with what
\* is in it when that could not be read, and the zip does not show it.
ZipSkips(c) ==
    /\ zip[c].task = "walk" /\ zip[c].out = NoPiece
    /\ \E p \in zip[c].todo : \E lost \in {{p}, Under(tree, p)} :
         /\ zip' = [zip EXCEPT ![c].todo = (@ \ {p}) \cup (Children(tree, p) \ lost)]
         /\ Skipped(c, lost)
    /\ UNCHANGED conn

\* Slip: the pipe takes a piece whether or not there is room.
SendUnbounded(c) ==
    /\ zip[c].task = "walk" /\ zip[c].out # NoPiece
    /\ IF conn[c].pc = "away"
       THEN zip' = [zip EXCEPT ![c].task = "failed"]
       ELSE zip' = [zip EXCEPT
                      ![c].pipe = Append(@, zip[c].out), ![c].out = NoPiece,
                      ![c].task = IF zip[c].out = Directory THEN "closed" ELSE "walk"]
    /\ UNCHANGED vars

\* Slip: the task does not learn that its reader left.
SendToNobody(c) ==
    /\ zip[c].task = "walk" /\ zip[c].out # NoPiece
    /\ Len(zip[c].pipe) < Capacity
    /\ zip' = [zip EXCEPT
                 ![c].pipe = Append(@, zip[c].out), ![c].out = NoPiece,
                 ![c].task = IF zip[c].out = Directory THEN "closed" ELSE "walk"]
    /\ UNCHANGED vars

\* The piece goes into the pipe when there is room; no reader, no pipe.
ZipSend(c) ==
    /\ zip[c].task = "walk" /\ zip[c].out # NoPiece
    /\ IF conn[c].pc = "away"
       THEN zip' = [zip EXCEPT ![c].task = "failed"]
       ELSE /\ Len(zip[c].pipe) < Capacity
            /\ zip' = [zip EXCEPT
                         ![c].pipe = Append(@, zip[c].out), ![c].out = NoPiece,
                         ![c].task = IF zip[c].out = Directory THEN "closed" ELSE "walk"]
    /\ UNCHANGED vars

\* Slip: the zip is closed after an error too.
CloseAfterError(c) ==
    /\ zip[c].out = NoPiece
    /\ zip[c].task = "failed" \/ (zip[c].task = "walk" /\ zip[c].todo = {})
    /\ zip' = [zip EXCEPT ![c].out = Directory, ![c].task = "walk", ![c].todo = {}]
    /\ UNCHANGED vars

\* close() after the last entry.
ZipClose(c) ==
    /\ zip[c].task = "walk" /\ zip[c].out = NoPiece /\ zip[c].todo = {}
    /\ zip' = [zip EXCEPT ![c].out = Directory]
    /\ UNCHANGED vars

ClientReads(c) ==
    /\ conn[c].pc = "sending" /\ zip[c].pipe # << >>
    /\ zip' = [zip EXCEPT ![c].pipe = Tail(@), ![c].got = Append(@, Head(zip[c].pipe))]
    /\ UNCHANGED vars

\* read returns 0: the body is over, however the task ended.
BodyEnds(c) ==
    /\ conn[c].pc = "sending" /\ zip[c].pipe = << >>
    /\ zip[c].task \in {"closed", "failed"}
    /\ Reply(c, 200)
    /\ SameTree /\ UNCHANGED zip

ClientLeaves(c) ==
    /\ conn[c].pc = "sending"
    /\ Goto(c, "away")
    /\ zip' = [zip EXCEPT ![c].pipe = << >>]
    /\ SameTree

ZipTask(c) == ZipStart(c) \/ ZipNext(c) \/ ZipSkips(c) \/ ZipSend(c) \/ ZipClose(c)
ZipClient(c) == ClientReads(c) \/ BodyEnds(c) \/ ClientLeaves(c)

ZipRun == \/ Next /\ UNCHANGED zip
          \/ \E c \in Clients : ZipTask(c) \/ ZipClient(c)

ZipSpec == ZipInit /\ [][ZipRun]_zipVars

\* What needs nobody but the server: all but the body of an upload.
Serve(c) == Handle(c) /\ conn[c].pc # "write" /\ UNCHANGED zip

\* The runtime polls every handler and every task; a client of a zip reads it
\* or leaves.  One that uploads may stop for ever, nothing times it out.
ZipFairSpec ==
    /\ ZipSpec
    /\ \A c \in Clients : /\ WF_zipVars(Serve(c))
                          /\ WF_zipVars(ZipTask(c)) /\ WF_zipVars(ZipClient(c))

----------------------------------------------------------------------------
\* A zip that ends in its directory holds every file that nobody touched since
\* the request came and that the walk did not fail to read, once and as it is:
\* others may vanish or change under the walk, and then are left out or end it
\* without the directory.
ZipIsWhole ==
    \A c \in Clients : Contains(zip[c].got, Directory) =>
       \A p \in stayed[c] : (IsFile(tree, p) /\ IsPrefix(conn[c].req.path, p)) =>
          \E i \in 1 .. Len(zip[c].got) :
             /\ zip[c].got[i] = [path |-> p, content |-> tree[p]]
             /\ \A j \in 1 .. Len(zip[c].got) :
                  zip[c].got[j] # Directory /\ zip[c].got[j].path = p => j = i

\* No walk goes on for ever, and no task waits for ever at a full pipe whose
\* reader left.
ZipTaskEnds ==
    \A c \in Clients : conn[c].pc = "sending" ~> zip[c].task \in {"closed", "failed"}

\* Every request is answered or cut, its client leaves or, in an upload, is the
\* one that is waited for: no copy or walk feeds on what is made under it, and no
\* handler waits for another one.
RequestIsAnswered ==
    \A c \in Clients : InFlight(c) ~> conn[c].pc \in Over \cup {"write"}
=============================================================================
