----------------------------- MODULE WebdavTree -----------------------------
(***************************************************************************)
(* The requests that list and change the directory of a WebDAV service:    *)
(* handle of src/davs/webdav_server.rs and the handlers it calls, for      *)
(* clients whose requests interleave at every await.  Nothing locks the    *)
(* directory: each handler decides from what it looked up earlier.         *)
(*                                                                         *)
(* A call may also fail for a reason that is not in the directory: EACCES,  *)
(* EIO, EBUSY, EXDEV, EMFILE, ENOSPC (an I/O error in what follows).       *)
(*                                                                         *)
(* The directory maps the paths that exist to Dir or to the content of a   *)
(* file; a path is the sequence of its names, the service's own directory  *)
(* is << >>.  Symbolic links are left out.                                 *)
(***************************************************************************)
EXTENDS Integers, SequencesExt, TLC

CONSTANTS
    Clients, Names, Bodies,
    MaxDepth,   \* bound: a longer path cannot be made (ENAMETOOLONG)
    Trees,      \* the directories a run starts from
    Requests,   \* per client, the requests it may send; it sends one
    Dir, Partial, Mixed,  \* a directory; a torn file; two uploads in one file
    Bad,        \* a path or Destination that extract_path rejects
    NoFile,     \* no file is open, or the open one is unlinked
    RootName,   \* the name of the service's own directory
    Nobody, NoRequest

VARIABLES
    tree,       \* the directory
    writable,   \* Dav.writable
    conn,       \* per client: its request and the state of its handler
    handle,     \* per client: where the file its upload has open is
    alone,      \* history: the client whose request no other one overlapped,
                \* nor, when it is a COPY, a failed removal or an I/O error
    before,     \* history: the directory when that request came
    stayed      \* history: per client, paths untouched since its request, and
                \* not hit by an I/O error of its own walk

hist == <<alone, before>>
vars == <<tree, writable, conn, handle, hist, stayed>>

Content == Bodies \cup {Partial, Mixed}
Paths == SeqOf(Names, MaxDepth)
Changing == {"PUT", "MKCOL", "DELETE", "COPY", "MOVE"}
Looking == {"OPTIONS", "PROPFIND", "PROPPATCH", "LOCK", "UNLOCK", "SEARCH", "ZIP"}
Request == [op : Changing \cup Looking, path : {Bad} \cup Seq(Names),
            dest : {Bad} \cup Seq(Names), overwrite : STRING, depth : STRING,
            body : Bodies \cup {NoFile}, match : SUBSET Names]
Parent(p) == IF p = << >> THEN p ELSE Front(p)
Name(p) == IF p = << >> THEN RootName ELSE Last(p)
Suffix(p, q) == SubSeq(q, Len(p) + 1, Len(q))
Under(t, p) == {q \in DOMAIN t : IsPrefix(p, q)}
Children(t, p) == {q \in DOMAIN t : q # << >> /\ Front(q) = p}
IsDir(t, p) == p \in DOMAIN t /\ t[p] = Dir
IsFile(t, p) == p \in DOMAIN t /\ t[p] # Dir
ParentIsDir(t, p) == p = << >> \/ IsDir(t, Parent(p))
Without(t, S) == Restrict(t, DOMAIN t \ S)
Placed(t, p, x) == [q \in {p} \cup DOMAIN t |-> IF q = p THEN x ELSE t[q]]
\* Slip: a directory is made without a look at what it would be in.
CanMakeAnywhere(t, p) == p \notin DOMAIN t /\ Len(p) <= MaxDepth

\* What create_dir accepts; and fs::copy, or File::create, of a file.
CanMake(t, p) == p \notin DOMAIN t /\ ParentIsDir(t, p) /\ Len(p) <= MaxDepth
CanWrite(t, p) == ~IsDir(t, p) /\ ParentIsDir(t, p) /\ Len(p) <= MaxDepth

\* The directory after what is at p was renamed to q.
Moved(t, p, q) ==
    LET new == {q \o Suffix(p, x) : x \in Under(t, p)}
        kept == DOMAIN t \ (Under(t, p) \cup Under(t, q))
    IN  [r \in new \cup kept |-> IF r \in new THEN t[p \o Suffix(q, r)] ELSE t[r]]

\* A directory is a tree: what is in it is in a directory, up to the root.
IsTree(t) == \A p \in DOMAIN t : p # << >> => IsDir(t, Parent(p))

ASSUME TreeAssumption ==
    /\ MaxDepth \in Nat
    /\ \A t \in Trees : /\ DOMAIN t \subseteq Paths /\ t \in [DOMAIN t -> Content \cup {Dir}]
                        /\ IsTree(t)
ASSUME RequestAssumption ==
    /\ \A c \in Clients : \A r \in Requests[c] :
          r \in Request /\ (r.op = "PUT" => r.body \in Bodies)
    /\ RootName \in Names
ASSUME ValueAssumption ==
    /\ Dir \notin Content /\ Partial # Mixed /\ {Partial, Mixed} \cap Bodies = {}
    /\ {Bad, NoFile} \cap (Seq(Names) \cup Content) = {}
    /\ Nobody \notin Clients
    /\ \A c \in Clients : NoRequest \notin Requests[c]

Waiting == {"parent", "parents", "create", "write", "unlink", "mkcol", "decide",
            "rename", "copy", "self", "list", "sending"}
Removing == {"remove", "orphan"}
Over == {"done", "away", "cut"}
Handler == [pc : {"idle"} \cup Over \cup Waiting \cup Removing,
            req : (UNION {Requests[c] : c \in Clients}) \cup {NoRequest},
            status : Nat, todo : SUBSET Paths, listed : SUBSET Paths,
            exists : BOOLEAN, flag : BOOLEAN]

TypeOK ==
    /\ DOMAIN tree \subseteq Paths /\ tree \in [DOMAIN tree -> Content \cup {Dir}]
    /\ IsTree(tree)
    /\ writable \in BOOLEAN
    /\ conn \in [Clients -> Handler]
    /\ \A c \in Clients : handle[c] = NoFile \/ IsFile(tree, handle[c])
    /\ alone \in Clients \cup {Nobody}
    /\ \A c \in Clients : stayed[c] \subseteq DOMAIN tree

\* exists, flag: those of handle_copymove, dest_is_file for flag; for an upload,
\* whether create_dir_all is on its way down, whether another one had the file open.
Idle == [pc |-> "idle", req |-> NoRequest, status |-> 0, todo |-> {},
         listed |-> {}, exists |-> FALSE, flag |-> FALSE]

Init ==
    /\ tree \in Trees /\ writable \in BOOLEAN
    /\ conn = [c \in Clients |-> Idle]
    /\ handle = [c \in Clients |-> NoFile]
    /\ alone = Nobody /\ before = << >>
    /\ stayed = [c \in Clients |-> {}]

\* The directory becomes new, by a step that keeps the files where they are.
Becomes(new) ==
    /\ tree' = new
    /\ handle' = [c \in Clients |->
                    IF handle[c] \in DOMAIN new THEN handle[c] ELSE NoFile]
    /\ stayed' = [c \in Clients |->
                    {q \in stayed[c] : q \in DOMAIN new /\ new[q] = tree[q]}]
    /\ UNCHANGED writable

SetTree(new) == Becomes(new) /\ UNCHANGED hist

SameTree == UNCHANGED <<tree, writable, handle, hist, stayed>>

Goto(c, pc) == conn' = [conn EXCEPT ![c].pc = pc]
Reply(c, status) ==
    conn' = [conn EXCEPT ![c].pc = IF @ = "orphan" THEN "away" ELSE "done",
                         ![c].status = status]

----------------------------------------------------------------------------
(* A request comes: handle looks the path up and dispatches.               *)

\* Headers that do not decode count as absent.
OverwriteT(r) == r.overwrite # "F"
DepthZero(r) == r.depth = "0"
CopyHeadersOk(r) == r.depth # "1" /\ (DepthZero(r) => r.op = "COPY")

Later == 0

\* What handle answers at once, and handle_copymove before its first await;
\* or Later, when the handler goes on.
Answer(r) ==
    IF r.path = Bad \/ (r.op \in Changing /\ ~writable) THEN 403
    ELSE IF r.op = "OPTIONS" THEN 200
    ELSE IF r.op = "PUT" THEN Later
    ELSE IF r.op = "MKCOL" THEN
        IF r.path \in DOMAIN tree THEN 405
        ELSE IF r.body \in Bodies THEN 415 ELSE Later
    ELSE IF r.path \notin DOMAIN tree THEN 404
    ELSE IF r.op \in {"COPY", "MOVE"} THEN
        IF ~CopyHeadersOk(r) THEN 400 ELSE IF r.dest = Bad THEN 403 ELSE Later
    ELSE IF r.op \in {"LOCK", "PROPPATCH"} THEN
        IF IsDir(tree, r.path) THEN 404 ELSE IF r.op = "LOCK" THEN 200 ELSE 207
    ELSE IF r.op = "UNLOCK" \/ (r.op \in {"SEARCH", "ZIP"} /\ IsFile(tree, r.path))
        THEN 200
    ELSE IF r.op = "PROPFIND" /\ r.depth = "infinity" /\ IsDir(tree, r.path)
        THEN 400
    ELSE Later

FirstStep(r) ==
    CASE r.op = "PUT" -> "parent"
      [] r.op = "MKCOL" -> "mkcol"
      [] r.op = "DELETE" -> IF IsDir(tree, r.path) THEN "remove" ELSE "unlink"
      [] r.op \in {"COPY", "MOVE"} -> "decide"
      [] r.op = "PROPFIND" -> "self"
      [] r.op = "SEARCH" -> "list"
      [] r.op = "ZIP" -> "sending"

InFlight(c) == conn[c].pc \notin {"idle"} \cup Over

Receive(c, r) ==
    LET quiet == \A d \in Clients \ {c} : ~InFlight(d)
        todo == IF r.op = "SEARCH" \/ (r.op = "PROPFIND" /\ IsDir(tree, r.path))
                THEN {r.path} ELSE {}
    IN  /\ conn[c].pc = "idle"
        /\ conn' = [conn EXCEPT ![c] =
                      IF Answer(r) # Later
                      THEN [Idle EXCEPT !.pc = "done", !.req = r, !.status = Answer(r)]
                      ELSE [Idle EXCEPT !.pc = FirstStep(r), !.req = r, !.todo = todo]]
        /\ alone' = IF quiet THEN c ELSE Nobody
        /\ before' = IF quiet THEN tree ELSE << >>
        /\ stayed' = [stayed EXCEPT ![c] = IF r.op \in {"PROPFIND", "SEARCH", "ZIP"}
                                             THEN DOMAIN tree ELSE {}]
        /\ UNCHANGED <<tree, writable, handle>>

\* The connection closes: hyper drops the handler where it waits.  A removal
\* runs on in its own thread.  So does any other call that has begun, which to
\* everybody else is the same as a connection that closes after it.
Disconnect(c) ==
    /\ \/ conn[c].pc \in Waiting \ {"sending"} /\ Goto(c, "away")
       \/ conn[c].pc = "remove" /\ Goto(c, "orphan")
    /\ handle' = [handle EXCEPT ![c] = NoFile]
    /\ UNCHANGED <<tree, writable, hist, stayed>>

----------------------------------------------------------------------------
(* PUT and MKCOL.                                                          *)

Ancestors(p) == {SubSeq(p, 1, n) : n \in 0 .. Len(p) - 1}

\* ensure_path_parent looks for the parent ...
EnsureParent(c) ==
    LET parent == Parent(conn[c].req.path)
    IN  /\ conn[c].pc = "parent"
        /\ IF conn[c].req.path = << >> \/ parent \in DOMAIN tree THEN Goto(c, "create")
           ELSE IF Len(parent) > MaxDepth THEN Reply(c, 500)
           ELSE conn' = [conn EXCEPT ![c].pc = "parents", ![c].todo = {parent}]
        /\ SameTree

\* ... and then makes it with create_dir_all: mkdir of the parent or, as long as
\* what that would be in is missing, of the directories above it and down again.
\* One that another request has made meanwhile is as good.
MakeParents(c) ==
    /\ conn[c].pc = "parents"
    /\ \E p \in conn[c].todo :
         /\ \A q \in conn[c].todo : IsPrefix(p, q)
         /\ \/ /\ CanMake(tree, p) \/ IsDir(tree, p)
               /\ SetTree(Placed(tree, p, Dir))
               /\ conn' = [conn EXCEPT ![c].todo = @ \ {p}, ![c].exists = TRUE,
                    ![c].pc = IF conn[c].todo = {p} THEN "create" ELSE @]
            \/ /\ ~conn[c].exists /\ p # << >> /\ Parent(p) \notin DOMAIN tree
               /\ conn' = [conn EXCEPT ![c].todo = @ \cup {Parent(p)}]
               /\ SameTree
            \/ Reply(c, 500) /\ SameTree

\* File::create truncates what is there, under the other uploads too.
Create(c) ==
    LET p == conn[c].req.path
        sharing == {d \in Clients \ {c} : handle[d] = p}
    IN  /\ conn[c].pc = "create"
        /\ \/ /\ CanWrite(tree, p)
              /\ tree' = Placed(tree, p, Partial)
              /\ handle' = [handle EXCEPT ![c] = p]
              /\ stayed' = [d \in Clients |-> stayed[d] \ {p}]
              /\ conn' = [d \in Clients |->
                            [conn[d] EXCEPT
                               !.pc = IF d = c THEN "write" ELSE @,
                               !.flag = @ \/ d \in sharing
                                          \/ (d = c /\ sharing # {})]]
              /\ UNCHANGED <<writable, hist>>
           \/ Reply(c, 403) /\ SameTree

\* Slip: the file was opened without being truncated.
NeverTruncated(c) == TRUE

\* Another upload or a copy has the file open, or wrote into it.
Torn(c) == conn[c].flag \/ tree[handle[c]] # Partial

\* The whole body is copied.  Over what another upload or a copy wrote into
\* the file, the longer one sticks out, or they mix.
WriteBody(c) ==
    LET p == handle[c]
    IN  /\ conn[c].pc = "write"
        /\ \E content \in {conn[c].req.body, Mixed} :
              /\ content = Mixed => p # NoFile /\ Torn(c)
              /\ LET new == IF p = NoFile THEN tree ELSE [tree EXCEPT ![p] = content]
                 IN  /\ tree' = new
                     /\ stayed' = [d \in Clients |-> stayed[d] \ {p}]
        /\ handle' = [handle EXCEPT ![c] = NoFile]
        /\ Reply(c, 201)
        /\ UNCHANGED <<writable, hist>>

\* The body ends in an error, or the disk is full: what was written stays.
WriteFails(c) ==
    /\ conn[c].pc = "write"
    /\ handle' = [handle EXCEPT ![c] = NoFile]
    /\ Reply(c, 500)
    /\ UNCHANGED <<tree, writable, hist, stayed>>

\* Slip: a directory that is there by now is taken for the one made.
MakeOrFind(c) ==
    LET p == conn[c].req.path
    IN  /\ conn[c].pc = "mkcol"
        /\ \/ /\ CanMake(tree, p) \/ IsDir(tree, p)
              /\ SetTree(Placed(tree, p, Dir)) /\ Reply(c, 201)
           \/ SameTree /\ Reply(c, 409)

MakeCollection(c) ==
    LET p == conn[c].req.path
    IN  /\ conn[c].pc = "mkcol"
        /\ \/ CanMake(tree, p) /\ SetTree(Placed(tree, p, Dir)) /\ Reply(c, 201)
           \/ SameTree /\ Reply(c, 409)

----------------------------------------------------------------------------
(* DELETE, and the removal of a destination.                               *)

Unlink(c) ==
    LET p == conn[c].req.path
    IN  /\ conn[c].pc = "unlink"
        /\ \/ IsFile(tree, p) /\ SetTree(Without(tree, {p})) /\ Reply(c, 204)
           \/ SameTree /\ Reply(c, 500)

\* Slip: what is removed is the source.
TargetIsSource(r) == r.path

Target(r) == IF r.op = "DELETE" THEN r.path ELSE r.dest

\* COPY and MOVE go on after the removal; COPY starts at its source.
Transfer(c) ==
    conn' = [conn EXCEPT ![c].pc = IF conn[c].req.op = "COPY" THEN "copy" ELSE "rename",
                         ![c].todo = {conn[c].req.path}]

\* remove_dir_all: the entries one by one, each directory after what is in it.
RemoveNext(c) ==
    LET r == conn[c].req
    IN  /\ conn[c].pc \in Removing
        /\ \E p \in Under(tree, Target(r)) :
              /\ Children(tree, p) = {}
              /\ SetTree(Without(tree, {p}))
              /\ IF p # Target(r) THEN UNCHANGED conn
                 ELSE IF r.op = "DELETE" \/ conn[c].pc = "orphan"
                 THEN Reply(c, 204)
                 ELSE Transfer(c)

\* Others put something in, or took something away; or an I/O error.
RemoveFails(c) ==
    /\ conn[c].pc \in Removing
    /\ Reply(c, 500)
    /\ alone' = IF conn[c].req.op = "COPY" THEN Nobody ELSE alone
    /\ UNCHANGED <<tree, writable, handle, before, stayed>>

----------------------------------------------------------------------------
(* COPY and MOVE.                                                          *)

\* Slip: the destination is removed before Overwrite is looked at.
RefuseTooLate(c) ==
    IF IsDir(tree, conn[c].req.dest)
      THEN SetTree(Without(tree, Under(tree, conn[c].req.dest))) ELSE SameTree

RefuseOverwrite(c) == SameTree

SamePath(r) == r.path = r.dest

\* The checks of handle_copymove against the destination, up to its removal.
Decide(c) ==
    LET r == conn[c].req
        exists == r.dest \in DOMAIN tree
        isFile == IsFile(tree, r.dest)
        clear == IsDir(tree, r.path) /\ OverwriteT(r) /\ exists /\ ~DepthZero(r) /\ ~isFile
    IN  /\ conn[c].pc = "decide"
        /\ IF r.dest # << >> /\ Parent(r.dest) \notin DOMAIN tree
             THEN Reply(c, 409) /\ SameTree
           ELSE IF ~OverwriteT(r) /\ exists THEN Reply(c, 412) /\ RefuseOverwrite(c)
           ELSE IF SamePath(r) THEN Reply(c, 403) /\ SameTree
           ELSE /\ conn' = [conn EXCEPT
                      ![c].pc = IF clear THEN "remove"
                                ELSE IF r.op = "COPY" THEN "copy" ELSE "rename",
                      ![c].todo = IF clear THEN {} ELSE {r.path},
                      ![c].exists = exists, ![c].flag = isFile]
                /\ SameTree

\* What rename(2) accepts.
CanRename(t, p, q) ==
    /\ p \in DOMAIN t /\ ParentIsDir(t, q) /\ ~IsStrictPrefix(p, q)
    /\ q \in DOMAIN t => /\ IsDir(t, p) <=> IsDir(t, q)
                         /\ Children(t, q) = {}
    /\ \A x \in Under(t, p) : Len(q \o Suffix(p, x)) <= MaxDepth

Rename(c) ==
    LET p == conn[c].req.path
        q == conn[c].req.dest
        old == Under(tree, p) \cup Under(tree, q)
    IN  /\ conn[c].pc = "rename"
        /\ \/ /\ CanRename(tree, p, q)
              /\ tree' = Moved(tree, p, q)
              /\ handle' = [d \in Clients |->
                   IF handle[d] \in Under(tree, p) THEN q \o Suffix(p, handle[d])
                   ELSE IF handle[d] \in Under(tree, q) THEN NoFile ELSE handle[d]]
              /\ stayed' = [d \in Clients |-> stayed[d] \ old]
              /\ Reply(c, 201)
              /\ UNCHANGED <<writable, hist>>
           \/ SameTree /\ Reply(c, 500)

\* Slip: the destination is copied into itself like any entry.
OwnDestNever(r, p) == FALSE

\* source == topdest: the destination, met inside the source, is skipped.
OwnDest(r, p) == p = r.dest

\* do_copy for one source path: its directory is made, its file written, or
\* its entries read.  handle_copymove passes dest_is_dir = !dest_is_file for
\* the first one, so a file goes into the destination under its own name.
CopyNext(c) ==
    LET r == conn[c].req IN
    /\ conn[c].pc = "copy"
    /\ \E p \in conn[c].todo :
         LET top == p = r.path
             d == r.dest \o Suffix(r.path, p)
             asDir == IF top THEN ~conn[c].flag ELSE IsDir(tree, p)
             made == IF asDir /\ CanMake(tree, d) THEN Placed(tree, d, Dir) ELSE tree
             file == IF asDir THEN Append(d, Name(p)) ELSE d
             rest == conn[c].todo \ {p}
         IN  IF OwnDest(r, p)
             THEN conn' = [conn EXCEPT ![c].todo = rest] /\ SameTree
             ELSE IF p \notin DOMAIN tree
             THEN \* the source is gone: its siblings may be given up too
                  /\ \E left \in {rest, {q \in rest : Parent(q) # Parent(p)}} :
                        conn' = [conn EXCEPT ![c].todo = left, ![c].status = 500]
                  /\ SameTree
             ELSE IF IsDir(tree, p)
             THEN /\ SetTree(made)
                  /\ conn' = [conn EXCEPT ![c].todo =
                                rest \cup IF DepthZero(r) THEN {} ELSE Children(made, p)]
             ELSE IF CanWrite(made, file)
             THEN \* fs::copy of a file onto itself truncates it
                  /\ SetTree(Placed(made, file, IF file = p THEN Partial ELSE tree[p]))
                  /\ conn' = [conn EXCEPT ![c].todo = rest]
             ELSE /\ SetTree(made)
                  /\ conn' = [conn EXCEPT ![c].todo = rest, ![c].status = 500]

\* An I/O error in do_copy.  That of create_dir is not looked at; any other one
\* makes the answer a 500, and may leave an empty directory or a part of a file,
\* and the siblings out.
CopyFails(c) ==
    LET r == conn[c].req IN
    /\ conn[c].pc = "copy"
    /\ \E p \in conn[c].todo :
         LET top == p = r.path
             d == r.dest \o Suffix(r.path, p)
             asDir == IF top THEN ~conn[c].flag ELSE IsDir(tree, p)
             made == IF asDir /\ CanMake(tree, d) THEN Placed(tree, d, Dir) ELSE tree
             file == IF asDir THEN Append(d, Name(p)) ELSE d
             part == IF IsFile(tree, p) /\ CanWrite(made, file)
                     THEN {Placed(made, file, Partial)} ELSE {}
             rest == conn[c].todo \ {p}
         IN  /\ ~OwnDest(r, p) /\ p \in DOMAIN tree
             /\ \/ /\ IsDir(tree, p) /\ Becomes(tree)
                   /\ conn' = [conn EXCEPT ![c].todo =
                                 rest \cup IF DepthZero(r) THEN {} ELSE Children(tree, p)]
                \/ /\ \E new \in {tree, made} \cup part : Becomes(new)
                   /\ \E left \in {rest, {q \in rest : Parent(q) # Parent(p)}} :
                         conn' = [conn EXCEPT ![c].todo = left, ![c].status = 500]
    /\ alone' = Nobody /\ UNCHANGED before

CopyEnds(c) ==
    /\ conn[c].pc = "copy" /\ conn[c].todo = {}
    /\ Reply(c, IF conn[c].status = 500 THEN 500
                ELSE IF OverwriteT(conn[c].req) /\ conn[c].exists THEN 204 ELSE 201)
    /\ SameTree

----------------------------------------------------------------------------
(* PROPFIND and the search.                                                *)

\* The path itself, then read_dir of what handle took for a directory; the
\* path may vanish before the one or before the other, or an I/O error come.
ListSelf(c) ==
    LET r == conn[c].req
        reads == conn[c].todo # {} /\ ~DepthZero(r)
    IN  /\ conn[c].pc = "self"
        /\ SameTree
        /\ \/ Reply(c, 500)
           \/ reads /\ Reply(c, 403)
           \/ /\ r.path \in DOMAIN tree /\ (reads => IsDir(tree, r.path))
              /\ conn' = [conn EXCEPT
                   ![c].pc = "list", ![c].listed = {r.path},
                   ![c].todo = IF reads THEN Children(tree, r.path) ELSE {}]

\* One entry of list_dir: one that is gone is left out.
ListNext(c) ==
    /\ conn[c].pc = "list" /\ conn[c].req.op = "PROPFIND"
    /\ \E p \in conn[c].todo :
         conn' = [conn EXCEPT ![c].todo = @ \ {p},
                              ![c].listed = @ \cup ({p} \cap DOMAIN tree)]
    /\ SameTree

\* Slip: the walk comes back to the directories it has seen.
SearchAgain(c) ==
    /\ conn[c].pc = "list" /\ conn[c].req.op = "SEARCH"
    /\ \E p \in conn[c].todo :
         conn' = [conn EXCEPT ![c].todo = @ \cup Children(tree, p)]
    /\ SameTree

\* What a search keeps of an entry: the entry, when its name matches.
Found(r, p) == {q \in {p} \cap DOMAIN tree : q # r.path /\ Last(q) \in r.match}

\* One entry of the walk of a search, which goes into directories.
SearchNext(c) ==
    LET r == conn[c].req
    IN  /\ conn[c].pc = "list" /\ r.op = "SEARCH"
        /\ \E p \in conn[c].todo :
             conn' = [conn EXCEPT ![c].todo = (@ \ {p}) \cup Children(tree, p),
                                  ![c].listed = @ \cup Found(r, p)]
        /\ SameTree

\* An I/O error at an entry, of its metadata or of read_dir: it is left out, or what
\* is in it, or both, and the answer does not say so.
Skipped(c, lost) ==
    /\ stayed' = [stayed EXCEPT ![c] = @ \ lost]
    /\ UNCHANGED <<tree, writable, handle, hist>>

ListSkips(c) ==
    /\ conn[c].pc = "list"
    /\ \E p \in conn[c].todo : \E lost \in {{p}, Under(tree, p)},
                                  found \in {{}, Found(conn[c].req, p)} :
         /\ conn' = [conn EXCEPT
                ![c].todo = (@ \ {p}) \cup
                   IF conn[c].req.op = "SEARCH" THEN Children(tree, p) \ lost ELSE {},
                ![c].listed = @ \cup found]
         /\ Skipped(c, lost)

\* decrypted_size of a file that does not hold its whole nonce: with overflow
\* checks it panics, and the connection ends with no answer.
ListPanics(c) ==
    LET r == conn[c].req IN
    /\ conn[c].pc \in {"self", "list"}
    /\ \E p \in IF conn[c].pc = "self" THEN {r.path} ELSE conn[c].todo :
         /\ IsFile(tree, p) /\ tree[p] = Partial
         /\ r.op = "SEARCH" => Name(p) \in r.match
    /\ Goto(c, "cut")
    /\ SameTree

\* Slip: the listing ends at an entry that is gone.
ListEndsAtGap(c) ==
    /\ conn[c].pc = "list"
    /\ conn[c].todo = {} \/ \E p \in conn[c].todo : p \notin DOMAIN tree
    /\ Reply(c, IF conn[c].req.op = "SEARCH" THEN 200 ELSE 207)
    /\ SameTree

ListEnds(c) ==
    /\ conn[c].pc = "list" /\ conn[c].todo = {}
    /\ Reply(c, IF conn[c].req.op = "SEARCH" THEN 200 ELSE 207)
    /\ SameTree

----------------------------------------------------------------------------
Handle(c) ==
    \/ EnsureParent(c) \/ MakeParents(c) \/ Create(c) \/ WriteBody(c) \/ WriteFails(c)
    \/ MakeCollection(c) \/ Unlink(c) \/ RemoveNext(c) \/ RemoveFails(c)
    \/ Decide(c) \/ Rename(c) \/ CopyNext(c) \/ CopyFails(c) \/ CopyEnds(c)
    \/ ListSelf(c) \/ ListNext(c) \/ SearchNext(c) \/ ListSkips(c) \/ ListPanics(c)
    \/ ListEnds(c)

Next ==
    \E c \in Clients : Handle(c) \/ Disconnect(c) \/ \E r \in Requests[c] : Receive(c, r)
Spec == Init /\ [][Next]_vars

----------------------------------------------------------------------------
(* Properties.                                                             *)

Answered(c, op, statuses) ==
    conn[c].pc = "done" /\ conn[c].req.op = op /\ conn[c].status \in statuses
Related(p, q) == IsPrefix(p, q) \/ IsPrefix(q, p)

\* A request that is refused changes nothing: whatever handle and
\* handle_copymove check, they check before they touch the directory.  Only an
\* upload that File::create refuses leaves the directories above it, new ones.
RefusalChangesNothing ==
    \A c \in Clients : (alone = c /\ conn[c].pc = "done" /\ conn[c].status \in 400 .. 499)
        => LET new == DOMAIN tree \ DOMAIN before
               r == conn[c].req
           IN  /\ Without(tree, new) = before
               /\ new # {} => r.op = "PUT" /\ new \subseteq Ancestors(r.path)

\* The directory t is b less a part of what was at q.
PartlyRemoved(t, b, q) == \E S \in SUBSET Under(b, q) : t = Without(b, S)

\* MOVE that no other request overlaps: 201 renamed the whole source and did nothing
\* else; with a 500 the destination may be gone, or a part of it, but nothing else
\* is lost or changed, the source not unless it is in the destination.
MoveIsWhole ==
    \A c \in Clients : LET p == conn[c].req.path
                           q == conn[c].req.dest IN
        /\ alone = c /\ Answered(c, "MOVE", {201}) => tree = Moved(before, p, q)
        /\ alone = c /\ Answered(c, "MOVE", {500}) => PartlyRemoved(tree, before, q)

\* The directory t with the paths S, from p on, copied to q in the place of what
\* was there.
Copied(t, p, q, S) ==
    LET copies == {q \o Suffix(p, x) : x \in S}
        kept == DOMAIN t \ Under(t, q)
    IN  [y \in copies \cup kept |-> IF y \in copies THEN t[p \o Suffix(q, y)] ELSE t[y]]

\* COPY of a directory into a directory, when no other request overlaps it and no
\* call of it meets an I/O error: it is not a 500, and the destination is the source
\* as it was, less the destination itself when that is inside.
CopyIsTheTree ==
    \A c \in Clients :
      LET r == conn[c].req
          source == {x \in Under(before, r.path) : ~IsPrefix(r.dest, x)}
      IN  (/\ alone = c /\ Answered(c, "COPY", {201, 204, 500}) /\ ~DepthZero(r)
           /\ IsDir(before, r.path) /\ ~IsPrefix(r.dest, r.path)
           /\ ~IsFile(before, r.dest) /\ ParentIsDir(before, r.dest))
          => /\ conn[c].status = IF r.dest \in DOMAIN before THEN 204 ELSE 201
             /\ tree = Copied(before, r.path, r.dest, source)

\* A request that leaves the file an upload puts at p alone.
Spares(r, p) ==
    \/ r.path = Bad \/ (r.op \in {"COPY", "MOVE"} /\ r.dest = Bad)
    \/ r.op \notin Changing \/ r.op = "MKCOL"
    \/ r.op = "PUT" /\ r.path # p
    \/ r.op = "DELETE" /\ ~Related(r.path, p)
    \/ r.op \in {"COPY", "MOVE"} /\ ~Related(r.dest, p)
                                 /\ (r.op = "MOVE" => ~Related(r.path, p))

\* An upload answered 201 is there, whole, whatever requests for other paths
\* ran at the same time, those that make the same parent directories included.
AckedUploadIsThere ==
    \A c \in Clients : LET r == conn[c].req IN
        (/\ Answered(c, "PUT", {201})
         /\ \A d \in Clients \ {c} : conn[d].pc = "idle" \/ Spares(conn[d].req, r.path))
        => r.path \in DOMAIN tree /\ tree[r.path] = r.body

\* Two that race to make the same directory, or to move the same source, are
\* never both told 201: what they looked up before does not decide.
OneWinner ==
    \A c, d \in Clients : \A op \in {"MKCOL", "MOVE"} :
        (/\ c # d /\ Answered(c, op, {201}) /\ Answered(d, op, {201})
         /\ \A e \in Clients \ {c, d} : conn[e].pc = "idle")
        => conn[c].req.path # conn[d].req.path

\* PROPFIND and the search list every entry that nobody touched since the
\* request came, whatever else is made, moved or removed during the walk.
StayedIsListed ==
    \A c \in Clients : LET r == conn[c].req IN
        /\ Answered(c, "PROPFIND", {207}) /\ ~DepthZero(r) =>
              stayed[c] \cap Children(tree, r.path) \subseteq conn[c].listed
        /\ Answered(c, "SEARCH", {200}) /\ IsDir(tree, r.path) =>
              {q \in stayed[c] : IsStrictPrefix(r.path, q) /\ Last(q) \in r.match}
                 \subseteq conn[c].listed

\* tests/backend/davs.rs, copy_file: a file copied with COPY is at its
\* destination.
CopiedFileIsTheFile ==
    \A c \in Clients : LET r == conn[c].req IN
        (alone = c /\ Answered(c, "COPY", {201, 204}) /\ IsFile(before, r.path))
        => r.dest \in DOMAIN tree /\ tree[r.dest] = before[r.path]
=============================================================================
