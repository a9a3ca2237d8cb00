------------------------------ MODULE AdminApi ------------------------------
(***************************************************************************)
(* The requests that read and change vestibule.yaml: GET, POST and DELETE  *)
(* on /api/admin/{users,apps,davs} and POST /auth/local, as the plain HTTP *)
(* server runs them.                                                       *)
(*                                                                         *)
(* A handler is not atomic.  Its Config extractor reads the whole file,    *)
(* then its body is awaited, then it changes its own copy and saves all of *)
(* it with tokio::fs::write, which truncates the file and then writes it   *)
(* on a blocking thread.  Requests interleave at each of these points,     *)
(* there is no lock, and a client that goes away during a save leaves the  *)
(* save running beside whatever it sends next.  A reload waits for the     *)
(* open requests, reads the file and makes a new cookie key.               *)
(***************************************************************************)
EXTENDS ConfigTables

CONSTANTS
    Connections,     \* each has at most one request in progress; one that closes
                     \* in a save is used up until the save ends, and its client
                     \* goes on with another
    InitialConfigs,  \* what the operator may have written before the start
    Blank,           \* the file just truncated: does not parse
    Torn,            \* the file holding pieces of contents: does not parse
    None,            \* no cookie, no configuration, no request
    Faults,          \* whether saves may fail and the process may be killed
    MaxBuilds,       \* bound: how many times Server::build succeeds
    MaxUsers         \* bound: users in a file that two saves have written into

ASSUME FileAssumption == Blank \notin Config /\ Torn \notin Config /\ None \notin Config

ASSUME InitialAssumption ==
    \A f \in InitialConfigs : f \in Config /\ WellFormed(f) /\ ConfigLoads(f)

ASSUME BoundAssumption == MaxBuilds \in Nat \ {0} /\ MaxUsers \in Nat /\ Faults \in BOOLEAN

\* The payloads POST takes for a table, and the keys DELETE takes.
Payloads(t) == CASE t = "users" -> Users [] t = "apps" -> Apps [] t = "davs" -> Davs

Keys(t) == IF t = "users" THEN Logins ELSE {item.key : item \in Payloads(t)}

Target == UNION {{t} \X Keys(t) : t \in Tables}

\* The user as local_auth signs it, and the number of the build whose key signed it.
Cookie == [login : Logins, admin : BOOLEAN, key : 1..MaxBuilds]

ASSUME NoneAssumption == None \notin Target /\ None \notin Cookie

VARIABLES
    file,     \* vestibule.yaml: a Config, Blank or Torn
    written,  \* what saves have written into the file that others still have open
    up,       \* the process runs
    builds,   \* Server::build calls so far; numbers the cookie keys
    jar,      \* per connection: the cookie it sends
    pc,       \* per connection: where its request is
    op,       \* per connection: what the request is to do
    target,   \* per connection: the table and the key of what its save changes
    gone,     \* per connection: it closed while its save ran
    snap,     \* per connection: the handler's own copy of the configuration
    acked,    \* history: the items whose add was answered 201 after a save, and
              \* that no save was meant to delete since
    admins,   \* history: the logins the file named as admins since the last build
    upset     \* history: what made the requests more than one change after another

fileVars == <<file, written>>
clientVars == <<jar, pc, op, target, gone, snap>>
history == <<acked, admins, upset>>
vars == <<fileVars, up, builds, clientVars, history>>

\* A change began with a copy that another one was about to replace; a save wrote
\* into what another one had written; a save ended in its middle.
Upsets == {"spans", "mixes", "breaks"}

TypeOK ==
    /\ file \in Config \cup {Blank, Torn}
    /\ written \in SUBSET Config
    /\ up \in BOOLEAN
    /\ builds \in 1..MaxBuilds
    /\ jar \in [Connections -> Cookie \cup {None}]
    /\ pc \in [Connections -> {"idle", "ready", "saving", "writing"}]
    /\ op \in [Connections -> {"none", "add", "delete"}]
    /\ target \in [Connections -> Target \cup {None}]
    /\ gone \in [Connections -> BOOLEAN]
    /\ snap \in [Connections -> Config \cup {None}]
    /\ acked \in SUBSET Target
    /\ admins \in SUBSET Logins
    /\ upset \in SUBSET Upsets

AdminsIn(f) == IF f \in Config THEN AdminsOf(f) ELSE {}

Init ==
    /\ file \in InitialConfigs /\ written = {}
    /\ up = TRUE
    /\ builds = 1
    /\ jar = [c \in Connections |-> None]
    /\ pc = [c \in Connections |-> "idle"]
    /\ op = [c \in Connections |-> "none"]
    /\ target = [c \in Connections |-> None]
    /\ gone = [c \in Connections |-> FALSE]
    /\ snap = [c \in Connections |-> None]
    /\ acked = {} /\ admins = AdminsIn(file) /\ upset = {}

-----------------------------------------------------------------------------
(* The ends of a request.                                                  *)

\* The end of a request, whatever its status.
Ends(c) ==
    /\ pc' = [pc EXCEPT ![c] = "idle"]
    /\ op' = [op EXCEPT ![c] = "none"]
    /\ target' = [target EXCEPT ![c] = None]
    /\ gone' = [gone EXCEPT ![c] = FALSE]
    /\ snap' = [snap EXCEPT ![c] = None]

\* hyper drops the handler of a closed connection.
Disconnect(c) ==
    /\ pc[c] = "ready"
    /\ Ends(c)
    /\ UNCHANGED <<fileVars, up, builds, jar, history>>

\* Slip: a save on the handler's own task ends with the connection.
DisconnectCancelsSave(c) ==
    /\ pc[c] \in {"saving", "writing"}
    /\ Ends(c)
    /\ UNCHANGED <<fileVars, up, builds, jar, history>>

\* ... but the blocking thread that saves the file goes on.
DisconnectDuringSave(c) ==
    /\ pc[c] \in {"saving", "writing"} /\ ~gone[c]
    /\ gone' = [gone EXCEPT ![c] = TRUE]
    /\ UNCHANGED <<fileVars, up, builds, jar, pc, op, target, snap, history>>

-----------------------------------------------------------------------------
(* A request arrives and runs to its first await: the extractors, Config   *)
(* first, then Admin, and a handler that has no body to wait for.  A client *)
(* may send on one connection the cookie it got on another.                *)

\* Slip: a cookie of any generation is good.
IsAdminForEver(cookie) == cookie # None /\ cookie.admin

\* The cookie verifies under the key of the running server and names an admin.
IsAdmin(cookie) == cookie # None /\ cookie.key = builds /\ cookie.admin

Extracts(cookie) == file \in Config /\ IsAdmin(cookie)

Cookies == {jar[d] : d \in Connections}

\* The file does not parse, or no cookie of an admin: 401, 403 or 500.
Reject(c) ==
    /\ up /\ pc[c] = "idle"
    /\ \E cookie \in Cookies : ~Extracts(cookie)
    /\ UNCHANGED vars

\* get_users, get_apps and get_davs answer with the table just read.
List(c) ==
    /\ up /\ pc[c] = "idle"
    /\ \E cookie \in Cookies : Extracts(cookie)
    /\ UNCHANGED vars

\* delete_user, delete_app and delete_dav of what is not there.
DeleteMissing(c) ==
    /\ up /\ pc[c] = "idle"
    /\ \E cookie \in Cookies : Extracts(cookie)
    /\ \E t \in Tables : \E k \in Keys(t) : ~HasKey(file[t], k)
    /\ UNCHANGED vars

\* A request with its own copy of the configuration, which it will save.
Changing(c) == pc[c] # "idle"

\* c reads the file to change it.
Begins(c) ==
    /\ upset' = upset \cup IF \E d \in Connections : Changing(d) THEN {"spans"} ELSE {}
    /\ UNCHANGED <<acked, admins>>

\* ... and of what is: nothing is awaited before the save.
DeleteItem(c) ==
    /\ up /\ pc[c] = "idle"
    /\ \E cookie \in Cookies : Extracts(cookie) /\ jar' = [jar EXCEPT ![c] = cookie]
    /\ \E t \in Tables : \E k \in Keys(t) :
          /\ HasKey(file[t], k)
          /\ snap' = [snap EXCEPT ![c] = [file EXCEPT ![t] = Delete(@, k)]]
          /\ target' = [target EXCEPT ![c] = <<t, k>>]
    /\ op' = [op EXCEPT ![c] = "delete"]
    /\ pc' = [pc EXCEPT ![c] = "saving"]
    /\ Begins(c)
    /\ UNCHANGED <<fileVars, up, builds, gone>>

\* The other requests have a body to wait for, with the file already read.
ReadToAdd(c) ==
    /\ up /\ pc[c] = "idle"
    /\ \E cookie \in Cookies : Extracts(cookie) /\ jar' = [jar EXCEPT ![c] = cookie]
    /\ snap' = [snap EXCEPT ![c] = file]
    /\ op' = [op EXCEPT ![c] = "add"]
    /\ pc' = [pc EXCEPT ![c] = "ready"]
    /\ Begins(c)
    /\ UNCHANGED <<fileVars, up, builds, target, gone>>

\* local_auth is one step, though it awaits its body: it changes nothing but the
\* cookie, which is what it would be if the body had come with the request, because
\* the reload that makes another key waits for it.
LoginUser(login) == Lookup(file["users"], login)

LocalAuth(c) ==
    /\ up /\ pc[c] = "idle" /\ file \in Config
    /\ \E login \in Logins, pw \in Texts :
          /\ HasKey(file["users"], login)
          /\ Verifies(pw, LoginUser(login).pw)
          /\ jar' = [jar EXCEPT ![c] = [login |-> LoginUser(login).key,
                                        admin |-> LoginUser(login).admin, key |-> builds]]
    /\ UNCHANGED <<fileVars, up, builds, pc, op, target, gone, snap, history>>

\* No such user or another password: 401.  No password stored: PasswordHash::new fails.
LocalAuthFails(c) ==
    /\ up /\ pc[c] = "idle" /\ file \in Config
    /\ \E login \in Logins, pw \in Texts :
          HasKey(file["users"], login) => ~Verifies(pw, LoginUser(login).pw)
    /\ UNCHANGED vars

BadBody(c) ==
    /\ up /\ pc[c] = "ready"
    /\ Ends(c)
    /\ UNCHANGED <<fileVars, up, builds, jar, history>>

-----------------------------------------------------------------------------
(* The handlers, once the body is there.                                   *)

PasswordMissing(c, payload) ==
    payload.pw = Empty /\ ~HasKey(snap[c]["users"], payload.key)

AddUserRefused(c) ==
    /\ up /\ pc[c] = "ready" /\ op[c] = "add"
    /\ \E payload \in Users : PasswordMissing(c, payload)
    /\ Ends(c)
    /\ UNCHANGED <<fileVars, up, builds, jar, history>>

\* What add_user, add_app and add_dav put into their table.
ItemToStore(c, t, payload) ==
    IF t = "users" THEN UserToStore(snap[c]["users"], payload) ELSE payload

\* Slip: add_* does not replace the item with the same key.
AddItemAppends(c) ==
    /\ up /\ pc[c] = "ready" /\ op[c] = "add"
    /\ \E t \in Tables : \E payload \in Payloads(t) :
          /\ t = "users" => ~PasswordMissing(c, payload)
          /\ snap' = [snap EXCEPT ![c][t] = Append(@, ItemToStore(c, t, payload))]
          /\ target' = [target EXCEPT ![c] = <<t, payload.key>>]
    /\ pc' = [pc EXCEPT ![c] = "saving"]
    /\ UNCHANGED <<fileVars, up, builds, jar, op, gone, history>>

AddItem(c) ==
    /\ up /\ pc[c] = "ready" /\ op[c] = "add"
    /\ \E t \in Tables : \E payload \in Payloads(t) :
          /\ t = "users" => ~PasswordMissing(c, payload)
          /\ snap' = [snap EXCEPT ![c][t] = Upsert(@, ItemToStore(c, t, payload))]
          /\ target' = [target EXCEPT ![c] = <<t, payload.key>>]
    /\ pc' = [pc EXCEPT ![c] = "saving"]
    /\ UNCHANGED <<fileVars, up, builds, jar, op, gone, history>>

-----------------------------------------------------------------------------
(* Config::to_file: tokio::fs::write truncates the file, then writes it.   *)

SetFile(contents) == /\ file' = contents
                     /\ admins' = admins \cup AdminsIn(contents)

OpenToWrite(c) ==
    /\ up /\ pc[c] = "saving"
    /\ SetFile(Blank) /\ written' = {}
    /\ pc' = [pc EXCEPT ![c] = "writing"]
    /\ UNCHANGED <<up, builds, jar, op, target, gone, snap, acked, upset>>

OpenFails(c) ==
    /\ Faults /\ up /\ pc[c] = "saving"
    /\ Ends(c)
    /\ UNCHANGED <<fileVars, up, builds, jar, history>>

\* Each save writes from offset 0 of its own handle, and the longer contents stick
\* out of the shorter ones.  The file holds apps, davs and users, in this order and
\* users last in it, and of a user the roles last.
Above(t, u) == <<t, u>> \in {<<"apps", "davs">>, <<"apps", "users">>, <<"davs", "users">>}

\* The items of a up to the m-th one of table u, and those of b from the n-th one on.
Spliced(a, b, u, m, n) ==
    [t \in Tables |-> IF t = u THEN SubSeq(a[u], 1, m) \o SubSeq(b[u], n, Len(b[u]))
                      ELSE IF Above(t, u) THEN a[t] ELSE b[t]]

\* The i-th user loses a role that is cut, or gets one that comes after it.
Cut(f, i) == [f EXCEPT !["users"][i].admin = FALSE]
Grown(f, i) == [f EXCEPT !["users"][i].admin = TRUE]

Joined(a, b, u, m) ==
    {Spliced(a, b, u, m, n) : n \in {i \in 1 .. Len(b[u]) + 1 : m <= Len(a[u])}}

\* What parses of the contents a over the longer contents b: all of a, then the last
\* roles or users of b.
Overlays(a, b) ==
    LET last == Len(a["users"])
        joined == Joined(a, b, "users", last)
    IN  IF last = 0 THEN {} ELSE joined \cup {Grown(f, last) : f \in joined}

\* What parses of a part of a over b.
PartOverlays(a, b) ==
    LET whole == UNION {Joined(a, b, u, m) : u \in Tables, m \in 0 .. MaxUsers}
        cut   == UNION {{Cut(f, m) : f \in Joined(a, b, "users", m)} : m \in 1 .. MaxUsers}
        grown == UNION {{Grown(f, m) : f \in Joined(a, b, "users", m)} : m \in 1 .. MaxUsers}
    IN  whole \cup cut \cup grown

\* What parses of a part of a.
Upto(a, m) == [a EXCEPT !["users"] = SubSeq(@, 1, m)]

Parts(a) == LET first == {m \in 1 .. MaxUsers : m <= Len(a["users"])}
            IN  {Upto(a, m) : m \in first} \cup {Cut(Upto(a, m), m) : m \in first}

Bounded(S) == {f \in S : Len(f["users"]) <= MaxUsers}

Outcomes(c) ==
    IF file = Blank THEN {snap[c]}
    ELSE {snap[c], Torn} \cup Bounded(UNION {Overlays(snap[c], b) : b \in written})

\* Others that have the file open write over what is in it now.
Written(c) ==
    written' = IF \A d \in Connections \ {c} : pc[d] # "writing" THEN {}
               ELSE written \cup {snap[c]} \cup ({file'} \cap Config)

Mixes == IF file = Blank THEN {} ELSE {"mixes"}

\* A save whose server has ended finishes all the same: the runtime waits for it.
WriteContents(c) ==
    /\ pc[c] = "writing"
    /\ \E contents \in Outcomes(c) : SetFile(contents)
    /\ Written(c)
    /\ acked' = IF op[c] = "delete" THEN acked \ {target[c]}
                ELSE IF gone[c] THEN acked ELSE acked \cup {target[c]}
    /\ upset' = upset \cup Mixes
    /\ Ends(c)
    /\ UNCHANGED <<up, builds, jar>>

\* Nothing or a part of it was written, over what was there.
WriteFails(c) ==
    /\ Faults /\ pc[c] = "writing"
    /\ \E contents \in {file, Torn} \cup
            IF file = Blank THEN Parts(snap[c])
            ELSE Bounded(UNION {PartOverlays(snap[c], b) : b \in written}) :
         SetFile(contents)
    /\ Written(c)
    /\ upset' = upset \cup {"breaks"} \cup Mixes
    /\ Ends(c)
    /\ UNCHANGED <<up, builds, jar, acked>>

-----------------------------------------------------------------------------
(* The server around the handlers.                                         *)

Loads == file \in Config /\ ConfigLoads(file)

\* The shutdown of a generation waits for every request whose client is there.
Drained == \A c \in Connections : pc[c] = "idle" \/ gone[c]

Build == /\ builds < MaxBuilds
         /\ builds' = builds + 1
         /\ admins' = AdminsIn(file)
         /\ UNCHANGED <<fileVars, clientVars, acked, upset>>

\* GET /reload, then the next turn of the loop of main.
Reload ==
    /\ up /\ Drained /\ Loads
    /\ Build
    /\ UNCHANGED up

\* load_config(..).await? or the panic of an expect in it: main ends.  Saves that
\* have not opened the file are dropped.
ReloadFails ==
    /\ up /\ Drained /\ ~Loads
    /\ up' = FALSE
    /\ LET ended == {c \in Connections : pc[c] # "writing"} IN
         /\ pc' = [c \in Connections |-> IF c \in ended THEN "idle" ELSE pc[c]]
         /\ gone' = [c \in Connections |-> IF c \in ended THEN FALSE ELSE gone[c]]
         /\ snap' = [c \in Connections |-> IF c \in ended THEN None ELSE snap[c]]
         /\ op' = [c \in Connections |-> IF c \in ended THEN "none" ELSE op[c]]
         /\ target' = [c \in Connections |-> IF c \in ended THEN None ELSE target[c]]
    /\ UNCHANGED <<fileVars, builds, jar, history>>

\* The process is killed: every request ends where it stands.
Crash ==
    /\ Faults /\ up
    /\ up' = FALSE
    /\ pc' = [c \in Connections |-> "idle"]
    /\ gone' = [c \in Connections |-> FALSE]
    /\ snap' = [c \in Connections |-> None]
    /\ op' = [c \in Connections |-> "none"]
    /\ target' = [c \in Connections |-> None]
    /\ written' = {}
    /\ upset' = upset \cup IF \E c \in Connections : pc[c] = "writing" THEN {"breaks"} ELSE {}
    /\ UNCHANGED <<file, builds, jar, acked, admins>>

Restart ==
    /\ ~up /\ \A c \in Connections : pc[c] = "idle"
    /\ Loads
    /\ Build
    /\ up' = TRUE

-----------------------------------------------------------------------------
Arrive(c) == \/ Reject(c)    \/ List(c)      \/ DeleteMissing(c) \/ DeleteItem(c)
             \/ ReadToAdd(c) \/ LocalAuth(c) \/ LocalAuthFails(c)

Handle(c) == BadBody(c) \/ AddUserRefused(c) \/ AddItem(c)

Save(c) == \/ OpenToWrite(c)   \/ OpenFails(c)
           \/ WriteContents(c) \/ WriteFails(c)

ClientStep(c) == \/ Arrive(c) \/ Handle(c) \/ Save(c)
                 \/ Disconnect(c) \/ DisconnectDuringSave(c)

Server == Reload \/ ReloadFails \/ Crash \/ Restart

Next == (\E c \in Connections : ClientStep(c)) \/ Server

Spec == Init /\ [][Next]_vars

-----------------------------------------------------------------------------
(* Properties.                                                             *)

\* However the saves of stale copies interleave, mix or fail, every user of a file
\* that parses has a password hash: add_user never stores the empty password a client
\* sends to keep the old one.  As long as no save wrote into what another one had
\* written, the file has one item per key too, also when it was saved in part.
StoredConfigWellFormed ==
    file \in Config => /\ UsersHaveHash(file)
                       /\ "mixes" \notin upset => WellFormed(file)

\* A save is run for a client that is still there only if it logged in to the
\* running generation as a user whom the file has named as an admin since that
\* generation was built: the roles in a cookie do not outlive a reload.
SaverIsCurrentAdmin ==
    \A c \in Connections : pc[c] \in {"saving", "writing"} /\ ~gone[c] =>
        /\ jar[c] # None
        /\ jar[c].key = builds
        /\ jar[c].admin
        /\ jar[c].login \in admins

\* The file parses whenever no save is in its middle, whatever connections close in
\* one and whatever stale copies are saved, until two saves have it open at once
\* or one of them breaks off.
QuietFileIsReadable ==
    (upset \subseteq {"spans"} /\ \A c \in Connections : pc[c] # "writing") => file \in Config

\* "user created or updated successfully", and its kin for apps and davs: an item
\* whose add was answered so is in the file, when the file is at rest and nobody was
\* told to delete it.
AckedIsStored ==
    ((\A c \in Connections : pc[c] = "idle") /\ file \in Config) =>
        \A item \in acked : HasKey(file[item[1]], item[2])

\* That holds as long as no change begins before the one before it is saved, the save
\* of a client that left included.
SequentialAckedIsStored == upset = {} => AckedIsStored

-----------------------------------------------------------------------------
(* One change after another: the API is atomic.                            *)

\* The contents a save in its middle is about to write count as written.
StoredConfig == IF \E c \in Connections : pc[c] = "writing"
                THEN snap[CHOOSE c \in Connections : pc[c] = "writing"]
                ELSE file

Promised == IF upset = {} THEN StoredConfig ELSE None

Atomic == INSTANCE AtomicConfig WITH config <- Promised, Lapsed <- None

\* Until a change begins before the one before it is saved, or a save breaks off, the
\* requests, closed connections and reloads change the file as one atomic change each.
ChangesAreAtomic == Atomic!Spec
=============================================================================
