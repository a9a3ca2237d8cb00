# A TLA+ model of vestirust

vestirust is a small home server: it authenticates users, proxies *apps*, serves
WebDAV directories (*davs*, optionally encrypted) and lets admins edit all of it
through an API. Its whole configuration is one file, `vestibule.yaml`. This
directory models the parts of it whose correctness depends on order, concurrency,
failure or arithmetic, checks them with TLC on small instances, and proves the main
results with TLAPS for every value of the constants.

Paths below are relative to the repository; line numbers are those of the modelled
commit.

## 1. The system

| Component | State | Operations | Interacts with |
|---|---|---|---|
| Configuration file and admin API (`src/configuration.rs`, `users.rs`, `apps.rs`, `davs/model.rs`) | `vestibule.yaml`; the cookie key of the running server; a copy of the configuration in every handler | list, add or update, delete of users, apps and davs; login | reads and writes the file the server loops build from |
| Plain HTTP loop (`src/main.rs` 137-157, `server.rs`) | the loop's flag, the broadcast channel, the server and its connections | build, serve, `GET /reload`, signal, drain | the file; tokio's channel and signals; hyper's graceful shutdown |
| TLS loop (`src/main.rs` 43-135) | two loop flags, one listener, a task per connection | load domains, build, accept, reload, signal | as above; rustls-acme |
| Encrypted file layout (`src/davs/encrypted_streamer.rs`) | none | `encrypted_offset`, `decrypted_size`, `ChunkedPosition` | both of the next two |
| Download (`src/davs/webdav_server.rs` 401-524, both streamers) | position in the file, what remains to send, the chunk counter | validators, ranges, whole and sized streams | the file system, hyper |
| Upload (`webdav_server.rs` 279-313, `copy_from`) | the file being rewritten, its nonce and counter | create, one write per chunk, abort | downloads and uploads of the same file |
| WebDAV tree (`webdav_server.rs`, `headers.rs`) | the directory tree | OPTIONS, PROPFIND, PROPPATCH, MKCOL, DELETE, COPY, MOVE, LOCK, UNLOCK, search | the file system |
| Zip download (`webdav_server.rs` 368-399, 1060-1097) | a 64 KiB pipe | walk and compress, stream | the file system, hyper |
| Authorization (`users.rs`, `configuration.rs`, `davs/mod.rs`) | cookies; the map of the running server | login, `check_authorization`, `list_services`, host dispatch | the apps and davs of the running server, the file |
| Reverse proxy (`apps.rs`) | none | rewrite a request and the `Location` of its answer | an external HTTP client |
| Mock services, logger, utilities | none of interest | | |
| Flutter frontend | user interface | | the API only |

What makes each of them correct, and what is hard about it:

* **Configuration.** A handler is not atomic: the `Config` extractor reads the file,
  *then* the body is awaited, then the handler saves all of its own copy with
  `tokio::fs::write`, which truncates first, on a blocking thread that survives the
  request. The file must stay well formed (unique keys, no user without a password
  hash), an acknowledged change must stay, and only current admins may change it
  although roles are read from a cookie and not from the file.
* **Server loops.** An acknowledged reload must be served, also when it races with the
  loop's own turn, an edit or a signal; a signal must stop the process; no request in
  progress may be cut, and what is cut must not be lost.
* **Downloads.** The body is exactly the requested bytes, for every position of the
  range relative to the chunk boundaries, whatever the reads return, with `u64`
  arithmetic that wraps or panics with the build.
* **Uploads.** Nothing locks the file. Readers under a rewrite must never get a mixture.
* **WebDAV tree.** Every handler looks the directory up, awaits, and acts on what it
  saw; COPY, MOVE and DELETE of a directory take many steps in which others act. A
  refused request must have changed nothing, a MOVE must lose nothing but its
  destination, a COPY into itself must end, an acknowledged upload must be there, a
  listing must have everything that could be read. Any call may fail for reasons of its
  own (EACCES, EIO, EMFILE, ENOSPC, EXDEV), and some of these errors are swallowed.
* **Zip.** The status is sent before the walk begins, and the walk is done by another
  task over a bounded pipe: neither side may wait for one that is gone, and a zip
  that looks whole must have every file whose directory and metadata could be read.
* **Authorization, proxy.** Roles come from three places (the cookie, the file, the
  map of the running server) of different ages, and are compared in two places. A
  redirect inside a target must come back to the app, one to another website must be
  kept.

## 2. Modules

| Module | What it is | Models |
|---|---|---|
| `ConfigTables` | the tables of the file and what handlers do to them, as operators | `configuration.rs`, `users.rs`, `apps.rs`, `davs/model.rs` |
| `AdminApi` | every request on the file, step by step, and its refinement mapping to `AtomicConfig` (`StoredConfig`) | the extractors, handlers and saves; reload, kill, restart |
| `AtomicConfig` | abstract: the configuration is one value changed atomically | what the API promises |
| `MCAdminApi` | instances | |
| `HttpLoop` | the plain HTTP branch of `main` | `main.rs`, `server.rs` |
| `TlsLoop` | the TLS branch of `main` | `main.rs`, `server.rs` |
| `ChunkLayout` | size and position arithmetic | `encrypted_streamer.rs` 226-300 |
| `RangeRead` | one GET or HEAD of a file that does not change (EXTENDS `ChunkLayout`) | `handle_send_file`, `Streamer`, `EncryptedStreamer` |
| `WebdavTree` | requests that list or change a WebDAV directory, interleaved | `handle` and its handlers, `headers.rs` |
| `ZipDownload`, `MCWebdav` | GET ?zip on top of it (EXTENDS `WebdavTree`), and instances of both | `handle_zip_dir`, `zip_dir`, `Streamer::into_stream` |
| `Services`, `MCServices` | who reaches which service over edits, reloads and logins | `load_config`, `HostType`, `users.rs`, `davs/mod.rs`, `proxy_handler` |
| `UploadStore`, `MCUploadStore` | PUTs and GETs of one encrypted file, interleaved | `handle_upload`, `copy_from`, `into_stream` |
| `AdminApiProofs`, `ChunkLayoutProofs`, `UploadStoreProofs`, `HttpLoopProofs`, `TlsLoopProofs`, `RangeReadProofs`, `ServicesProofs`, `WebdavProofs` (of both WebDAV modules) | lemmas and theorems | |

Definitions preceded by a comment that begins with "Slip" are buggy variants of the
definition that follows. No action uses one; each has been put in the place of its
definition once, to see that some property then fails. `PROJECT.json` ("mutants")
says which variant breaks which property, and its "map" gives the source lines of
every definition.

### 2.1 ConfigTables and AdminApi

`file` is `vestibule.yaml`: a `Config` (three sequences of items with a `key`),
`Blank` (just truncated) or `Torn` (pieces of contents that do not parse). Per
connection, `pc` walks through the points where the code awaits:

    idle -ReadToAdd-> ready -AddItem-> saving -OpenToWrite-> writing -WriteContents-> idle
    idle -DeleteItem------------------> saving -...

A request arrives and runs to its first await in one step: the extractors in the order of the
handlers' parameters, `Config` first (a file that does not parse is a 500), then `Admin`. A
delete has no body and goes on to its save in the same step. An addition waits for its body with the file already
read; which item it brings is chosen when the body is there (`AddItem`,
`AddUserRefused`, `BadBody`). The handler works on its `snap`; the file is not looked at
again. `LocalAuth` is one step although it has a body too: all it
changes is the cookie, and neither the key nor the user it signs can tell when the body came.

`Disconnect` drops a handler that waits for its body. A save runs on a blocking thread and goes on when its
client leaves (`DisconnectDuringSave`, `gone`). The connection is then used up, not the client:
it goes on over another one, with the same cookie (`Cookies`), beside its own orphaned save. `Drained` lets a
reload go ahead while such a save is running, as hyper's shutdown does. `builds` numbers
`Server::build` calls, hence cookie keys. `ReloadFails` is a file that
does not load; `Crash` and `Restart` are a kill and a new process. A password is
trimmed when it is hashed, not when it is verified (`HashPassword`, `Verifies`).

Each save writes from offset 0 of its own handle. What two leave in the file
(`Outcomes`) is the contents written last, or these with the end of longer ones that were written
before sticking out: a third configuration, when the end begins at an item (`Spliced`) or at a role of the last
user (`Grown`), else `Torn`. A save that breaks off (`WriteFails`) leaves a part, which parses
when it ends behind a user or inside the last one's roles (`Parts`, `Cut`), or, over the contents of another, a part of
the one and the end of the other (`PartOverlays`). So two users of one name, a list that
lost its last users and a user with another one's role are all there.
`written` is what such a save may find in the file.

`upset` records what makes the API more than one change after another: a change that began while
another one had read and not yet saved (`spans`), a save into what another one had written
(`mixes`), a save that broke off (`breaks`). What the properties promise, they promise until some of these happen; an orphaned
save counts like any other.

`AtomicConfig` is the promise: one value, changed by one request at a time, until the promise lapses.
`StoredConfig` maps `AdminApi` to it, with the contents that a save in its middle is writing.

Abstractions: roles are `admin` or not; fields no operation looks at are left out; a login, a
password hash or an app that is itself made of halves of two is left out (of two broken saves only; it counts as
`Torn`); the operator's first file is well formed and loads. The server around the
handlers is that of the plain HTTP loop, in one step: its own interleavings are `HttpLoop`'s.

### 2.2 HttpLoop

One action per step of the loop: `Subscribe` (a fresh receiver), `Build`, `Bind`
(the first poll installs the signal handlers), `TakeReload` / `TakeSignal` (the
`select!`), `Drained`. A connection is `fresh` (no request yet), `idle`, `working`,
`reloading` (in the handler of `/reload`) or `replying`. The configuration is a
version number that grows with every change, by a request (`Work`) or from outside
(`Edit`, which may leave a file that does not load). A signal kills when no handler
is installed; with one installed it is heard only by a `select!` that waits.
The channel's capacity plays no role: what matters is whether some message waits, and a receiver that lags still wakes.
`promised` and `cut` are histories: the file at the last `/reload` that was answered, and at the last one whose handler panicked
because its server was draining (`SendPanics`).

### 2.3 TlsLoop

The loops look at their flags between two accepts only. Each connection's task
keeps the flag of the generation it was accepted for (`conn[k].gen`), its own
receiver (`msg`) and its own signal listener (`sig`). `TakeReload` and
`TakeSignal` drop the connection future, whatever it was doing. `LoadDomains`
and `Build` are the two reads of the file in one turn; of the first only that it may
fail is kept. ACME events change nothing the
model has; a validation connection is `TaskEnds`.

### 2.4 ChunkLayout and RangeRead

Byte `k` of the plaintext is the number `k`, so a body shows what was sent and in
which order. One behaviour is one request on one file, in a build with or without overflow
checks. `Word` is 2^64: a subtraction below zero panics with overflow checks and
wraps without. `Usize` is what `as usize` keeps. `lseek` takes a signed offset
(`TooFar`). A read may return less than asked for. A chunk decrypts at its own
counter and with its own last flag only. Validators are two Booleans; a
Range header that does not parse is `NoRange`.

### 2.5 UploadStore

The file is a sequence of cells (the nonce, then the chunks) that record under which
nonce they were encrypted, whose data they hold, and at which index. A write is two
steps (`BeginWrite` leaves a torn cell), so a reader or another writer may come
between. `Create` truncates under everyone. A reader sees a cell in two steps
(`BeginRead`, `EndRead`); if it changed meanwhile it decrypts under nothing. The nonces of
two uploads differ: the code draws them at random, a collision is left out. The
authenticated encryption is the assumption that a cell decrypts only under its nonce, at
its index and with its last flag (`Decrypts`). The `u32` counter of a chunk is its index: a file of 2^32 chunks is
left out.

### 2.6 WebdavTree and ZipDownload

`tree` maps the paths that exist to `Dir` or to the content of a file. `Receive` is
everything up to a handler's first await: `extract_path`, the lookup, the dispatch and the
answers that need no more (`Answer`, in the order of the code). `conn[c].pc` is then the
await at which the handler stands:

    PUT     parent -EnsureParent-> [parents -MakeParents*->] create -Create-> write -WriteBody-> done
    COPY    decide -Decide-> [remove -RemoveNext*->] copy -CopyNext*, CopyEnds-> done
    MOVE    decide -Decide-> [remove -RemoveNext*->] rename -Rename-> done
    DELETE  remove -RemoveNext*-> done, or unlink -Unlink-> done
    others  mkcol; self and list (PROPFIND); list (search); sending (zip)

`remove_dir_all`, `do_copy`, `list_dir` and the walks of the search and the zip are one step
per entry, in any order, since the order of `read_dir` is not defined. `create_dir_all` is one step per
`mkdir`, up to a directory that is there and down again, so that two uploads may make the same parents. The look-ups of
`handle_copymove` before the removal, with their awaits (787 to 819), are one step (`Decide`): what they find is
used only after the next await. `Disconnect` drops a handler at an await; a removal
runs on in a blocking thread (`orphan`). Any other call that has begun runs on as well, which to everybody
else is a connection that closed after it.

I/O errors: any call may fail although the directory would allow it. `RemoveFails` leaves a part of what was to be
removed, `Rename` may fail after the removal, `CopyFails` leaves out an entry and perhaps its siblings, or a part of
a file, and `do_copy` does not look at the error of `create_dir`. The listing, the search and the zip swallow errors of the walk and
of the metadata: the entry is left out, or what is in it, or both (`ListSkips`, `ZipSkips`), and the answer does
not say so. `ListPanics` is `decrypted_size` of an encrypted file that is shorter than its nonce (`cut`).
 A file that is open follows a rename and survives
its unlinking (`handle`). `Torn`: two that write into one file may leave a
mixture. What `create_dir`, `rename` and `fs::copy` accept is modelled as on Linux
(`CanMake`, `CanRename`, `CanWrite`), with a limit on the length of paths. `RootName` is the name of the
service's own directory, which `do_copy` asks for when that is what is copied (`Name`). `fs::copy` of a file
onto itself truncates it.

Per zip, `ZipDownload` adds the task, what it holds, the pipe and what
the client received; a piece is a whole entry. An entry that is not found when it is
looked at is skipped, one that vanishes before it is opened ends the task, and the body then ends like any
other. Left out: symbolic links, the metadata of a listing, HEAD of a zip, a listing's XML.

The history variables `alone` and `before` say which request ran by itself and on what; a
COPY loses `alone` at its first I/O error, since its promise is that of a COPY that meets none, while a MOVE keeps it.
`stayed` is what nobody has touched since a listing or a zip was asked for and no I/O error of its walk has hit.

### 2.7 Services

`map` is the `ConfigMap` of the running server, which `Reload` builds from `file` with a
new cookie key (`build`); of services that share a host the last one stays, as `collect` does.
`Login` reads the file and not the map. A cookie of another key is none (`UserOf`).
`Authorized` and `Shown` are the two comparisons of roles, each written as its code is. A host
is a whole name; `Within` says which names contain which, as `contains` in `proxy_handler`
tests it, and `Under` which of those are the target or in its domain, as is meant. `frontTls` is `auto_tls` at the last build, which the scheme of rewritten redirects comes from;
`tls` is `auto_tls` at the start of the process, which decides what is listened on. The
target's answer is any redirect, or anything else (`Serve`). Left out: the request the target gets, ports.

## 3. What is checked

Every passing run has `CHECK_DEADLOCK FALSE`: in all the systems here clients may simply stop
coming, the process may end, and a bounded number of reloads, edits or signals runs out.

| Run | Checks | Shows |
|---|---|---|
| `admin` | `TypeOK`, `StoredConfigWellFormed`, `SaverIsCurrentAdmin`, `QuietFileIsReadable`, `SequentialAckedIsStored`, `ChangesAreAtomic` | Two connections, of one client or two, with closed connections, orphaned, overlapping and failing saves, kills, reloads and restarts. A file that parses has no user without a hash, and one item per key unless two saves wrote into each other; only an admin of the running generation saves; the file parses when it is at rest, `AdminApi` implements `AtomicConfig` and what was acknowledged is stored, each until what `upset` it. |
| `admin_lost_update` | `AckedIsStored`, violated | Of two concurrent additions that both succeed, one is gone. The same is so of one client that leaves during a save and goes on. |
| `http_loop` | `TypeOK`, `ReloadTakesEffect`, `CutReloadTakesEffect`, `ReloadIsServed`, `TakenSignalStops` | Two connections, 2 changes, 2 signals. A reload is neither lost between two turns nor left unserved, one that the drain cuts is in effect in the next server all the same, and a signal that was taken stops the process. |
| `tls_loop` | `TypeOK`, `OneStaleAccept`, `ClearedFlagIsHeeded` | Tasks of two generations. A generation whose flag is cleared accepts at most one more connection and, if clients keep coming, is left. |
| `tls_cut` | `NoRequestCut`, violated | A reload or signal drops the requests in progress on other connections. |
| `range_stream` | `TypeOK`, `BodyIsTheRange`, `WholeFile`, `FailsOnlyBeyondTheEnd`, `RequestEnds` | Every range on plain and encrypted files around the chunk boundaries. |
| `range_unsatisfiable` | `UnsatisfiableIs416`, violated | A range beyond the file that has an end is answered 206 with a wrapped length, or panics. |
| `upload_readers` | `TypeOK`, `BodyIsOneUpload`, `AckedReadsBack` | Two uploads, failing or not, under a download. |
| `dav` | `TypeOK`, `ZipTypeOK`, `RefusalChangesNothing`, `MoveIsWhole`, `CopyIsTheTree`, `AckedUploadIsThere`, `OneWinner`, `StayedIsListed`, `ZipIsWhole`, `RequestIsAnswered`, `ZipTaskEnds` | 29 changing requests of one client, each against 11 of another, one of which is a zip, with I/O errors. Alone, a refused request changes nothing and COPY and MOVE do what they say, a MOVE also when it fails; together, uploads are there, listings and zips have what was not touched and could be read, races have one winner, and everything ends. |
| `dav_copy_file` | `CopiedFileIsTheFile`, violated | COPY of a file to a new name makes a directory of that name with the file in it. |
| `services` | `TypeOK`, `ListedIffGranted`, `GrantedIsCurrent`, `RedirectReturns` | One browser, two users, three files, two reloads. What is listed is what is let through; roles are no older than the build; redirects inside a target come back. |
| `services_redirect` | `OtherSitesKept`, violated | A redirect to another website whose name contains the target's is rewritten. |

Each violated run is a finding of `PROJECT.json`, with the line of the
repository it contradicts.

### Bounds, and why they are enough

* `AdminApi`: two connections suffice for every race between one read and one save, since a handler never reads
  another's copy, and for one orphaned save beside the next request. Two payloads, one of which keeps the password,
  two logins, and the deletes of both; items of one table show what the tables share, and the theorems of section 5 hold for
  all items and any number of connections. `MaxBuilds` 2: a cookie of an older generation. `MaxUsers`
  2 bounds what two saves leave when they mix: one user more than a save starts with.
  The CONSTRAINT `Bound` follows a behaviour no further when all three kinds of `upset` have happened, after which no property
  but the first three promises anything, and these are proved without it.
* `HttpLoop`: two connections, one that reloads while the other holds up the drain; 2
  versions, one promised and one newer; 2 signals, one before and one after the
  handlers are installed.
* `TlsLoop`: 2 connections and 2 generations are a task that outlives its
  generation next to one of the newest; the violated run has a third generation so
  that the bound is not what stops it (`Exhausted`).
* `RangeRead`: chunks of 3 bytes, lengths 0 to 8, which are zero, below, at and just
  above one chunk, two full chunks and two and a bit; offsets on and beyond each boundary, and near
  the signed and unsigned limits of a `Word` of 40, which is large enough that no size computed for
  a file wraps by itself (`WordAssumption`) as 2^64 is. `Usize` is `Word`: with a
  smaller one `BodyIsTheRange` fails (a 32-bit build, `encrypted_streamer.rs:218`).
* `WebdavTree`, `ZipDownload`: two clients with one request each, which is every pair the
  properties tell apart; the tree has a directory with a file, one with an empty directory, and a
  file, and the requests all the relations of a source and a destination (same, new, file,
  empty and full directory, inside one another, without a parent). `MaxDepth` 4 is one level
  more than any of them needs. The pipe has room for one piece, so that it fills.
* `Services`: one browser suffices, since browsers share only the file and the
  map; the files have a service for one role, one for all, one for none, two on one
  host, a user who loses a role and one who is deleted. Section 5 removes the bounds.
* `UploadStore`: one upload with a partial last chunk, one with an empty one; the theorem
  removes the bound for `BodyIsOneUpload`.

### Fairness

* `HttpLoop.FairSpec`: the loop and every handler make progress (`ServerFairness`: tokio runs ready tasks,
  handlers end), and a client that has opened a connection sends a request or closes (`ClientFairness`).
  The second is needed: hyper keeps a connection without a first request
  open during a drain, and the loop waits for it. Clients need not connect
  and signals need not come.
* `TlsLoop.FairSpec`: main and the tasks make progress. `BusySpec` adds that clients keep
  connecting and connections end; without them main sits in an accept for ever, which the
  code does and the properties do not count as a fault.
* `RangeRead.FairSpec`: a response that can go on does, while its client reads.
* `ZipDownload.ZipFairSpec`: every handler and every zip task that can go on does, since tokio polls
  them and file system calls return, but for an upload that waits for its body (`Serve`): nothing times it out, and
  `RequestIsAnswered` leaves it out. A client of a zip reads what comes or leaves. A client that
  keeps the connection and never reads holds its task for as long, which the code allows.
* The other modules claim safety only.

## 4. What the code does that no run is about

Seen in the models, kept in them, and without a line of the repository that promises otherwise:

* A second `/reload` on a connection that is still open while its server drains panics in its
  handler (`SendPanics`); the connection ends without an answer.
* An app whose `forward_to` is no URI is accepted by the API and ends the process
  at the next reload or start (`ReloadFails`, `src/apps.rs:75`).
* A kill between truncation and write leaves an empty `vestibule.yaml`; the next start
  fails. The models then have no `Restart`.
* The TLS loop reads the file twice per turn; an edit between `LoadDomains` and
  `Build` gives routes without a certificate. A signal with no connection open reaches nobody once a handler is installed.
* A password with spaces around it can be set and never used.
* An upload aborted between two chunks reads as a complete, shorter file, since a
  stream that ends at a chunk boundary never saw a last chunk; `BodyIsOneUpload` allows
  a beginning, `AckedReadsBack` excludes it for acknowledged uploads.

* A signal that arrives while the plain HTTP server drains for a reload, or is rebuilt, meets
  tokio's installed handler and no listener, and is lost (`Signal` of `HttpLoop`).
* `/reload` on a TLS connection of an older generation clears that generation's flag only.
  If no connection of the newest one is open, nothing is reloaded although "Apps reloaded !" was the answer.
* Two overlapping PUTs of one encrypted file are both answered 201 and may leave chunks of both,
  which decrypt under neither nonce.
* COPY of `/a/x` onto its parent `/a` copies the file onto itself, which truncates it. MOVE or COPY onto
  an ancestor of the source removes the source with the destination, and answers 500;
  MOVE of a directory into an existing directory inside itself removes that one first.
* COPY of an empty directory onto a file is answered 204, and under a file 201; both do nothing.
* A connection that closes between the removal of a destination and the rename or copy leaves
  the destination removed.
* `Overwrite: F` is looked at before the copy: what another request puts there meanwhile is overwritten.
* Two COPYs, each into the other's source, feed each other up to the length limit of paths.
* A PUT whose name is too long is a 403 and leaves the parent directories it made. A PROPFIND
  with `Depth: infinity` is a 400.
* A zip whose walk fails ends as a 200 with a clean end of its body and no central directory.
* A PROPFIND, a search or a zip leaves out what an I/O error hits, of the walk or of the metadata, and
  answers 207 or 200 as if it were complete (`ListSkips`, `ZipSkips`); the zip gets its central directory.
* A MOVE or COPY that fails after it removed its destination answers 500 and leaves the destination removed, wholly or
  in part (`RemoveFails`, `Rename`, `CopyFails`).
* A COPY whose `create_dir` fails goes on; of an empty directory, it is a success that made nothing.
* An upload whose client stalls keeps its handler and its half-written file for as long as the connection lasts.
* With encryption, a PROPFIND or search that meets a file shorter than its nonce panics (or announces a wrapped size):
  the connection ends without an answer (`ListPanics`).
* A client that leaves during a save and sends its next change may have it undone by the
  older copy, or find both mixed in the file: not only a file that does not parse, but one that does, with
  a user twice or with a role too many (`Overlays`). `StoredConfigWellFormed` therefore claims unique keys only until two saves mix.
* `auto_tls` is read once for what to listen on and at each build for the scheme of
  redirects: changed and reloaded, redirects point at a scheme nobody serves (`RedirectReturns` assumes them equal).

## 5. What is proved

| Theorem | States |
|---|---|
| `AdminApiProofs!TypeCorrect` | `Spec => []TypeOK` |
| `AdminApiProofs!StoredConfigStaysWellFormed` | `Spec => []StoredConfigWellFormed` |
| `AdminApiProofs!SaversAreCurrentAdmins` | `Spec => []SaverIsCurrentAdmin` |
| `AdminApiProofs!QuietFileStaysReadable` | `Spec => []QuietFileIsReadable` |
| `AdminApiProofs!RequestsAreAtomic` | `Spec => ChangesAreAtomic` |
| `AdminApiProofs!SequentialAckedIsStoredAlways` | `Spec => []SequentialAckedIsStored` |
| `ChunkLayoutProofs!DecryptedSizeIsPlainSize` | `decrypted_size` inverts the size `copy_from` leaves on disk |
| `ChunkLayoutProofs!PositionIsExact` | `ChunkedPosition` finds every byte of every file |
| `RangeReadProofs!RangeTypeCorrect` | `Spec => []TypeOK` |
| `RangeReadProofs!WholeFileAlways` | `Spec => []WholeFile` |
| `RangeReadProofs!FailsOnlyBeyondTheEndAlways` | `Spec => []FailsOnlyBeyondTheEnd` |
| `RangeReadProofs!BodyIsTheRangeAlways` | `FilesFitUsize => (Spec => []BodyIsTheRange)` |
| `UploadStoreProofs!UploadTypeCorrect` | `Spec => []TypeOK` |
| `UploadStoreProofs!DownloadIsOneUpload` | `Spec => []BodyIsOneUpload` |
| `UploadStoreProofs!UndisturbedReadsBack` | `Spec => []AckedReadsBack` |
| `HttpLoopProofs!HttpTypeCorrect` | `Spec => []TypeOK` |
| `HttpLoopProofs!ReloadTakesEffectAlways` | `Spec => []ReloadTakesEffect` |
| `HttpLoopProofs!CutReloadTakesEffectAlways` | `Spec => []CutReloadTakesEffect` |
| `TlsLoopProofs!TlsTypeCorrect` | `Spec => []TypeOK` |
| `TlsLoopProofs!OneStaleAcceptAlways` | `Spec => []OneStaleAccept` |
| `WebdavProofs!TreeTypeCorrect` | `ZipSpec => []TypeOK` |
| `WebdavProofs!ZipTypeCorrect` | `ZipSpec => []ZipTypeOK` |
| `WebdavProofs!RefusalChangesNothingAlways` | `ZipSpec => []RefusalChangesNothing` |
| `WebdavProofs!MoveIsWholeAlways` | `ZipSpec => []MoveIsWhole` |
| `WebdavProofs!CopyIsTheTreeAlways` | `ZipSpec => [](TransfersFit => CopyIsTheTree)` |
| `WebdavProofs!AckedUploadIsThereAlways` | `ZipSpec => []AckedUploadIsThere` |
| `WebdavProofs!OneWinnerAlways` | `ZipSpec => []OneWinner` |
| `WebdavProofs!StayedIsListedAlways` | `ZipSpec => []StayedIsListed` |
| `WebdavProofs!ZipIsWholeAlways` | `ZipSpec => []ZipIsWhole` |
| `ServicesProofs!ServicesTypeCorrect` | `Spec => []TypeOK` |
| `ServicesProofs!ListedIffGrantedAlways` | `Spec => []ListedIffGranted` |
| `ServicesProofs!GrantedIsCurrentAlways` | `Spec => []GrantedIsCurrent` |
| `ServicesProofs!RedirectReturnsAlways` | `Spec => []RedirectReturns` |

Assumptions are the named ASSUMEs of the modules: sets of any size and
kind, the special values distinct, a chunk of at least one byte, a tag of at least one, lengths
below the chunk size for the rest of a body. TLC evaluates them in every run. Two hypotheses
stand in the theorems themselves. `FilesFitUsize`: every file is shorter than `usize` can count, which holds of any
file in a 64-bit build; in a 32-bit one the narrowing of `encrypted_streamer.rs:218` cuts the
body of a range of 4 GiB or more short. `TransfersFit`: the paths that the undisturbed COPY makes stay below
the limit of the file system. Otherwise it ends half-way with a 500.
It holds in every state of the run `dav`; with `MaxDepth` 2 instead of 4 TLC finds `CopyIsTheTree` violated.

**AdminApi.** None of the three invariants is inductive. The proof stacks three
predicates, each inductive given those before it. `TypeOK /\ Progress`: what a
request has gathered at each `pc` (a handler that saves has a copy that is a
`Config`). `Contents`: not only the file but *every handler's copy* is well formed;
needed because any of them may be what the file becomes. Its lemmas
on the tables say that `Upsert` and `Delete` keep a table's keys unique and that `UserToStore` never yields an empty password. `Authority`: a cookie of the
running generation names a login in `admins`, the history of whom the file has
named an admin since the build; every copy's admins are in it too, or a save could name someone
it does not know. A reload resets `admins` and, with the same step, invalidates every cookie;
`Drained` is what keeps an older generation's handler from being mid-save with its client still there.

What two saves leave in the file is a matter of sequences: a `Spliced` table holds items of the two it was made
of (`Joint`), so that no hash is lost; that keys stay unique is claimed, and proved, only of saves that do not mix, where
`Parts` is a prefix of one table.

**AdminApi, one change after another.** `Rest`: until something but `spans` has upset it, at most one connection has the file open, the
file is `Blank` exactly then, and otherwise a `Config`. `Sequence`: until anything has, at most one connection has
a change in progress, orphaned or not; its copy is the file while it waits for its body, and one change away from the file while it
saves (`Change`). A step of `AdminApi` then is a step of `AtomicConfig` (the `OpenToWrite` of a
save, where `StoredConfig` takes the value of the copy), the lapse (a step that sets `upset`), or leaves `StoredConfig` alone, which is
what the steps of the handlers, `WriteContents`, the reloads and the kills do. `Kept`, for `SequentialAckedIsStored`: what was acknowledged and not
deleted is in the file, and in the copy that is about to replace it, which has the added item besides; that an addition puts its
key in the table and takes none away is `UpsertHasKey` and `UpsertKeepsKeys`.

**ChunkLayout.** The file's length divided by the chunk size, by uniqueness of Euclidean
division (`DivisionUnique`), with the last chunk's remainder between the tag and less than a
chunk. `PositionIsExact` is over unbounded integers: that a `u64` cannot
overflow for offsets inside a file is `WordAssumption`.

**RangeRead.** The invariant of a loop. `At` is the next plaintext byte of the stream (the chunk's beginning plus what
is to be drained of it, or the place in a plain file). `PartSoFar`: what was sent are the bytes from `First` to
`At`, what remains is `Stop - At`, and the open file is at the beginning of the chunk that holds `At`; so the
chunk decrypts at the counter it is read for and is long enough for the drain (`SizedPlace`), and a turn of the loop moves
`At` to the end of the chunk or stops at `Stop` (`SizedMoves`). `SatisfiableRange`: when the file has the first byte
of a range, none of the `u64` results wraps, `lseek` accepts the offset, and the part ends inside the
file. `OpenPlace` is where `PositionIsExact` comes in. `WholeSoFar` is the same for a body without a range.
`Untroubled` carries, with that, that neither a panic nor an error is met; `Replied` says which
headers go with which `pc`. A body is a stretch `Bytes(from, to)`, and lemmas about those (concatenation, a stretch of a stretch, prefix) do all
reasoning on sequences, since an induction over the body is out of reach.

**UploadStore.** `IInv`: a cell that decrypts at all is the one its upload wrote at that place
(`GoodFile`; `WrittenGood` shows every write keeps it, whatever cells it tears),
a reader at place `at` has delivered `at - 2` chunks, and they are the first chunks
of the upload whose nonce it read. The step that matters is `EndRead`: what decrypts
under that nonce at that counter can only be that upload's next chunk.
`CleanInv`, on top of it, for `AckedReadsBack`: the file under an upload that is alone is the
cells it has written so far, plus the torn one at the end while it writes (`WrittenNext`: a write there
disturbs none of those before), so that it is complete when the upload is acknowledged; while it stays so nobody
writes, and a download that began then is at a cell of that upload until its last (`OnTrack`).
`Create` is what ends all this, for the file and for every such download at once.

**HttpLoop.** `Kept`: what was promised is never newer than the file, a server that was just built is
as new as what was promised, and one that serves may fall behind only with a message in its
receiver; the order of `Subscribe` and `Build` is what the step of `Build` needs. A reload that is cut is cut while its server drains, so that the next one is
built later: what is built or serves is as new as the last one that was cut.

**TlsLoop.** `Behind`: while the newest flag is up, and while main waits in an accept, no stale
accept has happened; since a flag is never raised again for a generation, the one accept that main waits in when
the flag falls is the last but none.

**Services.** `Dated`: a cookie of this build's key names roles its user had since the build
(`Logged`, which needs `HadInFile`, that the history contains the file), a listing of this key was made
from this map (`Listed`), and so was the last answer (`Answered`). A reload makes all of it vacuous, because no
cookie has the new key yet. That the map holds a service under its own host (`Hosted`)
needs that of several services with one host one is last (`HasGreatest`, from the well-foundedness of the
naturals).

**WebdavTree, ZipDownload.** The first part is about paths and trees: what prefixes, `Parent`, `Suffix` and
`Moved` do, and that `Placed`, `Without` and `Moved` keep a directory a tree (`Sound`) under the guards of `CanMake`,
`CanWrite` and `CanRename`. Induction over a path is out of reach; where one goes down a
tree (`EntryTowards`), a shortest path is taken by well-foundedness of the naturals. `TreeInv`: only an upload in its
write has a file open, and it is a file of the tree. `ConnInv`: at each `pc` the request is one that
`handle` dispatches there, with a path and a Destination that `extract_path` accepted. `Request`, with its
named assumptions, is what makes that true for every set of requests.
`AloneInv`: while a request that came to a quiet directory is the last that came, no other is in flight, so that every step
but a new request is its own (`AloneStep`). `QuietInv`: such a request meets `before` until its first change, which
comes after the last refusal; only the directories above an upload come before one (`Grew`). For uploads, `HandleInv`: while only requests that spare its path ran,
nobody else has its file open; `FileInv`: the file is then its own, torn until the
body is in it. Both come from `SparingStep`, which says for every handler that a request that
spares a path neither changes the file there nor opens it. `MadeInv` and `GoneInv`: while only MKCOLs,
or MOVEs of the source, are there, what the winner made stays, and what it took is gone, so that the step of the second cannot succeed.
`ListingInv`: each entry that stayed, which none that an I/O error hit did, is listed, or an entry of `todo` leads to it (`EntryTowards` again).
`ZipInv` is the same for the walk, the pipe and what the client got: `AllSent`, each file that stayed is sent as it is, held, or
under something yet to visit; `OnceEach`, no file is sent twice, because what is yet to be visited are paths of which none
is inside another and none leads to a file that was sent.
`TransferInv` follows an undisturbed MOVE or COPY from `before`: from the removal on `tree` is `before` without a part of
the destination (`PartlyRemoved`), so that whatever fails, nothing else is lost; the rename that succeeds finds `before`, or `before`
without the destination. During a copy (`Copying`), `tree` is `before` with the copy of what
is not yet in or below `todo` (`Sofar`), and `todo` holds paths of which none is inside another, each in a directory
that was copied. So each entry is still what it was, and the place for it is free and in a directory that is there
(`CopyingAt`), and one step makes the copy larger by one (`CopyingDirectory`, `CopyingFile`). That the copy of a
directory into itself does not go on for ever is the case `y = q` of it: what is below the destination is never among the sources.

Every invariant of a passing run is proved. Only model-checked: liveness (`ReloadIsServed`, `TakenSignalStops`, `ClearedFlagIsHeeded`,
`RequestEnds`, `RequestIsAnswered`, `ZipTaskEnds`), which the prover cannot do with fairness.

## 6. What could come next

1. A composition of `AdminApi` with `HttpLoop`: an acknowledged change followed by
   an acknowledged reload is served. Today `HttpLoop` has versions in the place of contents.
2. `WebdavTree` with symbolic links, and the containment check that handles them.

## 7. What is not modelled, and why

Symbolic links and the containment check (`is_root_contained`), and the parsing of names, are path handling of the
operating system. Of the proxy, the request that goes to the target is left out: its URI and Host
header are built from the map alone, and what the target does with them is not the program's. The mock services are test fixtures, the logger
and `utils.rs` have no state, and the frontend only calls the API. TLS, ACME,
argon2, ChaCha20-Poly1305, hyper and tokio are external: their behaviour is modelled
from how the code uses them and marked so in `PROJECT.json`.
