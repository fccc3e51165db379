# jiku-go in TLA+

Formal models of the program in this repository: the sync daemon that mirrors Jiku's documents in
a folder, the login it shares with other processes, event subscriptions, and what calls of the
library and of the command line do. `PROJECT.json` maps every definition to the lines of `src/` it
models, and lists the hazards of the code with the properties that cover them.

Run a model with `tlc -config DocSync_edits.cfg MCDocSync`, a proof with `tlapm DocSyncProofs.tla`.

## The system

jiku-go is a client library, a command line and a daemon for Jiku, a company's data served over a
NATS bus.

| part | source | state | what makes it correct |
|---|---|---|---|
| sync engine | `internal/docsync/engine.go`, `state.go`, `files.go`, `remote.go` | SQLite records, the feed's cursor, pending creations; in memory the timers, the uploads waiting for a lock | no edit is lost; an upload replaces only what the person saw; records say what the module has; the folder ends up a mirror |
| session supervision | `engine.go` Run, wait, online, flush; `docs_sync.go`, `status.go`, `alerts.go` | the phase, when the outage began, what was told, the watcher, debounced files, notices | an outage is told once; the status is honest; an edit is sent once the module is there; the process stops cleanly and with the right status |
| instance lock, identity | `lock_unix.go`, `paths.go`, CheckIdentity | two flocks, the state's folder, a bound folder and user | one daemon per state; moving an older version's state loses nothing |
| token refresh | `auth/device.go`, `store.go`, `store_lock_unix.go` | tokens in memory and in a file shared by processes | a rotated token is not spent twice; a live session is not taken for a dead one |
| device login | `auth/device.go` | a code, an interval, a deadline | it backs off as told; an authorised code is noticed |
| service users, OIDC | `auth/service.go`, `oidc.go` | a cached token and a discovery document, in memory and in files | no token of another credential; a moved issuer is found again |
| event consumer | `events/consumer.go` | JetStream position, error handlers | an event is acknowledged after it was handled |
| module registry | `modules/modules.go`, `nats.go` | a key-value watch, a ping | absent, down, incompatible and available are told apart |
| bus client | `client.go`, `plane.go`, `kv.go`, `iter.go`, `filter.go`, `describe.go` | a connection shared by calls, refusals, two caches, a page cursor | a call is told what became of it; a list is whole; a filter means what was typed |
| documentation client and commands | `modules/docs`, `cmd/jiku/docs*.go` | what was read, an edit's lock and working copy | a version is made from the one that was read; a retry makes one change; a link opens |
| command line | `cmd/jiku` | a batch's position, five checks of a doctor, layers of settings | the status says what happened; the last layer wins |
| frontmatter | `internal/frontmatter` | none | what was there stays |

The parts meet in the daemon: it holds a token, a bus connection and a registry watch; a session
subscribes to notifications, catches up with the change feed or lists everything, then serves
notifications, disk events and tickers from one goroutine. Hard behaviours are the ones between
that goroutine and everybody else: the editor, other people in the module, lost replies, lost
notifications, crashes between two writes, a token other processes refresh too. In the library
they are between concurrent calls on one connection (a refusal is told to the connection and not to
the call), between a list and the rows that come and go while it is read, and between a command
that got no reply, its retry, and the first request that is still on its way.

## Modules

| module | models |
|---|---|
| `DocsModule` | the documentation module as the engine sees it, external: documents, versions, locks, the feed and its retention, notifications that are delivered at most once, other people's acts |
| `DocSync` | the engine in that environment, with the person's editor and every fault |
| `Mirror` | what the daemon promises of a folder, without saying how |
| `Session`, over `Registry` | the life of the daemon around its sessions, and what the registry says of the module |
| `Startup` | how a daemon comes to own a state: locks, the move of an older version's state, identity |
| `Alerts` | desktop notices: gathered and spaced |
| `TokenRefresh` | one login shared by processes: the tokens in memory and in a file, the lock, the provider's rotation |
| `EventConsumer` | subscriptions: ordered and durable consumers, the callback, acknowledgements, the connection's error handler |
| `Bus` | concurrent calls on one connection, with refusals, drops and caches |
| `Paging`, `Contract` | the iterator over a list that changes; a typed filter, and its check against a contract |
| `ServiceToken`, `DeviceLogin` | service users and the discovery cache; the polling of `jiku login` |
| `DocsCommands`, `Links`, `Folders` | commands that change documents; attachments and shared links; `docs ls` and folders by path |
| `Frontmatter`, `Batch`, `Doctor`, `Settings` | the part of the same name |
| `MCDocSync`, `MCSession`, `MCStartup`, `MCTokenRefresh`, `MCEventConsumer` | small instances of one module |
| `MCDaemon`, `MCClients`, `MCLibrary` | small instances of several modules that share no state: a behaviour is of one of them, chosen in its first state, while the others stand still |
| `DocSyncProofs`, `TokenRefreshProofs`, `EventConsumerProofs`, `ServiceTokenProofs`, `BusProofs`, `DocsCommandsProofs` | the proofs about the module in their name |
| `DaemonProofs` | the proofs about `Session`, `Startup` and `Alerts` |
| `LibraryProofs` | the proofs about `Batch`, `Doctor`, `Settings`, `Links`, `Paging`, `DeviceLogin`, `Contract`, `Folders` and `Frontmatter` |

### DocSync

The engine is one goroutine, so a state has one document operation in progress (`op`) and one plan
(`agenda`, with `todo` for the loop it is in). An operation is cut where it reads a reply, reads a
file, writes a file or writes the database; between two steps anybody may act and the process may
die. `op.k` says where it is: `relist` (reconcileDoc), `get` (documents.get asked), `got` (its reply
in hand), `write`, `put`, `rm`, `forget`, `update`, `create`, `clear`, and the two halves of a move.
The agenda is the code's call stack at the level of a session: `list, reconcile, missing, scan,
visit, stamp` for fullReconcile, `read, apply` for catchUp, `scan, visit` for scanLocal. An agenda
that is empty in a session that is up is the `select` of `online`.

Database and disk survive a crash, the rest does not. `lastFull` is modelled by whether a full
reconciliation is due, the debounce by the set of dirty paths any of which may become due, and
contents by numbers: a document's first content is its own id, every save makes a number nobody has
written before, so that equal numbers are equal checksums. A move makes no version, a restore makes
one with the content it had, a deletion none (docs-module.md, types.go).

`HandleNote` is applyNotification, `Tick`, `Reconnected` and `FullCheck` are the other cases of the
select, `Crash`, `Unreachable`, `ReplyLost`, `RequestFails`, `FailsAfterDoing`, `Refused` and
`ListingFails` are what can go wrong: the process dies, the module stops answering, a request that
was served loses its reply and the session with it, a request fails or fails after it was served
without ending the session, the module refuses a content, a listing or a page of the feed fails.

Three constants state what the code depends on and cannot check, so that each can be switched:

- `EditorRace`: whether an editor may save between the engine's read of a file (engine.go:1004) and
  its rename or removal of it. The code has no defence, and the comment at engine.go:958 ("Local
  changes are never overwritten") does not hold with TRUE: `KeepsPromise` fails at once. FALSE in
  the runs, so that what the engine does defend against can be told.
- `RetryReturnsAny`: whether documents.new with an id the module knows answers with that document
  whatever content was sent ("returns the document", docs-module.md:180) or only for the same
  content ("the same id with the same content", ids.go:18). With TRUE a creation retried after its
  file changed records the new text's checksum against the version that holds the old one
  (engine.go:1400), and `RecordHonest` fails. FALSE in the runs.
- `DeleteCarriesVersion`: whether a deletion's entry in the feed has a version; types.go:172 says
  it has none, the engine's tests send one.

Two places are cut more coarsely than the code. `LocalChanged` reads the file, looks for the conflict
copy and stores the record without its conflict in one step (engine.go:1277-1298). `Place` has the two
outcomes of reading the file that is to be replaced which a healthy disk gives, it is there or not:
any other error of that read falls through to replacing it (engine.go:1003-1021).

Left out of `DocSync`: the echo of the engine's own writes through the watcher (it is handled and
found unchanged), folders and their permissions (every folder is known and writable, as from
contract 1.3.0), files that are not documents, paths out of scope, a file that cannot be moved
aside, the text of logs. The ids a creation can reserve run out (a bound): the file is then left
alone as in an unknown folder.

### Session, Startup, Alerts

`Session` is Run around a session that is a few steps: `at` says where the daemon is (`connects`, or
`connected` and about to watch the registry's key, `checks` the registry, `waits`, `subscribes`,
`reconciles`, `scans`, in its `loop`, inside it at a walk or an upload (`relists`, `rescans`,
`uploads`), `ends` its last turn of Run, or `exited` with a status). What a session does to documents
is `DocSync`'s; here a file is `edited` or sent, and what counts is whether anything notices it: the
watcher (`watched`, `events`), the debounce (`timers`, `ticking`, `due`), the walk at the start of a
session (`toScan`), the flush when it stops. The registry's record, told first as it is
(`PresentFirst`), the module's answers, the bus and the login change at any moment; the watch of the
key may miss a change while the bus is down (`missed`) and is read again after a reconnect.
`Registry` has Status's four answers. An outage is timed in retries.

The loop takes any case that is ready, as Go's select does, also of a daemon that was told to stop. A
due path leaves the timers before it is sent (`HandleDue`, then `ScanFile`), and a request of a
cancelled context fails: the file is in `cut` and the flush does not know of it. The notifications'
channel closes with the context (`NotesEnd`) and the registry's with it or with the connection
(`WatchEnds`), and either may be read before the context's own end. A daemon told to stop while it
connects returns 0, also after a refused login; refused before, it returns 77 (`StopConnecting`).
`WatchKey` and `Subscribe` may fail for a bus that dropped, which ends the process with status 1, or
be refused (`Refused`). `Restart` is what systemd or the person does with a process that ended: what
is on disk stays, the rest is new.

`Startup` has processes of this version and of the one that kept its state in the folder, each of
which may die at any step. The files of a state are its database and its log, which Migrate moves
one after the other; `torn` marks a folder in which a daemon died between the two renames, the one
case in which they are parted (paths.go:85-89). What was put aside (`Papers`, in `sin-acceso` of the
older folder or in `.sin-acceso`) moves as a folder or file by file, and both versions go on putting
things aside. The end of Migrate is the code's four steps: the release of the older lock, the
unlinking of its file, the removal of the folder, and what another process does between any two. A
flock is of a file, so who took the lock after its release holds a file that is then unlinked and
keeps nobody out: `stripped` marks the folder. Opening a lock file and locking it are one step.
A name that `moveAside` finds taken gets the time, so each paper keeps a name of its own; lock_other.go
(no flock off Unix) is not modelled.

`Alerts` is one kind of event on a clock of ticks.

### TokenRefresh

Each process is at one step (`at`): `idle`, or inside Token (`waits` for the lock, `reads` the file
again, `asks` the provider, `saves`) or inside Login (`stores`). DeviceFlow's mutex makes that all
there is to a process. `Ask` is Token up to the lock, `TakeLock` one poll of flock that succeeds,
`Reread` refreshShared's look at the file, `Refresh` and `Rejected` the provider's answers, `Save`
and `StoreLogin` the writes of the file, atomic because Save renames. `Answers` is how every call
ends, with the deferred unlock. Tokens are numbered by when they were issued; `honoured` is the
provider's side, external: it accepts a session's latest refresh token only, and may answer without
one (`Given`). `Locks` FALSE is store_lock_other.go. `found` remembers what was live when a refresh
looked, so that a rejection can be judged.

Faults and people, each kind once: a login with or without a refresh token, a logout, a cancelled
wait, a provider that is down or whose answer is lost, a file that cannot be written or read, a
process killed and started again. A request of a process that died is taken to have been served or
lost before the lock is free again; the interactive polling of a login is `DeviceLogin`'s.

### EventConsumer

A run is a call of SubscribeRaw (`phase`, and `done` for the channel its select reads, with the
permissions channel in it). `Subscribe` makes or finds the consumer and installs the error handler,
`Take` is the callback up to the handler, `Accept` and `Fail` the handler's end, `Return`, `Cancel`
and `Stop` the select and what is deferred. The callback goes on until `Stop`, as nats.go's does.
Ordered runs have a consumer each; durable runs share `Durable`, with `unacked` and `due` on the
server's side. `onError` is the chain of closures the connection's error handler is, each run's
`prev` the one it found. The server is external: publication, delivery, the ack wait and its
redeliveries, without a limit on them, as for a consumer made without MaxDeliver.

`Overlap` is a bound: whether two runs may be on one connection at once. `clients` has FALSE, with a
second connection whose run competes for the durable consumer, so that liveness stays within reach;
none of what it checks is about the error handler. `overlap` has TRUE: the code restores the handler it
found, which is wrong in any order but the last first, and `Watching` fails. Left out: Close, and what a
second run's different start policy does to an existing durable consumer.

### Calls of the library

`Bus`: a call is `idle`, `watching` (its watch for a refusal is set), `waits` or `done`. The server
drops what is not granted and says so on the connection; `lastError`, `reports`, `permErrs` and
`toCancel` are the stations of that message on its way to the calls of its kind. A ping and a read of
the registry (`registry`) look at the connection's last error instead, the one for its own subject, the
other for any of the bucket. The caches of the contract and of the key-value space are part of
it. A call that a drop of the connection met is not judged (`cut`).

`Paging` is the iterator over a table whose rows come and go between pages, and what a command
prints of it. `Contract` is ParseFilter, an expression a step, then the check of the filter against
the variant's names and values.

`ServiceToken`: processes with a credential each share the file of the last token and that of the
endpoints; the endpoints may move (`IssuerMoves`), which a process finds out when its exchange fails.
`DeviceLogin` is the flow's polling on a clock, with a provider that may answer late, and ask it to
slow down.

### Documents from the command line

`DocsCommands`: people and agents type commands on what they last read. A command is resolved (a path
to an id), sent, and answered or not; a request that got no reply stays on the `wire` and may be
served after its retry. Versions remember the text they were made `from`. `edit` opens a session
with a lock that is renewed while the person types, a working copy that is kept when the save fails,
and a lock that is released at the end. `lock` prints a session (`heldSessions`), under which it can be
renewed, written and released; `unlock --force` takes an edit's lock away from it. `Links` has attachments (an upload in three requests), shares
and revocations, with the history's compaction, which spares what a live link shows. `Folders` is
`docs ls`, opened folder by folder, for the three answers a caller gets about folders.

### Small machines

`Frontmatter` is Add over the shapes a document's head may have. `Batch` answers line by line while
the documentation module comes and goes. `Doctor` looks at five links in causal order while they
break and are mended. `Settings` reads three layers, for the daemon and for every other command, which
differ in what they do with a wrong value.

## Runs

Actors act a bounded number of times: `OtherActs` other people, `PersonActs` the person, `Faults`
faults, `MaxNotes` notifications buffered, `PageSize` entries in a page of the feed. The engine
itself is not bounded, and neither is any other program's part: bounds are on people, faults and
inputs. All the runs of `DocSync` and `TokenRefresh` check deadlock. `clients`, `daemon`, `library` and
the violation runs of `Session`, `Startup` and `EventConsumer` do not, because what they model really
stops: a subscription returned, a process exited, a command was answered.

| run | what it asks | instance |
|---|---|---|
| `edits` | is an edit ever lost or an unseen version replaced? | a document, 2 acts of each side, one fault of any kind |
| `twodocs` | with creations on both sides, moves, lost replies and crashes, is another file ever covered, a record ever wrong, the feed ever read past a change? | two documents, two paths |
| `settles` | is a deletion that was undone applied? does the folder become the mirror once people stop? does a deleted file come back? | a document, 2 + 1 acts, faults, a trimmed feed, lost disk events |
| `clients` | do processes that share a login log each other out, or lose its session? is an event acknowledged and never handled, stepped over, or never seen again? | 2 processes, 2 expiries, any 2 kinds of fault; an ordered run and two durable ones, 2 connections, 2 events, 2 faults |
| `daemon` | is an outage told once, the status honest, every edit sent, the process's end right? does a state serve one daemon? is a notice in time? | a file and 2 edits, 3 outside events of 9 kinds, another start among them; 2 daemons and an older one, 5 starts, 2 papers; 3 files, 9 ticks |
| `library` | is a call told what became of it, a list whole, a filter what was typed, a version made from what was read, a retry one change, a link open...? | 2 calls or people, 4 rows, 3 lines or expressions, one mishap |

What they check:

- `edits`: `CopyIsTheBase` (the conflict copy that blocks a file is the version its merge will be
  uploaded on), `UploadsOnWhatWasSeen` (an upload replaces only a version the person wrote or had in
  front of them), `KeepsPromise` (refinement of `Mirror`: what the engine takes out of a file is safe
  elsewhere).
- `twodocs`: `RecordHonest` (a record's version has the
  recorded content), `FeedApplied`, `KeepsPromise`. `settles`: `TypeOK`, `DeletionsUndone` (a deletion
  that a restore undid is not applied again; `DocSync_deletions.cfg`, beside the runs, asks it with three
  acts), `Settles`, `DeletedComesBack`.
- `clients`: `Serial`, `NotLoggedOut` (a process that found a live session in the file is not told to
  log in), `StoreLive` (the file keeps a live session unless a refresh was cut short), `LockReleased`;
  `PositionHonest` (what the durable consumer forgot was accepted), `NothingSkipped`,
  `Resumes` (a run that goes on sees what an earlier one left, unless an event that cannot be decoded
  ends it, as it ends every later durable run).
- `daemon`: `StatusHonest`, `OutageToldOnce`, `StopsWell` (a flush leaves no noticed edit behind but
  one whose upload the stop itself cut short, and a refused login ends with the status systemd does not
  restart, unless the daemon was told to stop as well), `EditsSent`; `StateServesOne`,
  `MigrationSafe` (the log goes with its database unless a daemon died between the two; an older daemon
  keeps its database and what was put aside is kept, unless a lock file was unlinked under its holder);
  `ToldInTime`.
- `library`: `CallsHonest` (a refusal is not taken for silence, nor silence for a refusal, nor a refusal
  of one bucket for one of another; one space), `SweepComplete`, `FilterMeansIt`, `RightCredential`, `MoveHeals`, `MadeFromRead`,
  `OnceEach`, `EditSafe`, `LsComplete`, `LoginHeard`, `AddKeeps`, `BatchHonest`, `LinksOpen`,
  `DoctorHonest`, `LayersHold`; each is stated with the sentence of the code it is about.

One act per actor and one fault are what a two-step hazard needs (somebody changes something
between two steps of an operation, or the operation is cut there); two acts of the same side reach
what needs a conflict first; a deletion and its
restore that a listing has passed are told again by a late notification or by the feed. Two documents
are needed for paths to collide. `FeedApplied` leaves out documents that were moved: a move that
finds another file in its way is skipped, a document that was put at the old path then takes the
record over, and only the listing of a full reconciliation heals it. It leaves retention out too: a
cursor of 0 is always valid (engine.go:1121) and then reads from where the feed starts.

`UploadsOnWhatWasSeen` is asked of `edits` only: with moves and a crash between the move of a file
and the move of its record, a new file saved at the old path is uploaded as the moved document.
The same with access that comes and goes and a crash: the file was moved aside, the record still
stands when the daemon starts again, access is back, and a file saved there since is uploaded on the
version it never showed. Changes of access without a crash, or a crash without them and moves, lead to none that TLC finds.

Two processes are what one refresh and its rival need; two expiries let each refresh once and meet the
other's result, and two faults let one undo the defence against the other (a login during a refresh, a
kill after a lost answer). Three runs are an ordered one, a durable one after it and a rival; a first
event that can be handled and a second that cannot reach every end of the callback. Two calls make a
refusal and its victim, taken in one order of their kinds, with every kind that neither has granted (what is
granted of it, or who listens to it, changes nothing); the people of `DocsCommands` are
interchangeable, and so are the processes of `ServiceToken`: nothing is theirs but what they type and
the credential they run with (a symmetry, which only safety is checked under). One mishap is a lost
reply, a kill or an expiry, or, of a credential, a fault of the issuer: each defence is against one. In `daemon`
the module of docs is registered when `Session` starts: one that is not there went before, which is an
outside event of the run. Pages of 2 over 4 rows have a page that is full, one that is cut and one that
is empty; three typed expressions have two bounds of a range and an equality in every order; three
starts are a daemon, its rival and one more after a death.

Six runs end in a violation, each a disagreement between the code and what the repository says of
it (`findings`):

- `undeleted`: a deletion without a version, read again after a restore, removes the live document;
- `twice`: a lost reply and a move make two documents of one text;
- `merge`: deleting the conflict copy starts nothing;
- `unsaved`: a live token that could not be saved gives way to the spent one in the file;
- `unwatched`: a folder made while the daemon waits is never watched;
- `overlap`: of two overlapping subscriptions, the one that goes on loses its error handler.

### Disagreements without a run

Met while modelling, where the models follow the code. For the first five a configuration is kept beside
the runs, and TLC refutes in seconds the property that states the sentence quoted:

- `DocSync_gone.cfg` (of `MCDocSync`): with a conflict recorded, a person who deletes the file and its
  copy never gets the file back (engine.go:938 restores a file only when no conflict is recorded, and
  localChanged, which would clear it, returns at engine.go:1278 for a file that does not exist), where
  docs-module.md:288 says "it comes back" (`DeletedComesBack`).
- `Session_unflushed.cfg` (`MCSession`): the session's channels close with its context, and select takes
  any case that is ready, so that a daemon told to stop may leave the loop by engine.go:687 or 692
  without the flush of engine.go:680, or take a due path whose upload is cancelled and which the flush
  no longer knows of (709-711), where engine.go:736-737 says that it "uploads the edits still waiting
  for their debounce" (`StopsClean`). `StopsWell` is what does hold: of a session that is flushed, and
  but for what the stop itself cut short. The edit is on disk, and the next start sends it.
- `Session_dropped.cfg` (`MCSession`): a bus that drops between the connection and the watch of the
  registry (engine.go:510-513), or while a session subscribes (635), ends the daemon with status 1,
  where docs-module.md:388-390 says that it "stays up, offline, and retries" (`StaysUp`).
- `Startup_parted.cfg` (`MCStartup`): a daemon that dies between the rename of the database and that of
  its log leaves the log behind for good, where paths.go:83-84 says that they go together
  (`LogNeverParted`).
- `Startup_stolen.cfg` (`MCStartup`): an older daemon that takes the lock between its release
  (paths.go:118) and its unlinking (120) holds a file that nobody else finds, and the migration of
  another instance's daemon moves its database away, where paths.go:54-56 says that it "is refused
  rather than having its database moved from under it" (`OldNeverRobbed`).
- A failed event "is NOT redelivered", says Handler's comment (consumer.go:124-126); a durable run
  acknowledges after the handler and meets it again. One that cannot be decoded ends the run, and
  every later durable one.
- A connection closed for good ends the daemon with status 0 (`StopsWhenTold`), on which systemd does
  not restart it (docs_sync.go:86-87).
- Two instances may sync the same folder with a state each (`FolderOfOneIdentity`, engine.go:28-29).
- `put` by a path writes to whatever document has that path when it is sent (`MadeFromPrevious`):
  the runs check `MadeFromRead`, which leaves those out. `rm` by a path, retried, may delete the
  document that took it.
- With no variant named, a name that two variants limit differently keeps one variant's values, in
  the order of a map, so the check may refuse a filter the server would take (`NeverRefuses`,
  describe.go:244).
- The root folder is never resolved for a person (docs.go:1044 looks for "//"); a mapping in braces or
  indented, with no key to extend, is left broken by Add; a `JIKU_TIMEOUT` that is no duration is
  dropped in silence; doctor takes core's own fault for a refusal.

### Fairness

`DayFairness`: weak fairness of the operation's steps, the agenda and the start of a session (the
loop runs as long as the process does, and systemd restarts it); strong fairness of the select's
cases, because Go's select picks among the ready ones and so serves each sooner or later though
others may go first; weak fairness of a lock's end, because locks expire. `FairSpec` adds the daily
full reconciliation; `merge` is checked without it (`DaySpec`), for a session that goes on within a
day. In `TokenRefresh`, weak fairness of a process that is inside a call: its steps are polls every
25 ms and requests with a deadline (auth.go, store_lock_unix.go). In `EventConsumer`, weak fairness
of the server's deliveries and ack waits, of the callback, of a handler (that it ends, not that it
succeeds) and of a run with a cause to return. In `Session`, weak fairness of the daemon's steps
together, not of each, and of each file's debounce timer: the loop reads something whenever something
is ready, and timers fire. Strong fairness of `Flush`: a select that picks at random does not pass over
the end of its context for ever (it may still leave by another case first). `overlap` and `undeleted`
refute safety and need none. `ClientsSpec` and `DaemonSpec` state the same of the part a behaviour is
of. Nothing is assumed of people and nothing of faults, which are bounded; a dropped connection
comes back or is reported as closed.

## Proofs

`DocSyncProofs` proves, for any documents, paths, bounds and switches:

- `Invariant`: `Spec => []IInv`;
- `TypeCorrect`: `Spec => []TypeOK`;
- `RecordsHonest`: with `~RetryReturnsAny`, `Spec => []RecordHonest`;
- `EngineKeepsPromise`: with `~EditorRace` and `~RetryReturnsAny`, `Spec` implements `Mirror`.
  Neither hypothesis can be dropped (see the constants above).

Neither the types nor `RecordHonest` is inductive. What a step will record is fixed several steps
before (`OpHonest`: what an operation carries is a version the module has), an operation is followed
only if its record is known (`OpFits`), the loops of a reconciliation depend on what the step before
them left in `todo` and `listed` (`AgendaFits`), a document has versions from its creation on
(`HistFits`), and a file about to be replaced or removed holds a version (`ReplacedIsSafe`), which
only the absence of the editor's race preserves. `IInv` is their conjunction. The proof has one
lemma per step, gathered by kind (`OpStepOK`, `JobOK`, `LoopStepOK`, `MisfortuneOK`, `PeopleOK`,
`OthersActOK`); the refinement follows from how a step of the engine can touch a file
(`EngineTouches`).

`TokenRefreshProofs`, for any processes, expiries and faults, where the lock exists (`Locks`):
`OneAtATime` (`Serial`), `SessionKept` (`StoreLive`), `NobodyLoggedOut` (`NotLoggedOut`); `TypeCorrect`
needs no lock. Neither `StoreLive` nor `NotLoggedOut` is inductive. A process that found the file's
session alive must spend that one and find it still alive (`SpendsFound`), which `Serial` gives: nobody
else rotates a token meanwhile. What a process is about to save must be honoured (`SavesLive`), so a
session that a login just opened must be known to nobody else (`OwnSession`), which needs token numbers
to be fresh (`Issued`).

`EventConsumerProofs`, for any runs, connections and events: `TypeCorrect`, `PositionKept`
(`PositionHonest`), `OrderedSkipsNothing` (`NothingSkipped`), with or without overlapping runs. They
rest on `Made` (no position moves before its consumer exists).

`DaemonProofs` has three parts. For any processes of both versions, instances, folders and users:
`ServesOne` (`StateServesOne`) and `MovesSafely` (`MigrationSafe`). A process past a lock has it
(`HoldsInstance`), so nobody else acts on its state, and what a state says of its folder and user stays
true while its daemon runs (`OwnState`). The older folder's lock is held by who is between taking and
releasing it, unless its file was unlinked under somebody (`HoldsFolder`, up to `stripped`), and what is
left in `sin-acceso` when that folder is removed is nothing (`AllMerged`). `MigrationSafe` carries these
exceptions in its own words: it says what Migrate guarantees, and `OldNeverRobbed` and `LogNeverParted`
what it does not. For any files, folders and
number of things that happen: `StatusIsHonest` (`StatusHonest`) and `OutagesToldOnce`
(`OutageToldOnce`). Where a session works there is no outage (`UpInSession`), and an outage that was
told is marked until a session works (`Marked`), which is what counts announcements against sessions.
For any files and spans with `Quiet <= MaxGather <= Every`: `TellsInTime` (`ToldInTime`). What was not
told came after the burst began and after the last notice (`WaitsInBurst`), so that either reason to
wait ends in time.

`BusProofs`, for any calls of any kinds and any drops: `ToldHonestly` (`CallsHonest`). A refusal that is
on its way, or not told, is of a kind that is not granted (`Refusals`), because grants change only with
a connection, and a connection that is back has told everything; `Awaited` says where the refusal of a
call that waits can be, and `OfItsOwn` that a refusal of its kind that is known cancels a call before it
is sent.

`ServiceTokenProofs`, for any processes, credentials and moves: `OwnToken` (`RightCredential`) and
`RetryHeals` (`MoveHeals`). A process that retries starts from no document (`RetriesAfresh`), so its
last try is of where the issuer is, or something else went wrong (`LastTry`).

`DocsCommandsProofs`, for any people, documents, paths, commands and mishaps: `VersionsMadeFromRead`
(`MadeFromRead`), `CommandsOnce` (`OnceEach`) and `EditsSafe` (`EditSafe`), all from one invariant,
`DeskInv`. A version is made when a request is served, long after the text it is made from was read, so
a request must carry what was read (`Documents`), and the requests of a command must agree with it and
with each other however often it is typed again (`Agrees`, `Command`). That a command changes things
once is that it finds its own change: `Spent` says, of each kind of command, what is no longer as it
read it. An edit has four invariants: where its requests may still be (`EditWire`; a renewal in flight
may outlive the edit), what is in the kept file (`EditText`), that the lock is its own from the lock's
answer to the save's and the document is still at the version it read (`EditHolds`), and that before
and after nothing is locked in its name (`EditLeaves`). None of the four is inductive without the
others, nor without `Numbered` and `OwnSession`: nobody else writes under an edit's session.

`LibraryProofs`, each part for any bounds of its own:

- `BatchesHonest` (`BatchHonest`): replies are in the order of the lines and say what became of them
  (`InOrder`), the line at hand is a request not answered yet (`AtHand`), and what is behind it was
  answered and, unless a failure was counted, succeeded (`CountedSoFar`).
- `DoctorsHonest` (`DoctorHonest`): what a check saw, link by link, held or was broken while doctor ran
  (`Observed`), and so what its answer means (`AnswerMeans`).
- `SettingsLayered` (`LayersHold`): what is in force is what the last layer read so far says (`ReadSoFar`).
- `LinksStayOpen` (`LinksOpen`): a caller takes a reply only to the request it waits for (`Waiting`), a
  request done is a change made (`Replied`), and the changes that count are never taken back (`Lasting`).
- `SweepsComplete` (`SweepComplete`): a row that was there all along was yielded, is left of the page
  at hand, or comes after the cursor (`Swept`); the page and what was yielded ascend (`Ascending`).
- `LoginsHeard` (`LoginHeard`): when the next poll is due, against when the last one may have missed the
  authorisation (`Timed`).
- `FiltersMeanIt` (`FilterMeansIt`): the two maps hold the conditions read so far, of which no two exclude
  each other (`ReadWell`).
- `FoldersComplete` (`LsComplete`): by induction down the path to a document, on the least folder on the way that
  was not opened.
- `AddsKeep` (`AddKeeps`): what the loop of addToSeq has after each turn (`AddedTo`), by induction on the
  turns; a second Add finds every value there (`AddedIsNotMissing`), and no key that stops it (`Ready`).

Induction over numbers and lists is by the least number that would fail (`LeastNumber`, from the
well-foundedness of `<`): the library's induction theorems take the predicate as a parameter.

In `DocSyncProofs`, after the refinement:

- `CopiesAreBases`: with `~RetryReturnsAny`, `Spec /\ []CopiesApart => []CopyIsTheBase`. The hypothesis is
  about behaviours: the copy about to be written does not have the name of one that another document's
  conflict waits for. With several documents it may: one in conflict is moved, another document at the
  same version number comes to its path, and their copies have one name (path and version, files.go)
  until the second's record is stored and the first's dropped; a crash in between leaves it so. TLC
  refutes `CopyIsTheBase` there. With one document the hypothesis is free, which is `CopyIsItsBase`.
  The invariant, `CopyInv`, adds that a conflict is named after its record's version and that an
  operation which is about to record one has written that copy.
- `UndoneStays`: with `DeleteCarriesVersion` (as in the engine's tests and the run `settles`; `undeleted` is
  what happens without), `Spec => DeletionsUndone`. The invariant, `AllPast`: a deletion in the
  feed or in a notification on its way is of a version that the document had, and has passed if the
  document is there again.
- `FeedIsApplied`: with `~RetryReturnsAny`, `DeleteCarriesVersion` and neither a trimmed feed, changed
  access nor a request that fails without ending the session (which are left to the full reconciliation),
  `Spec => []FeedApplied`. The invariant, `FeedInv`: a document's last entry says its life, place and
  version; of the entries looked at (those below `page.at` while a page is applied, below `lastSeq`
  otherwise) nothing is missing in the database but the document that the operation at hand is about to
  bring; no operation takes away or overwrites the record of a document that was looked at; the cursor
  only ever stands at a page's start; and what a listing lacks was not readable.
- `EditsOnWhatWasSeen`: with `~RetryReturnsAny`, `DeleteCarriesVersion` and no moves or changes of access
  (with a crash they break it, see the bounds), `Spec /\ [][IdsApart]_vars => UploadsOnWhatWasSeen`; the editor's
  race is allowed. The hypothesis is about behaviours again: nobody else's new document gets an id
  that is reserved here and not yet sent, which 80 random bits are for (ids.go NewID). With one initial
  document, as in `edits`, nobody creates any. The invariant, `SeenInv`: what a record holds the person saw,
  or it is in the record's file, or in the conflict copy that the record waits for, unless the
  module is past that version, so that no upload on it would be taken (`Backed`); records are where their
  documents are, no two at one path (`Rooted`); an id is reserved for one path, where its document
  then is (`Reserved`); a file about to be replaced or removed is no other record's that an upload could
  rest on (`Replaceable`); what is about to be sent or recorded is in front of the person, and the
  version that it replaces was (`SentAsSeen`); and what a listing lacks is gone (`ListedRight`). TLC
  finds no violation of it with two documents and two paths.

The assumptions are those named in the modules (`...Assumption`): kinds and sizes of the constants, no
process of both versions, spans in order.

Only model-checked: liveness (`Settles`, `DeletedComesBack`, `LockReleased`, `Resumes`, `EditsSent`,
and `LoginRefusedStops` in `StopsWell`), which is out of the prover's reach under fairness. Every safety
property of a passing run is stated by a theorem, some under the conditions named above.

## Not modelled

- Event decoding, subjects, encoding of payloads, local paths (`localPath`, `remotePath`,
  `ignoredName`), formatting of output, logs and traces: functions on text without state.
- systemd and D-Bus: datagrams; the watchdog's beats. What the units do with a status is in `Session`.
- `jiku whoami`, `describe`, `modules`, `completion`: they print a reply.
- The generator of reference pages, the benchmark and the examples.
- In `DocSync`: the folders' own table and read-only folders of contracts before 1.3.0, files that
  are not documents. `RunOnce` runs a session's start, without a flush, which `Session` has.

## Plan

Done: the engine, the shared login, the event consumer; supervision, startup and notices; calls of the
library and of the command line; the proofs of all of their safety properties.

Left, by what matters most: `EditsOnWhatWasSeen` for documents that are moved, in sessions without a
crash; `DocSync` with folders
of old contracts and files that are not documents; a refinement that ties `Session`'s session to
`DocSync`'s; a swap of two documents' paths (engine.go:1048) under a run of its own.
