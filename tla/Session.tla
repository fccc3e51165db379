------------------------------ MODULE Session -------------------------------
(***************************************************************************)
(* The life of the sync daemon around its sessions (docsync/engine.go Run, *)
(* wait, online, flush; cmd/jiku/docs_sync.go): when a session with the    *)
(* documentation module is tried, what ends it, what the person is told,   *)
(* how edits on disk are noticed and debounced, and how the process ends.  *)
(*                                                                         *)
(* What a session does to documents is DocSync's; here a file is edited or *)
(* sent.                                                                   *)
(***************************************************************************)
EXTENDS Registry, Integers, FiniteSets, SequencesExt

CONSTANTS
    Files,             \* the documents' files
    Root,              \* the synced folder
    Folders,           \* the folders in it
    Home,              \* the folder of a file
    UnavailableAfter,  \* retries until an outage is told, as engine.go's five minutes
    PingGranted,       \* may this identity ping the module?
    Acts, ActKinds,    \* bound: how many things happen outside, of which kinds
    Edits              \* bound: how often the person saves a file

ASSUME HomeAssumption == Root \notin Folders /\ Home \in [Files -> Folders \cup {Root}]
ASSUME SpanAssumption == UnavailableAfter \in Nat /\ Acts \in Nat /\ Edits \in Nat
ASSUME GrantAssumption == PingGranted \in BOOLEAN

VARIABLES
    key, answers, bus,          \* the registry's key, the module, the bus
    changes, missed,            \* what the watch of the key delivered; a change it could not
    reconnected,                \* the bus told of a reconnect
    rejected, asked,            \* the provider refused the login; the daemon is told to stop
    acts, edits,                \* bounds
    at, exit,                   \* where the daemon is, and its exit status
    record,                     \* the record its session is with
    phase,                      \* the STATUS line
    downFor,                    \* retries since the module stopped answering
    warned,                     \* what was told and is not told again
    sessionUp,                  \* does a session work?
    toScan,                     \* files the walk has not met
    folders, watched,           \* the folders on disk, those under the watcher
    edited, refused,            \* files whose content is not sent, is not accepted
    events,                     \* what the watcher has delivered
    timers, ticking, due,       \* debounced files, timers that run, timers that fired
    announced, sessions,        \* history: alerts raised, sessions that worked
    cut                         \* history: edited files it took up when it was told to stop

world == <<key, answers, bus, missed, rejected, asked, acts, edits>>
told == <<phase, downFor, warned, sessionUp, announced, sessions>>
disk == <<folders, edited, refused, cut>>
debounce == <<timers, ticking, due>>
place == <<at, exit, record, toScan>>
vars == <<world, changes, reconnected, place, told, disk, watched, events, debounce>>

NotDown == -1
Reachable == answers /\ bus = "up"
Stopping == asked \/ rejected
InSession == at \in {"loop", "relists", "rescans", "uploads"}

-----------------------------------------------------------------------------
(* What the person is told.                                                *)

Announce(kind) == announced' = [announced EXCEPT ![kind] = @ + 1]
Since == IF downFor = NotDown THEN 0 ELSE downFor

ToldAgain(p) ==
    /\ phase' = p /\ downFor' = Since /\ UNCHANGED warned
    /\ IF Since >= UnavailableAfter THEN Announce("unavailable") ELSE UNCHANGED announced
    /\ UNCHANGED sessions

\* moduleDown: an outage is told once, when it has lasted.
ModuleDown(p) ==
    LET tell == Since >= UnavailableAfter /\ "down" \notin warned IN
    /\ phase' = p /\ downFor' = Since
    /\ warned' = IF tell THEN warned \cup {"down"} ELSE warned
    /\ IF tell THEN Announce("unavailable") ELSE UNCHANGED announced
    /\ UNCHANGED sessions

\* uninstalled: told once until the module is back.
Uninstalled ==
    /\ phase' = "not_installed"
    /\ warned' = warned \cup {"uninstalled"}
    /\ IF "uninstalled" \in warned THEN UNCHANGED announced ELSE Announce("uninstalled")
    /\ UNCHANGED <<downFor, sessionUp, sessions>>

Reports(p) ==
    /\ phase' = p
    /\ UNCHANGED <<downFor, warned, sessionUp, announced, sessions>>

\* A session ends: its timers are stopped.
Leaves(where) ==
    /\ at' = where /\ toScan' = {}
    /\ timers' = {} /\ ticking' = {} /\ due' = <<>>
    /\ UNCHANGED <<exit, record>>

\* It ends because the module stopped answering.
Offline ==
    /\ Leaves("waits")
    /\ sessionUp' = FALSE
    /\ ModuleDown("unavailable")
    /\ UNCHANGED <<world, changes, disk, watched, events>>

GoesTo(where) == at' = where /\ UNCHANGED <<exit, record, toScan>>

-----------------------------------------------------------------------------
(* The process, and Run: is there a module to have a session with?         *)

Still == UNCHANGED <<world, disk, watched, events, debounce>>

\* connectRetrying.
Connect ==
    /\ at = "connects" /\ bus = "up" /\ ~Stopping
    /\ GoesTo("connected") /\ UNCHANGED <<changes, reconnected, told>> /\ Still

ConnectFails ==
    /\ at = "connects" /\ bus # "up" /\ ~Stopping
    /\ phase # "offline" /\ Reports("offline")
    /\ UNCHANGED <<changes, reconnected, place>> /\ Still

\* A refused login has a status of its own, which systemd does not restart, whatever else ended it.
StatusAtEnd == IF rejected THEN 77 ELSE 0
StatusOfError == IF rejected THEN 77 ELSE 1

Ends(status) == at' = "exited" /\ exit' = status /\ UNCHANGED <<record, toScan>>

\* The watch of the registry's key, which tells the present first. It is not tried twice.
WatchKey ==
    /\ at = "connected"
    /\ IF bus = "up" /\ ~Stopping
         THEN changes' = PresentFirst(key) /\ GoesTo("checks")
         ELSE Ends(StatusOfError) /\ UNCHANGED changes
    /\ UNCHANGED <<reconnected, told>> /\ Still

\* The loop of Run goes on while its context does.
NextTurn == IF Stopping THEN "ends" ELSE "checks"

ReconcilingAnyway == "reconciling"
\* While the module is down nothing is said to be going on until a session works.
SaidAtStart == IF downFor = NotDown THEN "reconciling" ELSE phase

CheckModule ==
    LET status == StatusOf(key, PingOf(PingGranted, answers))
        reads == bus = "up" /\ ~Stopping
    IN
    /\ at = "checks"
    /\ \/ /\ bus # "up" \/ Stopping
          /\ ModuleDown("offline")
          /\ GoesTo("waits") /\ UNCHANGED sessionUp
       \/ /\ reads /\ status = "available"
          /\ warned' = warned \ {"uninstalled"}
          /\ phase' = SaidAtStart
          /\ at' = "subscribes" /\ record' = key
          /\ UNCHANGED <<exit, toScan, downFor, sessionUp, announced, sessions>>
       \/ /\ reads /\ status = "unavailable"
          /\ ModuleDown("unavailable")
          /\ GoesTo("waits") /\ UNCHANGED sessionUp
       \/ /\ reads /\ status = "incompatible"
          /\ Reports("incompatible") /\ GoesTo("waits")
       \/ reads /\ status = "not_installed" /\ Uninstalled /\ GoesTo("waits")
    /\ UNCHANGED <<changes, reconnected>> /\ Still

-----------------------------------------------------------------------------
(* wait: until the retry interval passes or the key changes.               *)

\* A delivered change is read long before the interval passes.
Retry ==
    /\ at = "waits" /\ changes = <<>>
    /\ downFor' = IF downFor \in 0..UnavailableAfter - 1 THEN downFor + 1 ELSE downFor
    /\ UNCHANGED <<phase, warned, sessionUp, announced, sessions>>
    /\ GoesTo(NextTurn) /\ UNCHANGED <<changes, reconnected>> /\ Still

WaitReadsChange ==
    /\ at = "waits" /\ changes # <<>>
    /\ changes' = Tail(changes)
    /\ IF Decodes(Head(changes)) THEN GoesTo(NextTurn) /\ UNCHANGED told
       ELSE Uninstalled /\ UNCHANGED place
    /\ UNCHANGED reconnected /\ Still

\* Drained, so that the watcher never blocks: the next session's scan finds the edits.
Drain ==
    /\ at = "waits" /\ events # <<>>
    /\ events' = Tail(events)
    /\ UNCHANGED <<world, changes, reconnected, place, told, disk, watched, debounce>>

-----------------------------------------------------------------------------
(* online: a session starts. It subscribes, reconciles, scans the disk.    *)

\* The subscription is confirmed over the bus, the module has no part in it. One that is not
\* confirmed in time is an error like any other, and the end of the daemon.
Subscribe ==
    /\ at = "subscribes" /\ ~Stopping
    /\ UNCHANGED reconnected
    /\ \/ bus = "up" /\ GoesTo("reconciles") /\ UNCHANGED <<changes, told>> /\ Still
       \/ bus # "up" /\ Offline
       \/ bus = "down" /\ Ends(1) /\ UNCHANGED <<changes, told>> /\ Still

NoWalk(fs) == {}
Walk(fs) == {f \in Files : Home[f] \in fs \cup {Root}}

\* fullReconcile, or refreshFolders and catchUp: downloads make the folders they need,
\* and the watcher sees them made.
Reconcile ==
    /\ at \in {"reconciles", "relists"} /\ ~Stopping
    /\ UNCHANGED reconnected
    /\ IF Reachable
         THEN /\ \E new \in SUBSET (IF "folder" \in ActKinds THEN Folders \ folders ELSE {}) :
                    /\ folders' = folders \cup new
                    /\ events' = events \o SetToSeq(new)
              /\ toScan' = Walk(folders')
              /\ at' = IF at = "relists" THEN "rescans" ELSE "scans"
              /\ UNCHANGED <<world, changes, exit, record, told, edited, refused, cut, watched, debounce>>
         ELSE Offline

\* A listing that fails otherwise is logged, and the session given up.
Stumble ==
    /\ at = "reconciles" /\ "error" \in ActKinds /\ acts < Acts /\ ~Stopping
    /\ acts' = acts + 1
    /\ GoesTo("waits")
    /\ UNCHANGED <<key, answers, bus, missed, rejected, asked, edits>>
    /\ UNCHANGED <<changes, reconnected, told, disk, watched, events, debounce>>

\* localChanged, of a file the walk meets or a timer names.
Sends(f) ==
    /\ edited' = IF f \in refused THEN edited ELSE edited \ {f}
    /\ UNCHANGED <<folders, refused, cut>>

\* Once the daemon is told to stop its requests are cancelled: each is logged, and the walk goes on.
CutShort(f) ==
    /\ cut' = cut \cup ({f} \cap edited)
    /\ UNCHANGED <<folders, edited, refused>>

ScanFile(f) ==
    /\ at \in {"scans", "rescans", "uploads"} /\ f \in toScan
    /\ UNCHANGED reconnected
    /\ IF f \in edited /\ ~Reachable /\ ~Stopping THEN Offline
       ELSE /\ IF Stopping THEN CutShort(f) ELSE Sends(f)
            /\ toScan' = toScan \ {f}
            /\ UNCHANGED <<world, changes, at, exit, record, told, watched, events, debounce>>

\* The session works: moduleUp.
Online ==
    /\ at = "scans" /\ toScan = {}
    /\ phase' = "synced" /\ downFor' = NotDown /\ warned' = warned \ {"down"}
    /\ sessionUp' = TRUE /\ sessions' = sessions + 1 /\ UNCHANGED announced
    /\ GoesTo("loop") /\ UNCHANGED <<changes, reconnected>> /\ Still

-----------------------------------------------------------------------------
(* online: the loop. It takes any case that is ready, also of a daemon that  *)
(* was told to stop, and every turn ends with the STATUS line.               *)

TurnEnds(pending) == Reports(IF pending = {} THEN "synced" ELSE "uploading")

Rescanned ==
    /\ at \in {"rescans", "uploads"} /\ toScan = {}
    /\ GoesTo("loop") /\ TurnEnds(timers)
    /\ UNCHANGED <<changes, reconnected>> /\ Still

\* onDiskEvent, schedule: a file's timer starts again with each event. A new folder is
\* watched, and what is in it is scheduled.
Named(e) == IF e \in Folders THEN {f \in Files : Home[f] = e} ELSE {e}

DiskEvent ==
    /\ at = "loop" /\ events # <<>>
    /\ events' = Tail(events)
    /\ watched' = watched \cup ({Head(events)} \cap Folders)
    /\ timers' = timers \cup Named(Head(events))
    /\ ticking' = ticking \cup Named(Head(events))
    /\ TurnEnds(timers')
    /\ UNCHANGED <<world, changes, reconnected, place, disk, due>>

\* The timer's goroutine.
Fire(f) ==
    /\ InSession /\ f \in ticking
    /\ ticking' = ticking \ {f} /\ due' = Append(due, f)
    /\ UNCHANGED <<world, changes, reconnected, place, told, disk, watched, events, timers>>

\* It is off the timers before it is sent.
HandleDue ==
    /\ at = "loop" /\ due # <<>>
    /\ due' = Tail(due) /\ timers' = timers \ {Head(due)}
    /\ at' = "uploads" /\ toScan' = {Head(due)}
    /\ UNCHANGED <<world, changes, reconnected, exit, record, told, disk, watched, events, ticking>>

\* The record of another service, or no record, ends the session.
ReadChange ==
    /\ at = "loop" /\ changes # <<>>
    /\ changes' = Tail(changes)
    /\ \/ ~Decodes(Head(changes)) /\ Uninstalled /\ Leaves(NextTurn)
       \/ Decodes(Head(changes)) /\ Head(changes) # record /\ UNCHANGED told /\ Leaves(NextTurn)
       \/ Head(changes) = record /\ TurnEnds(timers) /\ UNCHANGED <<place, debounce>>
    /\ UNCHANGED <<world, reconnected, disk, watched, events>>

\* What was missed is read, and what was edited is found by a scan. A cancelled read is logged.
AfterReconnect ==
    /\ at = "loop" /\ reconnected
    /\ reconnected' = FALSE
    /\ IF Stopping THEN TurnEnds(timers) /\ UNCHANGED <<changes, place>> /\ Still
       ELSE IF Reachable
         THEN /\ at' = "rescans" /\ toScan' = Walk(folders)
              /\ UNCHANGED <<exit, record, changes, told>> /\ Still
         ELSE Offline

\* The catch-up ticker: how a module that went down is noticed.
CatchUp == at = "loop" /\ ~Stopping /\ ~Reachable /\ Offline /\ UNCHANGED reconnected

\* The daily reconciliation.
FullCheck ==
    /\ at = "loop"
    /\ Reports("reconciling") /\ GoesTo("relists")
    /\ UNCHANGED <<changes, reconnected>> /\ Still

-----------------------------------------------------------------------------
(* The end of the process.                                                 *)

\* The watch's channel closes with the connection, or with the context: a session is over, Run
\* returns.
WatchEnds ==
    /\ bus = "closed" \/ Stopping
    /\ changes = <<>>
    /\ \/ at = "loop" /\ Leaves(NextTurn)
       \/ at = "waits" /\ Ends(StatusAtEnd) /\ UNCHANGED debounce
    /\ UNCHANGED <<world, changes, reconnected, told, disk, watched, events>>

\* So does the notifications', with the context alone.
NotesEnd ==
    /\ Stopping /\ at = "loop"
    /\ Leaves("ends")
    /\ UNCHANGED <<world, changes, reconnected, told, disk, watched, events>>

\* A registry that is refused or missing does not fix itself by waiting, nor does a subscription
\* that is refused.
Refused ==
    /\ at \in {"connected", "checks", "subscribes"} /\ bus = "up"
    /\ "denied" \in ActKinds /\ acts < Acts
    /\ acts' = acts + 1
    /\ Ends(StatusOfError)
    /\ UNCHANGED <<key, answers, bus, missed, rejected, asked, edits>>
    /\ UNCHANGED <<changes, reconnected, told, disk, watched, events, debounce>>

\* Told to stop while it connects it just does, also if the login is being refused.
StopConnecting ==
    /\ at = "connects"
    /\ \/ asked /\ Ends(0)
       \/ rejected /\ Ends(77)
    /\ UNCHANGED <<changes, reconnected, told>> /\ Still

StopElsewhere ==
    /\ Stopping /\ at \in {"checks", "waits", "subscribes", "reconciles", "ends"}
    /\ Ends(StatusAtEnd)
    /\ UNCHANGED <<changes, reconnected, told>> /\ Still

\* A reconciliation inside the loop fails at its first listing once the context ended.
StopWalk ==
    /\ Stopping /\ at = "relists"
    /\ GoesTo("loop") /\ TurnEnds(timers)
    /\ UNCHANGED <<changes, reconnected>> /\ Still

OnlyTimers == timers
\* flush: what waits for its debounce, and what the watcher has delivered.
Pending == timers \cup ToSet(due) \cup (ToSet(events) \cap Files)

Flush ==
    /\ Stopping /\ at = "loop"
    /\ \E sent \in SUBSET Pending :
        /\ Reachable => sent = Pending
        /\ edited' = edited \ (sent \ refused)
    /\ phase' = IF Pending = {} THEN phase ELSE "uploading"
    /\ Ends(StatusAtEnd)
    /\ UNCHANGED <<downFor, warned, sessionUp, announced, sessions>>
    /\ UNCHANGED <<world, changes, reconnected, folders, refused, cut, watched, events, debounce>>

-----------------------------------------------------------------------------
(* The bus, the module, the provider and the person.                       *)

Happens(kind) ==
    /\ at # "exited"
    /\ kind \in ActKinds /\ acts < Acts
    /\ acts' = acts + 1
    /\ UNCHANGED <<edits, place, told, disk, watched, events, debounce>>

Watches == at \notin {"connects", "connected", "exited"}

\* The watch delivers what it can; after a reconnect, the latest value.
KeyChanges(k) ==
    /\ Happens("key") /\ k # key
    /\ key' = k
    /\ changes' = IF Watches /\ bus = "up" THEN Append(changes, k) ELSE changes
    /\ missed' = (Watches /\ bus # "up")
    /\ UNCHANGED <<answers, bus, reconnected, rejected, asked>>

ModuleGoes ==
    /\ Happens("module")
    /\ answers' = ~answers
    /\ UNCHANGED <<key, bus, changes, missed, reconnected, rejected, asked>>

BusGoes ==
    /\ Happens("bus") /\ bus = "up"
    /\ bus' = "down"
    /\ UNCHANGED <<key, answers, changes, missed, reconnected, rejected, asked>>

\* The connection is given up for good (nats.go, of a handshake refused twice).
BusCloses ==
    /\ Happens("closed") /\ bus = "down" /\ at # "connects"
    /\ bus' = "closed"
    /\ UNCHANGED <<key, answers, changes, missed, reconnected, rejected, asked>>

BusComesBack ==
    /\ bus = "down" /\ at # "exited"
    /\ bus' = "up" /\ missed' = FALSE
    /\ reconnected' = (at # "connects")
    /\ changes' = IF missed THEN Append(changes, key) ELSE changes
    /\ UNCHANGED <<key, answers, rejected, asked, acts, edits>>
    /\ UNCHANGED <<place, told, disk, watched, events, debounce>>

LoginRefused ==
    /\ Happens("login") /\ bus = "down"
    /\ rejected' = TRUE
    /\ UNCHANGED <<key, answers, bus, changes, missed, reconnected, asked>>

Terminate ==
    /\ Happens("stop")
    /\ asked' = TRUE
    /\ UNCHANGED <<key, answers, bus, changes, missed, reconnected, rejected>>

\* The module takes the content, or refuses it until it is edited again.
Edit(f) ==
    /\ edits < Edits /\ Home[f] \in folders \cup {Root}
    /\ edits' = edits + 1
    /\ edited' = edited \cup {f}
    /\ refused' \in {refused \ {f}, refused \cup {f}}
    /\ events' = IF at # "exited" /\ Home[f] \in watched THEN Append(events, f) ELSE events
    /\ UNCHANGED <<key, answers, bus, missed, rejected, asked, acts, folders, cut>>
    /\ UNCHANGED <<changes, reconnected, place, told, watched, debounce>>

\* systemd or the person starts it again: it has what is on disk, and all its folders are watched.
Restart ==
    /\ at = "exited" /\ "start" \in ActKinds /\ acts < Acts
    /\ acts' = acts + 1
    /\ bus' = (IF bus = "closed" THEN "down" ELSE bus)
    /\ changes' = <<>> /\ missed' = FALSE /\ reconnected' = FALSE
    /\ rejected' = FALSE /\ asked' = FALSE
    /\ at' = "connects" /\ exit' = -1 /\ record' = "absent" /\ toScan' = {}
    /\ phase' = "connecting" /\ downFor' = NotDown /\ warned' = {} /\ sessionUp' = FALSE
    /\ watched' = folders \cup {Root}
    /\ events' = <<>> /\ timers' = {} /\ ticking' = {} /\ due' = <<>>
    /\ announced' = [kind \in {"unavailable", "uninstalled"} |-> 0] /\ sessions' = 0 /\ cut' = {}
    /\ UNCHANGED <<key, answers, edits, folders, edited, refused>>

Environment ==
    \/ \E k \in Keys : KeyChanges(k)
    \/ ModuleGoes \/ BusGoes \/ BusCloses \/ BusComesBack \/ LoginRefused \/ Terminate
    \/ Restart
    \/ \E f \in Files : Edit(f)

-----------------------------------------------------------------------------
\* WatchLocal comes before the connection: no edit is missed meanwhile.
Init ==
    /\ key \in {"docs", "absent"} /\ answers = TRUE /\ bus \in {"up", "down"}
    /\ changes = <<>> /\ missed = FALSE /\ reconnected = FALSE
    /\ rejected = FALSE /\ asked = FALSE /\ acts = 0 /\ edits = 0
    /\ at = "connects" /\ exit = -1 /\ record = "absent" /\ toScan = {}
    /\ phase = "connecting" /\ downFor = NotDown /\ warned = {} /\ sessionUp = FALSE
    /\ folders = (IF "folder" \in ActKinds THEN {} ELSE Folders)
    /\ watched = folders \cup {Root}
    /\ edited = {} /\ refused = {} /\ events = <<>>
    /\ timers = {} /\ ticking = {} /\ due = <<>>
    /\ announced = [kind \in {"unavailable", "uninstalled"} |-> 0] /\ sessions = 0 /\ cut = {}

Step ==
    \/ Connect \/ ConnectFails \/ WatchKey \/ CheckModule \/ Retry \/ WaitReadsChange \/ Drain
    \/ Subscribe \/ Reconcile \/ (\E f \in Files : ScanFile(f)) \/ Online \/ Rescanned
    \/ DiskEvent \/ HandleDue \/ ReadChange \/ AfterReconnect \/ CatchUp
    \/ WatchEnds \/ NotesEnd \/ StopConnecting \/ StopElsewhere \/ StopWalk \/ Flush

Next ==
    \/ Step \/ (\E f \in Files : Fire(f)) \/ FullCheck \/ Stumble \/ Refused
    \/ Environment

Spec == Init /\ [][Next]_vars

\* The daemon goes on while it can, timers fire, and a loop that picks at random among what is ready
\* does not pass over the end of its context for ever.
FairSpec == Spec /\ WF_vars(Step) /\ SF_vars(Flush) /\ \A f \in Files : WF_vars(Fire(f))

-----------------------------------------------------------------------------
(* Properties.                                                             *)

Phases == {"connecting", "offline", "unavailable", "not_installed", "incompatible",
           "reconciling", "uploading", "synced"}

TypeOK ==
    /\ key \in Keys /\ answers \in BOOLEAN /\ bus \in {"up", "down", "closed"}
    /\ changes \in Seq(Keys) /\ missed \in BOOLEAN /\ reconnected \in BOOLEAN
    /\ rejected \in BOOLEAN /\ asked \in BOOLEAN /\ acts \in Nat /\ edits \in Nat
    /\ at \in {"connects", "connected", "checks", "waits", "subscribes", "reconciles", "scans", "loop",
               "relists", "rescans", "uploads", "ends", "exited"}
    /\ exit \in {-1, 0, 1, 77} /\ record \in Keys /\ toScan \subseteq Files
    /\ phase \in Phases /\ downFor \in NotDown..UnavailableAfter
    /\ warned \subseteq {"down", "uninstalled"}
    /\ sessionUp \in BOOLEAN /\ folders \subseteq Folders /\ watched \subseteq Folders \cup {Root}
    /\ edited \subseteq Files /\ refused \subseteq Files /\ cut \subseteq Files
    /\ events \in Seq(Files \cup Folders)
    /\ timers \subseteq Files /\ ticking \subseteq Files /\ due \in Seq(Files)
    /\ announced \in [{"unavailable", "uninstalled"} -> Nat] /\ sessions \in Nat

\* The STATUS line says the module is fine only while a session works, and never during
\* an outage, however many sessions are tried (engine.go:618-621).
StatusHonest ==
    /\ phase \in {"synced", "uploading"} => sessionUp
    /\ downFor # NotDown => phase \notin {"synced", "uploading", "reconciling"}

\* EventUnavailable is raised once per outage (engine.go:360-361): between two of them a
\* session worked.
OutageToldOnce == announced["unavailable"] <= sessions + 1

\* A daemon told to stop while its session is up "uploads the edits still waiting for their debounce"
\* (engine.go:736-737): none of those is left when the session is over.
StopsClean ==
    [][InSession /\ ~InSession' /\ Stopping /\ Reachable => timers \cap edited' \subseteq refused']_vars

Usable == Reachable /\ key \in {"docs", "docs2"}

\* An edit reaches the module once there is one, whatever the daemon was doing when the
\* file was saved ("uploaded 2 s after the file stops changing", docs_sync.go:62).
EditsSent ==
    \A f \in Files :
        f \in edited \ refused ~> \/ f \notin edited \ refused
                                  \/ at = "exited" \/ ~Usable

Noticed(f) == f \notin refused /\ Home[f] \in watched

\* A flush leaves no noticed edit behind but of the files whose upload the stop itself cut short.
FlushClean ==
    [][at = "loop" /\ at' = "exited" /\ Reachable => \A f \in edited' : Noticed(f)' => f \in cut']_vars

\* A refused login ends the daemon with the status systemd does not restart, unless it was told to
\* stop as well.
LoginRefusedStops == rejected ~> exit = 77 \/ (asked /\ exit # -1)

\* How the process ends: with no noticed edit left behind by a flush, and with the status that says
\* why.
StopsWell == FlushClean /\ LoginRefusedStops

\* "Zitadel or the bus being out of reach is not an error: the daemon stays up, offline, and retries"
\* (docs-module.md:388-389).
StaysUp == exit = 1 => bus = "up"

\* Status 0 says it stopped because it was told to; systemd restarts it only on 1
\* (docs_sync.go:86-87).
StopsWhenTold == exit = 0 => asked
=============================================================================
