------------------------------ MODULE Startup -------------------------------
(***************************************************************************)
(* How a sync daemon comes to own a state and a folder (docsync/paths.go,  *)
(* lock_unix.go, engine.go CheckIdentity, docs_sync.go): one lock per      *)
(* instance, the move of what an older version kept in the folder, the     *)
(* state's folder and identity.  Daemons start, stop and die at any step.  *)
(***************************************************************************)
EXTENDS Integers, FiniteSets

CONSTANTS
    Daemons,       \* processes of this version
    Olds,          \* processes of the version that kept its state in the folder
    Instances, Roots, Users,
    InstanceOf, RootOf, UserOf,
    Papers,        \* files of documents that are no longer readable
    Nobody,
    Starts         \* bound: how often a process is started

ASSUME StartupAssumption ==
    /\ Daemons \cap Olds = {} /\ Nobody \notin Daemons \cup Olds /\ Starts \in Nat
    /\ InstanceOf \in [Daemons -> Instances]
    /\ RootOf \in [Daemons \cup Olds -> Roots] /\ UserOf \in [Daemons \cup Olds -> Users]

VARIABLES
    stage,         \* per process, where it is
    instanceLock, folderLock,   \* the flocks: sync.lock, .jiku-docs/lock
    legacyDir,     \* is there a .jiku-docs?
    legacy,        \* per folder, the files in it: the state's and the lock's
    legacyWho,     \* whose state it is
    asides, noAccess,           \* .jiku-docs/sin-acceso, and .sin-acceso: what is put aside
    state,         \* per instance, the files of its state
    boundTo, claimed,           \* its folder and its user, in it
    starts,
    torn,          \* history: folders whose state was being moved when a daemon died
    stripped,      \* history: folders whose lock file was unlinked while it was held
    put            \* history: what was ever put aside in a folder

locks == <<instanceLock, folderLock>>
aside == <<asides, noAccess, put>>
older == <<legacyDir, legacy, legacyWho, aside, torn, stripped>>
startupVars == <<stage, locks, older, state, boundTo, claimed, starts>>

Migrating == {"moves", "moveswal", "moved", "merged", "asided"}
Stages == Migrating \cup {"off", "starts", "locked", "found", "released", "unlinked", "opens", "checks", "runs"}

\* lockFile: the kernel's, and released however the process exits. A lock is of a file, and
\* folderLock of the one that the folder has now: who holds one that was unlinked keeps nobody out.
\* (To open the file and to lock it are one step: with the unlink in between the lock is of a file
\* that is not there either.)
Taken(lock, x) == lock[x] # Nobody
Drops(lock, p) == [x \in DOMAIN lock |-> IF lock[x] = p THEN Nobody ELSE lock[x]]

Leave(p) ==
    /\ stage' = [stage EXCEPT ![p] = "off"]
    /\ instanceLock' = Drops(instanceLock, p) /\ folderLock' = Drops(folderLock, p)

Advance(p, where) == stage' = [stage EXCEPT ![p] = where]

Start(p) ==
    /\ stage[p] = "off" /\ starts < Starts
    /\ starts' = starts + 1
    /\ Advance(p, "starts")
    /\ UNCHANGED <<locks, older, state, boundTo, claimed>>

-----------------------------------------------------------------------------
(* A daemon of this version.                                               *)

Unlocked(d) ==
    /\ stage[d] = "starts"
    /\ Advance(d, "locked")
    /\ UNCHANGED <<locks, older, state, boundTo, claimed, starts>>

\* The instance lock first: a second daemon leaves without touching a file.
LockInstance(d) ==
    LET i == InstanceOf[d] IN
    /\ stage[d] = "starts"
    /\ IF Taken(instanceLock, i) THEN Leave(d)
       ELSE /\ instanceLock' = [instanceLock EXCEPT ![i] = d]
            /\ Advance(d, "locked") /\ UNCHANGED folderLock
    /\ UNCHANGED <<older, state, boundTo, claimed, starts>>

\* Migrate: what an older version left.
FindLegacy(d) ==
    /\ stage[d] = "locked"
    /\ Advance(d, IF legacyDir[RootOf[d]] THEN "found" ELSE "opens")
    /\ UNCHANGED <<locks, older, state, boundTo, claimed, starts>>

\* A daemon that still runs on the folder is in the way.
LockFolder(d) ==
    LET r == RootOf[d] IN
    /\ stage[d] = "found"
    /\ IF ~legacyDir[r] \/ Taken(folderLock, r) THEN Leave(d) /\ UNCHANGED legacy
       ELSE /\ legacy' = [legacy EXCEPT ![r] = @ \cup {"lock"}]
            /\ folderLock' = [folderLock EXCEPT ![r] = d]
            /\ Advance(d, "moves") /\ UNCHANGED instanceLock
    /\ UNCHANGED <<legacyDir, legacyWho, aside, torn, stripped, state, boundTo, claimed, starts>>

\* The database, never over one that is there; then its log, which holds its last writes.  A rename
\* that fails ends the daemon as a death here does.
MoveDb(d) ==
    LET r == RootOf[d]  i == InstanceOf[d] IN
    /\ stage[d] = "moves"
    /\ IF "db" \in legacy[r] /\ "db" \notin state[i]
         THEN /\ legacy' = [legacy EXCEPT ![r] = @ \ {"db"}]
              /\ state' = [state EXCEPT ![i] = @ \cup {"db"}]
              /\ boundTo' = [boundTo EXCEPT ![i] = Nobody]
              /\ claimed' = [claimed EXCEPT ![i] = legacyWho[r]]
              /\ Advance(d, "moveswal")
         ELSE Advance(d, "moved") /\ UNCHANGED <<legacy, state, boundTo, claimed>>
    /\ UNCHANGED <<locks, legacyDir, legacyWho, aside, torn, stripped, starts>>

LeavesWal(d) ==
    /\ stage[d] = "moveswal" /\ Advance(d, "moved")
    /\ UNCHANGED <<locks, older, state, boundTo, claimed, starts>>

MoveWal(d) ==
    LET r == RootOf[d]  i == InstanceOf[d] IN
    /\ stage[d] = "moveswal"
    /\ legacy' = [legacy EXCEPT ![r] = @ \ {"wal"}]
    /\ state' = [state EXCEPT ![i] = @ \cup (legacy[r] \cap {"wal"})]
    /\ Advance(d, "moved")
    /\ UNCHANGED <<locks, legacyDir, legacyWho, aside, torn, stripped, boundTo, claimed, starts>>

\* What was put aside: the folder as it is where there is none, or else file by file, never over one.
MoveAsides(d) ==
    LET r == RootOf[d] IN
    /\ stage[d] = "moved"
    /\ \/ /\ asides[r] = {} \/ noAccess[r] = {}
          /\ noAccess' = [noAccess EXCEPT ![r] = @ \cup asides[r]]
          /\ asides' = [asides EXCEPT ![r] = {}]
          /\ Advance(d, "asided")
       \/ noAccess[r] # {} /\ \E paper \in asides[r] :
          /\ noAccess' = [noAccess EXCEPT ![r] = @ \cup {paper}]
          /\ asides' = [asides EXCEPT ![r] = @ \ {paper}]
          /\ Advance(d, IF asides'[r] = {} THEN "merged" ELSE "moved")
    /\ UNCHANGED <<locks, legacyDir, legacy, legacyWho, torn, stripped, put, state, boundTo, claimed, starts>>

\* The folder they were in goes, with what is in it by then.
RemoveAsides(d) ==
    /\ stage[d] = "merged"
    /\ asides' = [asides EXCEPT ![RootOf[d]] = {}]
    /\ Advance(d, "asided")
    /\ UNCHANGED <<locks, legacyDir, legacy, legacyWho, noAccess, put, torn, stripped, state, boundTo, claimed, starts>>

Release(d) ==
    /\ stage[d] = "asided"
    /\ folderLock' = Drops(folderLock, d)
    /\ Advance(d, "released")
    /\ UNCHANGED <<instanceLock, older, state, boundTo, claimed, starts>>

\* By then the file may be another's lock.
UnlinkLock(d) ==
    LET r == RootOf[d] IN
    /\ stage[d] = "released"
    /\ legacy' = [legacy EXCEPT ![r] = @ \ {"lock"}]
    /\ stripped' = IF Taken(folderLock, r) THEN stripped \cup {r} ELSE stripped
    /\ folderLock' = [folderLock EXCEPT ![r] = Nobody]
    /\ Advance(d, "unlinked")
    /\ UNCHANGED <<instanceLock, legacyDir, legacyWho, aside, torn, state, boundTo, claimed, starts>>

\* Removed only if nothing is left in it.
RemoveFolder(d) ==
    LET r == RootOf[d] IN
    /\ stage[d] = "unlinked"
    /\ legacyDir' = [legacyDir EXCEPT ![r] = @ /\ legacy[r] \cup asides[r] # {}]
    /\ Advance(d, "opens")
    /\ UNCHANGED <<locks, legacy, legacyWho, aside, torn, stripped, state, boundTo, claimed, starts>>

\* OpenBound: a state made for another folder is set aside and a fresh one started.
OpenBound(d) ==
    LET i == InstanceOf[d]  r == RootOf[d] IN
    /\ stage[d] = "opens"
    /\ state' = [state EXCEPT ![i] = {"db", "wal"}]
    /\ claimed' = IF boundTo[i] \in {Nobody, r} THEN claimed ELSE [claimed EXCEPT ![i] = Nobody]
    /\ boundTo' = [boundTo EXCEPT ![i] = r]
    /\ Advance(d, "checks")
    /\ UNCHANGED <<locks, older, starts>>

\* CheckIdentity: a state of another identity is refused, a fresh one claimed.
CheckIdentity(d) ==
    LET i == InstanceOf[d] IN
    /\ stage[d] = "checks"
    /\ IF claimed[i] \in {Nobody, UserOf[d]}
         THEN /\ claimed' = [claimed EXCEPT ![i] = UserOf[d]]
              /\ Advance(d, "runs") /\ UNCHANGED <<locks, state>>
         ELSE Leave(d) /\ state' = [state EXCEPT ![i] = {"db"}] /\ UNCHANGED claimed
    /\ UNCHANGED <<older, boundTo, starts>>

\* What the person may no longer read is put aside.
PutsAside(d) ==
    LET r == RootOf[d] IN
    /\ stage[d] = "runs"
    /\ \E paper \in Papers \ put[r] :
        /\ noAccess' = [noAccess EXCEPT ![r] = @ \cup {paper}]
        /\ put' = [put EXCEPT ![r] = @ \cup {paper}]
    /\ UNCHANGED <<stage, locks, legacyDir, legacy, legacyWho, asides, torn, stripped, state, boundTo, claimed, starts>>

\* Closing the database writes its log into it.
Quit(d) ==
    /\ stage[d] = "runs"
    /\ state' = [state EXCEPT ![InstanceOf[d]] = {"db"}]
    /\ Leave(d)
    /\ UNCHANGED <<older, boundTo, claimed, starts>>

Die(p) ==
    /\ stage[p] # "off"
    /\ torn' = IF stage[p] = "moveswal" THEN torn \cup {RootOf[p]} ELSE torn
    /\ Leave(p)
    /\ UNCHANGED <<legacyDir, legacy, legacyWho, aside, stripped, state, boundTo, claimed, starts>>

-----------------------------------------------------------------------------
(* A daemon of the older version: its state and its lock are in the folder. *)

OldRuns(o) ==
    LET r == RootOf[o] IN
    /\ stage[o] = "starts"
    /\ legacyDir' = [legacyDir EXCEPT ![r] = TRUE]
    /\ IF Taken(folderLock, r) THEN Leave(o) /\ UNCHANGED <<legacy, legacyWho>>
       ELSE /\ folderLock' = [folderLock EXCEPT ![r] = o] /\ UNCHANGED instanceLock
            /\ legacy' = [legacy EXCEPT ![r] = {"db", "wal", "lock"}]
            /\ legacyWho' = [legacyWho EXCEPT ![r] = UserOf[o]]
            /\ Advance(o, "runs")
    /\ UNCHANGED <<aside, torn, stripped, state, boundTo, claimed, starts>>

OldPutsAside(o) ==
    LET r == RootOf[o] IN
    /\ stage[o] = "runs"
    /\ \E paper \in Papers \ put[r] :
        /\ asides' = [asides EXCEPT ![r] = @ \cup {paper}]
        /\ put' = [put EXCEPT ![r] = @ \cup {paper}]
    /\ UNCHANGED <<stage, locks, legacyDir, legacy, legacyWho, noAccess, torn, stripped, state, boundTo, claimed, starts>>

OldQuits(o) ==
    /\ stage[o] = "runs"
    /\ legacy' = [legacy EXCEPT ![RootOf[o]] = @ \ {"wal"}]
    /\ Leave(o)
    /\ UNCHANGED <<legacyDir, legacyWho, aside, torn, stripped, state, boundTo, claimed, starts>>

-----------------------------------------------------------------------------
StartupInit ==
    /\ stage = [p \in Daemons \cup Olds |-> "off"]
    /\ instanceLock = [i \in Instances |-> Nobody] /\ folderLock = [r \in Roots |-> Nobody]
    /\ legacyDir = [r \in Roots |-> FALSE] /\ legacy = [r \in Roots |-> {}]
    /\ legacyWho = [r \in Roots |-> Nobody]
    /\ asides = [r \in Roots |-> {}] /\ noAccess = [r \in Roots |-> {}] /\ put = [r \in Roots |-> {}]
    /\ state = [i \in Instances |-> {}]
    /\ boundTo = [i \in Instances |-> Nobody] /\ claimed = [i \in Instances |-> Nobody]
    /\ starts = 0 /\ torn = {} /\ stripped = {}

StartupNext ==
    \/ \E p \in Daemons \cup Olds : Start(p) \/ Die(p)
    \/ \E o \in Olds : OldRuns(o) \/ OldPutsAside(o) \/ OldQuits(o)
    \/ \E d \in Daemons :
        \/ LockInstance(d) \/ FindLegacy(d) \/ LockFolder(d) \/ MoveDb(d) \/ MoveWal(d)
        \/ MoveAsides(d) \/ RemoveAsides(d) \/ Release(d) \/ UnlinkLock(d) \/ RemoveFolder(d)
        \/ OpenBound(d) \/ CheckIdentity(d) \/ PutsAside(d) \/ Quit(d)

StartupSpec == StartupInit /\ [][StartupNext]_startupVars

-----------------------------------------------------------------------------
Serving == {d \in Daemons : stage[d] = "runs"}

\* One daemon per instance touches its state, and it is the state of its folder and of
\* its user (docs-module.md:344-347).
StateServesOne ==
    \A d \in Daemons :
        /\ stage[d] \in Stages \ {"off", "starts"} => instanceLock[InstanceOf[d]] = d
        /\ stage[d] = "runs" => /\ boundTo[InstanceOf[d]] = RootOf[d]
                                /\ claimed[InstanceOf[d]] = UserOf[d]

\* The log goes with its database: the last committed writes are in it (paths.go:83-84). A daemon
\* that is between the two has both locks, and one that died there has left them apart.
LogFollows ==
    \A r \in Roots :
        "wal" \in legacy[r] =>
            \/ "db" \in legacy[r] \/ r \in torn
            \/ \E d \in Daemons : stage[d] = "moveswal" /\ RootOf[d] = r

\* A daemon of the older version that has a lock which others can find does not have its database
\* moved from under it (paths.go:54-56).
OldUndisturbed ==
    \A o \in Olds : stage[o] = "runs" => RootOf[o] \in stripped \/ "db" \in legacy[RootOf[o]]

\* What was put aside is "moved, never deleted: the person may still need what they had"
\* (paths.go:43-44), whichever version did it.
AsidesKept == \A r \in Roots : r \in stripped \/ put[r] \subseteq asides[r] \cup noAccess[r]

\* The move of an older version's state parts, takes and loses nothing, while every daemon on the
\* folder has the lock file that is in it, and none dies between two renames.
MigrationSafe == LogFollows /\ OldUndisturbed /\ AsidesKept

\* "The WAL and the shared-memory index go with it, or the last committed writes would stay behind"
\* (paths.go:83-84), once no daemon is between the two.
LogNeverParted ==
    \A r \in Roots :
        "wal" \in legacy[r] =>
            "db" \in legacy[r] \/ \E d \in Daemons : stage[d] = "moveswal" /\ RootOf[d] = r

\* "A daemon of the previous version still running on the folder is refused rather than having its
\* database moved from under it" (paths.go:55-56).
OldNeverRobbed == \A o \in Olds : stage[o] = "runs" => "db" \in legacy[RootOf[o]]

\* "A folder synced for one identity refuses another" (engine.go:29), an identity being
\* an instance and a user.
FolderOfOneIdentity ==
    \A d, e \in Serving : RootOf[d] = RootOf[e] =>
        InstanceOf[d] = InstanceOf[e] /\ UserOf[d] = UserOf[e]
=============================================================================
