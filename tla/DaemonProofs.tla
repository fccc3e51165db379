---------------------------- MODULE DaemonProofs ----------------------------
(***************************************************************************)
(* Proofs about the parts of the sync daemon: what its session tells the   *)
(* person (Session), which daemon works on which state (Startup), and when *)
(* what happened to a file is told (Alerts).                               *)
(***************************************************************************)
EXTENDS Session, Alerts, Startup, TLAPS

-----------------------------------------------------------------------------
(* The session, for any files, folders, acts and bounds: the STATUS line is *)
(* honest and an outage is told once.                                       *)

ToldType ==
    /\ downFor \in Int /\ sessions \in Nat
    /\ announced \in [{"unavailable", "uninstalled"} -> Nat]

\* A session that works is nobody's outage.
UpInSession == InSession => sessionUp /\ downFor = NotDown

\* An outage that was told is marked, and the mark goes only when a session works.
Marked == announced["unavailable"] <= IF "down" \in warned THEN sessions + 1 ELSE sessions

SessionInv == ToldType /\ UpInSession /\ StatusHonest /\ Marked

\* What moduleDown tells keeps the invariant, wherever it leads but into a session.
LEMMA Down ==
    ASSUME SessionInv, NEW p \in {"offline", "unavailable"}, ModuleDown(p),
           ~InSession'
    PROVE  SessionInv'
<1> USE SpanAssumption DEF NotDown, Since
<1>1. ToldType'
  BY DEF SessionInv, ToldType, ModuleDown, Announce
<1>2. UpInSession' /\ StatusHonest'
  BY <1>1 DEF UpInSession, StatusHonest, ModuleDown
<1>3. Marked'
  <2>1. CASE Since >= UnavailableAfter /\ "down" \notin warned
    <3>1. /\ announced' = [announced EXCEPT !["unavailable"] = @ + 1]
          /\ warned' = warned \cup {"down"} /\ sessions' = sessions
      BY <2>1 DEF ModuleDown, Announce
    <3>2. announced["unavailable"] <= sessions
      BY <2>1 DEF SessionInv, Marked
    <3>3. QED
      BY <3>1, <3>2 DEF SessionInv, ToldType, Marked
  <2>2. CASE ~(Since >= UnavailableAfter /\ "down" \notin warned)
    BY <2>2 DEF SessionInv, Marked, ModuleDown
  <2>3. QED
    BY <2>1, <2>2
<1>4. QED
  BY <1>1, <1>2, <1>3 DEF SessionInv

\* The end of a session because the module stopped answering.
LEMMA OfflineOK == ASSUME SessionInv, Offline PROVE SessionInv'
<1>1. at' = "waits" /\ ModuleDown("unavailable")
  BY DEF Offline, Leaves
<1>2. QED
  BY <1>1, Down DEF InSession

\* A module that is gone is told, and nothing says that it works.
LEMMA UninstalledOK ==
    ASSUME SessionInv, Uninstalled, ~InSession'
    PROVE  SessionInv'
BY DEF SessionInv, ToldType, UpInSession, StatusHonest, Marked, Uninstalled, Announce, NotDown

\* A step that tells nothing, or only a line that fits where the daemon is.
LEMMA OnlyALine ==
    ASSUME SessionInv, UNCHANGED <<downFor, sessionUp, announced, sessions>>,
           ("down" \in warned') <=> ("down" \in warned),
           InSession' => InSession,
           \/ phase' = phase
           \/ phase' \notin {"synced", "uploading", "reconciling"}
           \/ phase' = "reconciling" /\ downFor = NotDown
           \/ InSession
    PROVE  SessionInv'
BY DEF SessionInv, ToldType, UpInSession, StatusHonest, Marked, NotDown

\* The start of the process, and the checks between two sessions.
LEMMA Between ==
    ASSUME SessionInv, Connect \/ ConnectFails \/ WatchKey \/ CheckModule \/ Retry \/ WaitReadsChange \/ Drain
    PROVE  SessionInv'
<1> USE DEF told, place, GoesTo, Reports, InSession
<1>0. CASE WatchKey
  BY <1>0, OnlyALine DEF WatchKey, Ends
<1>1. CASE Connect
  BY <1>1, OnlyALine DEF Connect
<1>2. CASE ConnectFails
  BY <1>2, OnlyALine DEF ConnectFails
<1>3. CASE CheckModule
  <2>1. CASE ModuleDown("offline") /\ at' = "waits"
    BY <2>1, Down
  <2>2. CASE ModuleDown("unavailable") /\ at' = "waits"
    BY <2>2, Down
  <2>3. CASE phase' = SaidAtStart /\ at' = "subscribes" /\ warned' = warned \ {"uninstalled"}
             /\ UNCHANGED <<downFor, sessionUp, announced, sessions>>
    BY <2>3, OnlyALine DEF SaidAtStart
  <2>4. CASE Reports("incompatible") /\ at' = "waits"
    BY <2>4, OnlyALine
  <2>5. CASE Uninstalled /\ at' = "waits"
    BY <2>5, UninstalledOK
  <2>6. QED
    BY <1>3, <2>1, <2>2, <2>3, <2>4, <2>5 DEF CheckModule
<1>4. CASE Retry
  BY <1>4, SpanAssumption DEF Retry, NextTurn, SessionInv, ToldType, UpInSession, StatusHonest, Marked, NotDown
<1>5. CASE WaitReadsChange
  <2>1. CASE at' \in {"checks", "ends"} /\ UNCHANGED told
    BY <2>1, OnlyALine
  <2>2. CASE at' = "waits" /\ Uninstalled
    BY <2>2, UninstalledOK
  <2>3. QED
    BY <1>5, <2>1, <2>2 DEF WaitReadsChange, NextTurn
<1>6. CASE Drain
  BY <1>6, OnlyALine DEF Drain
<1>7. QED
  BY <1>0, <1>1, <1>2, <1>3, <1>4, <1>5, <1>6

\* The start of a session, up to its loop.
LEMMA Starting ==
    ASSUME SessionInv, Subscribe \/ Reconcile \/ Stumble \/ (\E f \in Files : ScanFile(f)) \/ Online \/ Rescanned
    PROVE  SessionInv'
<1> USE DEF told, place, GoesTo, Reports, TurnEnds, InSession
<1>1. CASE Offline
  BY <1>1, OfflineOK
<1>2. CASE Subscribe
  BY <1>1, <1>2, OnlyALine DEF Subscribe, Ends
<1>3. CASE Reconcile
  BY <1>1, <1>3, OnlyALine DEF Reconcile
<1>4. CASE Stumble
  BY <1>4, OnlyALine DEF Stumble
<1>5. CASE \E f \in Files : ScanFile(f)
  <2>1. PICK f \in Files : ScanFile(f)
    BY <1>5
  <2>2. CASE UNCHANGED <<at, told>>
    BY <2>2, OnlyALine
  <2>3. QED
    BY <1>1, <2>1, <2>2 DEF ScanFile
<1>6. CASE Online
  <2>1. /\ phase' = "synced" /\ downFor' = NotDown /\ warned' = warned \ {"down"} /\ sessionUp'
        /\ sessions' = sessions + 1 /\ announced' = announced
    BY <1>6 DEF Online
  <2>2. announced["unavailable"] <= sessions + 1
    BY DEF SessionInv, ToldType, Marked
  <2>3. QED
    BY <2>1, <2>2 DEF SessionInv, ToldType, UpInSession, StatusHonest, Marked, NotDown
<1>7. CASE Rescanned
  BY <1>7, OnlyALine DEF Rescanned
<1>8. QED
  BY <1>2, <1>3, <1>4, <1>5, <1>6, <1>7

\* The turns of the loop.
LEMMA Turning ==
    ASSUME SessionInv, DiskEvent \/ HandleDue \/ ReadChange \/ AfterReconnect \/ CatchUp \/ FullCheck
                  \/ (\E f \in Files : Fire(f))
    PROVE  SessionInv'
<1> USE DEF told, place, GoesTo, Reports, TurnEnds, InSession
<1>1. CASE Offline
  BY <1>1, OfflineOK
<1>2. CASE DiskEvent
  BY <1>2, OnlyALine DEF DiskEvent
<1>3. CASE HandleDue
  BY <1>1, <1>3, OnlyALine DEF HandleDue
<1>4. CASE ReadChange
  <2>1. CASE Uninstalled /\ Leaves(NextTurn)
    BY <2>1, UninstalledOK DEF Leaves, NextTurn
  <2>2. CASE UNCHANGED told /\ Leaves(NextTurn)
    BY <2>2, OnlyALine DEF Leaves, NextTurn
  <2>3. CASE TurnEnds(timers) /\ UNCHANGED place /\ at = "loop"
    BY <2>3, OnlyALine
  <2>4. QED
    BY <1>4, <2>1, <2>2, <2>3 DEF ReadChange
<1>5. CASE AfterReconnect
  BY <1>1, <1>5, OnlyALine DEF AfterReconnect
<1>6. CASE CatchUp
  BY <1>1, <1>6 DEF CatchUp
<1>7. CASE FullCheck
  BY <1>7, OnlyALine DEF FullCheck
<1>8. CASE \E f \in Files : Fire(f)
  BY <1>8, OnlyALine DEF Fire
<1>9. QED
  BY <1>2, <1>3, <1>4, <1>5, <1>6, <1>7, <1>8

\* The end of the process.
LEMMA Ending ==
    ASSUME SessionInv,
           WatchEnds \/ NotesEnd \/ Refused \/ StopConnecting \/ StopElsewhere \/ StopWalk \/ Flush
    PROVE  SessionInv'
<1> USE DEF told, place, Ends, Leaves, NextTurn, InSession
<1>1. CASE WatchEnds
  BY <1>1, OnlyALine DEF WatchEnds
<1>2. CASE NotesEnd
  BY <1>2, OnlyALine DEF NotesEnd
<1>3. CASE Refused \/ StopConnecting \/ StopElsewhere
  BY <1>3, OnlyALine DEF Refused, StopConnecting, StopElsewhere
<1>4. CASE StopWalk
  BY <1>4, OnlyALine DEF StopWalk, TurnEnds, Reports, GoesTo
<1>5. CASE Flush
  BY <1>5, OnlyALine DEF Flush
<1>6. QED
  BY <1>1, <1>2, <1>3, <1>4, <1>5

\* What happens outside tells nothing by itself.
LEMMA Environs == ASSUME SessionInv, Environment PROVE SessionInv'
<1> USE DEF told, place, Happens, InSession
<1>1. CASE \E k \in Keys : KeyChanges(k)
  BY <1>1, OnlyALine DEF KeyChanges
<1>2. CASE ModuleGoes \/ BusGoes \/ BusCloses
  BY <1>2, OnlyALine DEF ModuleGoes, BusGoes, BusCloses
<1>3. CASE BusComesBack
  BY <1>3, OnlyALine DEF BusComesBack
<1>4. CASE LoginRefused \/ Terminate
  BY <1>4, OnlyALine DEF LoginRefused, Terminate
<1>5. CASE \E f \in Files : Edit(f)
  BY <1>5, OnlyALine DEF Edit
<1>6. CASE Restart
  BY <1>6 DEF Restart, SessionInv, ToldType, UpInSession, StatusHonest, Marked, NotDown
<1>7. QED
  BY <1>1, <1>2, <1>3, <1>4, <1>5, <1>6 DEF Environment

\* The inductive invariant: where a session works there is no outage, and an outage that was
\* told is marked until a session works.
THEOREM SessionInvariant == Spec => []SessionInv
<1>1. Init => SessionInv
  BY DEF Init, InSession, SessionInv, ToldType, UpInSession, StatusHonest, Marked, NotDown
<1>2. SessionInv /\ [Next]_vars => SessionInv'
  <2>1. SUFFICES ASSUME SessionInv, [Next]_vars PROVE SessionInv'
    OBVIOUS
  <2>2. CASE UNCHANGED vars
    BY <2>1, <2>2, OnlyALine DEF vars, told, place, InSession
  <2>3. CASE Next
    BY <2>1, <2>3, Between, Starting, Turning, Ending, Environs DEF Next, Step
  <2>4. QED
    BY <2>1, <2>2, <2>3
<1>3. QED
  BY <1>1, <1>2, PTL DEF Spec

\* The STATUS line says that the module is fine only while a session works, and never in an
\* outage.
THEOREM StatusIsHonest == Spec => []StatusHonest
<1>1. SessionInv => StatusHonest
  BY DEF SessionInv
<1>2. QED
  BY <1>1, SessionInvariant, PTL

\* Between two announcements of an outage a session worked.
THEOREM OutagesToldOnce == Spec => []OutageToldOnce
<1>1. SessionInv => OutageToldOnce
  BY DEF SessionInv, ToldType, Marked, OutageToldOnce
<1>2. QED
  BY <1>1, SessionInvariant, PTL

-----------------------------------------------------------------------------
(* Startup, for any daemons, folders and instances: one daemon works on a   *)
(* state, and an older version's state is moved whole.                      *)

StateFiles == {"db", "wal", "lock"}
Processes == Daemons \cup Olds

StartupTypes ==
    /\ stage \in [Processes -> Stages]
    /\ instanceLock \in [Instances -> Processes \cup {Nobody}]
    /\ folderLock \in [Roots -> Processes \cup {Nobody}]
    /\ legacy \in [Roots -> SUBSET StateFiles]
    /\ legacyDir \in [Roots -> BOOLEAN]
    /\ state \in [Instances -> SUBSET StateFiles]
    /\ boundTo \in [Instances -> Roots \cup {Nobody}]
    /\ claimed \in [Instances -> Users \cup {Nobody}]
    /\ legacyWho \in [Roots -> Users \cup {Nobody}]
    /\ asides \in [Roots -> SUBSET Papers] /\ noAccess \in [Roots -> SUBSET Papers]
    /\ put \in [Roots -> SUBSET Papers]

\* Past the first lock, the lock of the instance is the daemon's.
HoldsInstance == \A d \in Daemons : stage[d] \notin {"off", "starts"} => instanceLock[InstanceOf[d]] = d

\* Who moves a state, or runs on the folder, has the lock that is in the folder, unless a lock file
\* was unlinked while it was held.
HoldsFolder ==
    /\ \A d \in Daemons : stage[d] \in Migrating => RootOf[d] \in stripped \/ folderLock[RootOf[d]] = d
    /\ \A o \in Olds : stage[o] \in {"off", "starts", "runs"}
    /\ \A o \in Olds : stage[o] = "runs" => RootOf[o] \in stripped \/ folderLock[RootOf[o]] = o

\* After the last file nothing is left to put aside, and nobody puts more there.
AllMerged == \A d \in Daemons : stage[d] = "merged" => RootOf[d] \in stripped \/ asides[RootOf[d]] = {}

\* From OpenBound on, the state is of the daemon's folder, and from CheckIdentity on of its user.
OwnState ==
    \A d \in Daemons :
        /\ stage[d] \in {"checks", "runs"} => boundTo[InstanceOf[d]] = RootOf[d]
        /\ stage[d] = "runs" => claimed[InstanceOf[d]] = UserOf[d]

StartupInv == StartupTypes /\ HoldsInstance /\ HoldsFolder /\ OwnState /\ AllMerged /\ MigrationSafe

\* A step of one process that is not in the folder before nor after, and leaves it alone.
LEMMA FolderAlone ==
    ASSUME StartupInv, UNCHANGED <<older, locks>>,
           NEW p \in Processes, NEW where \in Stages \ (Migrating \cup {"runs"}),
           stage' = [stage EXCEPT ![p] = where], stage[p] \notin Migrating,
           p \in Olds => where \in {"off", "starts"}
    PROVE  HoldsFolder' /\ AllMerged' /\ MigrationSafe'
<1> USE StartupAssumption DEF Processes
<1>1. HoldsFolder' /\ AllMerged'
  BY DEF StartupInv, StartupTypes, HoldsFolder, AllMerged, older, locks, aside, Migrating
<1>2. MigrationSafe'
  BY DEF StartupInv, StartupTypes, MigrationSafe, LogFollows, OldUndisturbed, AsidesKept, older, locks, aside, Migrating
<1>3. QED
  BY <1>1, <1>2

\* A process that leaves gives up its own locks, and takes nobody else's.
LEMMA Leaving ==
    ASSUME StartupTypes, HoldsInstance, HoldsFolder, NEW p \in Processes, Leave(p), UNCHANGED stripped
    PROVE  /\ stage' \in [Processes -> Stages] /\ stage'[p] = "off"
           /\ \A q \in Processes \ {p} : stage'[q] = stage[q]
           /\ instanceLock' \in [Instances -> Processes \cup {Nobody}]
           /\ folderLock' \in [Roots -> Processes \cup {Nobody}]
           /\ HoldsInstance' /\ HoldsFolder'
<1> USE StartupAssumption DEF Processes, Migrating
<1>1. /\ stage' \in [Processes -> Stages] /\ stage'[p] = "off"
      /\ \A q \in Processes \ {p} : stage'[q] = stage[q]
  BY DEF StartupTypes, Leave, Stages
<1>2. /\ instanceLock' \in [Instances -> Processes \cup {Nobody}]
      /\ \A i \in Instances : instanceLock[i] # p => instanceLock'[i] = instanceLock[i]
  BY DEF StartupTypes, Leave, Drops
<1>3. /\ folderLock' \in [Roots -> Processes \cup {Nobody}]
      /\ \A r \in Roots : folderLock[r] # p => folderLock'[r] = folderLock[r]
  BY DEF StartupTypes, Leave, Drops
<1>4. HoldsInstance'
  BY <1>1, <1>2 DEF HoldsInstance
<1>5. HoldsFolder'
  BY <1>1, <1>3 DEF HoldsFolder
<1>6. QED
  BY <1>1, <1>2, <1>3, <1>4, <1>5

\* A process that leaves without having touched the folder, and between no two renames.
LEMMA LeavingAlone ==
    ASSUME StartupInv, NEW p \in Processes, Leave(p), UNCHANGED <<older, boundTo, claimed>>,
           stage[p] # "moveswal", state' \in [Instances -> SUBSET StateFiles]
    PROVE  StartupInv'
<1> USE StartupAssumption DEF Processes
<1>1. /\ stage' \in [Processes -> Stages] /\ stage'[p] = "off"
      /\ \A q \in Processes \ {p} : stage'[q] = stage[q]
      /\ instanceLock' \in [Instances -> Processes \cup {Nobody}]
      /\ folderLock' \in [Roots -> Processes \cup {Nobody}]
      /\ HoldsInstance' /\ HoldsFolder'
  BY Leaving DEF StartupInv, older
<1>2. StartupTypes' /\ OwnState'
  BY <1>1 DEF StartupInv, StartupTypes, OwnState, older, aside
<1>3. AllMerged' /\ MigrationSafe'
  BY <1>1 DEF StartupInv, AllMerged, MigrationSafe, LogFollows, OldUndisturbed, AsidesKept, older, aside
<1>4. QED
  BY <1>1, <1>2, <1>3 DEF StartupInv

\* Nobody else acts on the instance of a daemon that is past the first lock.
LEMMA Alone ==
    ASSUME HoldsInstance, NEW d \in Daemons, NEW e \in Daemons,
           stage[d] \notin {"off", "starts"}, stage[e] \notin {"off", "starts"},
           InstanceOf[d] = InstanceOf[e]
    PROVE  d = e
BY DEF HoldsInstance

\* Nor on the folder of a daemon that moves what is in it, while lock files are let be.
LEMMA AloneInFolder ==
    ASSUME HoldsFolder, NEW d \in Daemons, stage[d] \in Migrating, RootOf[d] \notin stripped
    PROVE  /\ \A o \in Olds : RootOf[o] = RootOf[d] => stage[o] # "runs"
           /\ \A e \in Daemons : RootOf[e] = RootOf[d] /\ stage[e] \in Migrating => e = d
BY StartupAssumption DEF HoldsFolder

\* No process has started.
THEOREM StartupInitially == StartupInit => StartupInv
BY StartupAssumption DEF StartupInit, StartupInv, StartupTypes, HoldsInstance, HoldsFolder, OwnState, AllMerged,
   MigrationSafe, LogFollows, OldUndisturbed, AsidesKept, Processes, Stages, Migrating, StateFiles

\* The two locks, taken or found taken.
LEMMA Locking ==
    ASSUME StartupInv, NEW d \in Daemons, LockInstance(d) \/ FindLegacy(d) \/ LockFolder(d)
    PROVE  StartupInv'
<1> USE StartupAssumption DEF Processes
<1> d \in Processes
  OBVIOUS
<1>1. CASE Leave(d) /\ UNCHANGED <<older, state, boundTo, claimed>> /\ stage[d] # "moveswal"
  BY <1>1, LeavingAlone DEF StartupInv, StartupTypes
<1>2. CASE LockInstance(d) /\ ~Taken(instanceLock, InstanceOf[d])
  <2>1. /\ instanceLock' = [instanceLock EXCEPT ![InstanceOf[d]] = d]
        /\ instanceLock[InstanceOf[d]] = Nobody
        /\ stage' = [stage EXCEPT ![d] = "locked"] /\ stage[d] = "starts"
        /\ UNCHANGED <<folderLock, older, state, boundTo, claimed>>
    BY <1>2 DEF LockInstance, Taken, Advance
  <2>2. StartupTypes'
    BY <2>1 DEF StartupInv, StartupTypes, older, aside, Stages
  <2>3. HoldsInstance'
    BY <2>1 DEF StartupInv, StartupTypes, HoldsInstance
  <2>4. HoldsFolder' /\ OwnState' /\ AllMerged'
    BY <2>1 DEF StartupInv, StartupTypes, HoldsFolder, OwnState, AllMerged, older, aside, Migrating
  <2>5. MigrationSafe'
    BY <2>1 DEF StartupInv, StartupTypes, MigrationSafe, LogFollows, OldUndisturbed, AsidesKept, older, aside
  <2>6. QED
    BY <2>2, <2>3, <2>4, <2>5 DEF StartupInv
<1>3. CASE FindLegacy(d)
  <2>1. /\ \E where \in {"found", "opens"} : stage' = [stage EXCEPT ![d] = where]
        /\ stage[d] = "locked" /\ UNCHANGED <<locks, older, state, boundTo, claimed>>
    BY <1>3 DEF FindLegacy, Advance
  <2>2. StartupTypes' /\ HoldsInstance' /\ OwnState'
    BY <2>1 DEF StartupInv, StartupTypes, HoldsInstance, OwnState, older, aside, locks, Stages
  <2>3. HoldsFolder' /\ AllMerged' /\ MigrationSafe'
    BY <2>1, FolderAlone DEF Migrating, Stages
  <2>4. QED
    BY <2>2, <2>3 DEF StartupInv
<1>4. CASE LockFolder(d) /\ ~(~legacyDir[RootOf[d]] \/ Taken(folderLock, RootOf[d]))
  <2>1. /\ stage[d] = "found" /\ stage' = [stage EXCEPT ![d] = "moves"]
        /\ folderLock[RootOf[d]] = Nobody
        /\ folderLock' = [folderLock EXCEPT ![RootOf[d]] = d]
        /\ legacy' = [legacy EXCEPT ![RootOf[d]] = @ \cup {"lock"}]
        /\ UNCHANGED <<instanceLock, legacyDir, legacyWho, aside, torn, stripped, state, boundTo, claimed>>
    BY <1>4 DEF LockFolder, Taken, Advance
  <2>2. StartupTypes'
    BY <2>1 DEF StartupInv, StartupTypes, aside, Stages, Migrating, StateFiles
  <2>3. HoldsInstance' /\ OwnState' /\ AllMerged'
    BY <2>1 DEF StartupInv, StartupTypes, HoldsInstance, OwnState, AllMerged, aside
  <2>4. HoldsFolder'
    BY <2>1 DEF StartupInv, StartupTypes, HoldsFolder, Migrating
  <2>5. MigrationSafe'
    BY <2>1 DEF StartupInv, StartupTypes, MigrationSafe, LogFollows, OldUndisturbed, AsidesKept, aside
  <2>6. QED
    BY <2>2, <2>3, <2>4, <2>5 DEF StartupInv
<1>5. QED
  BY <1>1, <1>2, <1>3, <1>4 DEF LockInstance, LockFolder, older

\* The move of an older version's database and its log, by the daemon that has both locks.
LEMMA Moving == ASSUME StartupInv, NEW d \in Daemons, MoveDb(d) \/ MoveWal(d) PROVE StartupInv'
<1> USE StartupAssumption DEF Processes, StateFiles
<1>1. CASE MoveDb(d) /\ stage'[d] = "moveswal"
  <2>1. /\ stage[d] = "moves" /\ stage' = [stage EXCEPT ![d] = "moveswal"]
        /\ legacy' = [legacy EXCEPT ![RootOf[d]] = @ \ {"db"}]
        /\ state' = [state EXCEPT ![InstanceOf[d]] = @ \cup {"db"}]
        /\ boundTo' = [boundTo EXCEPT ![InstanceOf[d]] = Nobody]
        /\ claimed' = [claimed EXCEPT ![InstanceOf[d]] = legacyWho[RootOf[d]]]
        /\ UNCHANGED <<locks, legacyDir, legacyWho, aside, torn, stripped>>
    BY <1>1 DEF MoveDb, Advance, StartupInv, StartupTypes
  <2>2. StartupTypes'
    BY <2>1 DEF StartupInv, StartupTypes, Stages, Migrating, locks, aside
  <2>3. HoldsInstance' /\ HoldsFolder' /\ AllMerged'
    BY <2>1 DEF StartupInv, StartupTypes, HoldsInstance, HoldsFolder, AllMerged, Migrating, locks, aside
  <2>4. OwnState'
    <3>1. \A e \in Daemons : e # d /\ stage[e] \in {"checks", "runs"} => InstanceOf[e] # InstanceOf[d]
      BY <2>1, Alone DEF StartupInv
    <3>2. QED
      BY <2>1, <3>1 DEF StartupInv, StartupTypes, OwnState
  <2>5. OldUndisturbed'
    <3>1. \A o \in Olds : stage'[o] = "runs" => stage[o] = "runs" /\ (RootOf[o] # RootOf[d] \/ RootOf[o] \in stripped)
      BY <2>1, AloneInFolder DEF StartupInv, StartupTypes, Migrating
    <3>2. QED
      BY <2>1, <3>1 DEF StartupInv, StartupTypes, MigrationSafe, OldUndisturbed
  <2>6. LogFollows' /\ AsidesKept'
    BY <2>1 DEF StartupInv, StartupTypes, MigrationSafe, LogFollows, AsidesKept, aside
  <2>7. QED
    BY <2>2, <2>3, <2>4, <2>5, <2>6 DEF StartupInv, MigrationSafe
<1>2. CASE MoveDb(d) /\ stage'[d] # "moveswal"
  <2>1. /\ stage[d] = "moves" /\ stage' = [stage EXCEPT ![d] = "moved"]
        /\ UNCHANGED <<locks, older, state, boundTo, claimed>>
    BY <1>2 DEF MoveDb, Advance, StartupInv, StartupTypes, older
  <2>2. StartupTypes' /\ HoldsInstance' /\ HoldsFolder' /\ OwnState' /\ AllMerged'
    BY <2>1 DEF StartupInv, StartupTypes, HoldsInstance, HoldsFolder, OwnState, AllMerged, Stages, Migrating, locks, older,
       aside
  <2>3. MigrationSafe'
    BY <2>1 DEF StartupInv, StartupTypes, MigrationSafe, LogFollows, OldUndisturbed, AsidesKept, older, aside
  <2>4. QED
    BY <2>2, <2>3 DEF StartupInv
<1>3. CASE MoveWal(d)
  <2>1. /\ stage[d] = "moveswal" /\ stage' = [stage EXCEPT ![d] = "moved"]
        /\ legacy' = [legacy EXCEPT ![RootOf[d]] = @ \ {"wal"}]
        /\ state' = [state EXCEPT ![InstanceOf[d]] = @ \cup (legacy[RootOf[d]] \cap {"wal"})]
        /\ UNCHANGED <<locks, legacyDir, legacyWho, aside, torn, stripped, boundTo, claimed>>
    BY <1>3 DEF MoveWal, Advance
  <2>2. StartupTypes'
    BY <2>1 DEF StartupInv, StartupTypes, Stages, Migrating, locks, aside
  <2>3. HoldsInstance' /\ HoldsFolder' /\ OwnState' /\ AllMerged'
    BY <2>1 DEF StartupInv, StartupTypes, HoldsInstance, HoldsFolder, OwnState, AllMerged, Migrating, locks, aside
  <2>4. LogFollows'
    BY <2>1 DEF StartupInv, StartupTypes, MigrationSafe, LogFollows
  <2>5. OldUndisturbed' /\ AsidesKept'
    BY <2>1 DEF StartupInv, StartupTypes, MigrationSafe, OldUndisturbed, AsidesKept, aside
  <2>6. QED
    BY <2>2, <2>3, <2>4, <2>5 DEF StartupInv, MigrationSafe
<1>4. QED
  BY <1>1, <1>2, <1>3

\* What was put aside is moved, and the folder it was in goes once nothing is in it.
LEMMA Merging == ASSUME StartupInv, NEW d \in Daemons, MoveAsides(d) \/ RemoveAsides(d) PROVE StartupInv'
<1> USE StartupAssumption DEF Processes
<1> DEFINE r == RootOf[d]
<1>1. /\ stage[d] \in {"moved", "merged"} /\ stage'[d] \in {"moved", "merged", "asided"}
      /\ stage' = [stage EXCEPT ![d] = stage'[d]]
      /\ UNCHANGED <<locks, legacyDir, legacy, legacyWho, put, torn, stripped, state, boundTo, claimed>>
  BY DEF MoveAsides, RemoveAsides, Advance, StartupInv, StartupTypes
<1>2. /\ asides' \in [Roots -> SUBSET Papers] /\ noAccess' \in [Roots -> SUBSET Papers]
      /\ \A q \in Roots : asides'[q] \subseteq asides[q] /\ noAccess[q] \subseteq noAccess'[q]
      /\ \A q \in Roots : q # r => asides'[q] = asides[q]
      /\ stage'[d] = "merged" => asides'[r] = {}
  BY DEF MoveAsides, RemoveAsides, Advance, StartupInv, StartupTypes
<1>3. r \in stripped \/ asides[r] \subseteq asides'[r] \cup noAccess'[r]
  <2>1. CASE MoveAsides(d)
    BY <2>1 DEF MoveAsides, StartupInv, StartupTypes
  <2>2. CASE RemoveAsides(d)
    BY <2>2 DEF RemoveAsides, StartupInv, AllMerged
  <2>3. QED
    BY <2>1, <2>2
<1>4. StartupTypes'
  BY <1>1, <1>2 DEF StartupInv, StartupTypes, Stages, Migrating, locks
<1>5. HoldsInstance' /\ HoldsFolder' /\ OwnState'
  BY <1>1 DEF StartupInv, StartupTypes, HoldsInstance, HoldsFolder, OwnState, Migrating, locks
<1>6. AllMerged'
  <2>1. \A e \in Daemons : stage'[e] = "merged" => e = d \/ stage[e] = "merged"
    BY <1>1 DEF StartupInv, StartupTypes
  <2>2. QED
    BY <1>1, <1>2, <2>1 DEF StartupInv, AllMerged
<1>7. LogFollows' /\ OldUndisturbed'
  BY <1>1 DEF StartupInv, StartupTypes, MigrationSafe, LogFollows, OldUndisturbed
<1>8. AsidesKept'
  BY <1>1, <1>2, <1>3 DEF StartupInv, MigrationSafe, AsidesKept
<1>9. QED
  BY <1>4, <1>5, <1>6, <1>7, <1>8 DEF StartupInv, MigrationSafe

\* The lock of the folder is released, its file unlinked, whoever has it by then, and the folder
\* removed.
LEMMA EndOfMigration ==
    ASSUME StartupInv, NEW d \in Daemons, Release(d) \/ UnlinkLock(d) \/ RemoveFolder(d)
    PROVE  StartupInv'
<1> USE StartupAssumption DEF Processes
<1> DEFINE r == RootOf[d]
<1>1. CASE Release(d)
  <2>1. /\ stage[d] = "asided" /\ stage' = [stage EXCEPT ![d] = "released"]
        /\ folderLock' = Drops(folderLock, d)
        /\ UNCHANGED <<instanceLock, older, state, boundTo, claimed>>
    BY <1>1 DEF Release, Advance
  <2>2. /\ folderLock' \in [Roots -> Processes \cup {Nobody}]
        /\ \A q \in Roots : folderLock[q] # d => folderLock'[q] = folderLock[q]
    BY <2>1 DEF StartupInv, StartupTypes, Drops
  <2>3. StartupTypes' /\ HoldsInstance' /\ OwnState' /\ AllMerged'
    BY <2>1, <2>2 DEF StartupInv, StartupTypes, HoldsInstance, OwnState, AllMerged, Stages, older, aside
  <2>4. HoldsFolder'
    BY <2>1, <2>2 DEF StartupInv, StartupTypes, HoldsFolder, Migrating, older
  <2>5. MigrationSafe'
    BY <2>1 DEF StartupInv, StartupTypes, MigrationSafe, LogFollows, OldUndisturbed, AsidesKept, older, aside
  <2>6. QED
    BY <2>3, <2>4, <2>5 DEF StartupInv
<1>2. CASE UnlinkLock(d)
  <2>1. /\ stage[d] = "released" /\ stage' = [stage EXCEPT ![d] = "unlinked"]
        /\ legacy' = [legacy EXCEPT ![r] = @ \ {"lock"}]
        /\ folderLock' = [folderLock EXCEPT ![r] = Nobody]
        /\ stripped \subseteq stripped' /\ (r \in stripped' \/ folderLock[r] = Nobody)
        /\ UNCHANGED <<instanceLock, legacyDir, legacyWho, aside, torn, state, boundTo, claimed>>
    BY <1>2 DEF UnlinkLock, Advance, Taken
  <2>2. StartupTypes'
    BY <2>1 DEF StartupInv, StartupTypes, Stages, aside
  <2>3. HoldsInstance' /\ OwnState' /\ AllMerged'
    BY <2>1 DEF StartupInv, StartupTypes, HoldsInstance, OwnState, AllMerged, aside
  <2>4. HoldsFolder'
    BY <2>1 DEF StartupInv, StartupTypes, HoldsFolder, Migrating
  <2>5. MigrationSafe'
    BY <2>1 DEF StartupInv, StartupTypes, MigrationSafe, LogFollows, OldUndisturbed, AsidesKept, aside
  <2>6. QED
    BY <2>2, <2>3, <2>4, <2>5 DEF StartupInv
<1>3. CASE RemoveFolder(d)
  <2>1. /\ stage[d] = "unlinked" /\ stage' = [stage EXCEPT ![d] = "opens"]
        /\ legacyDir' \in [Roots -> BOOLEAN]
        /\ UNCHANGED <<locks, legacy, legacyWho, aside, torn, stripped, state, boundTo, claimed>>
    BY <1>3 DEF RemoveFolder, Advance, StartupInv, StartupTypes
  <2>2. StartupTypes' /\ HoldsInstance' /\ HoldsFolder' /\ OwnState' /\ AllMerged'
    BY <2>1 DEF StartupInv, StartupTypes, HoldsInstance, HoldsFolder, OwnState, AllMerged, Stages, Migrating, locks, aside
  <2>3. MigrationSafe'
    BY <2>1 DEF StartupInv, StartupTypes, MigrationSafe, LogFollows, OldUndisturbed, AsidesKept, aside
  <2>4. QED
    BY <2>2, <2>3 DEF StartupInv
<1>4. QED
  BY <1>1, <1>2, <1>3

\* The state is bound to the daemon's folder, claimed for its user, or the daemon leaves.
LEMMA Opening ==
    ASSUME StartupInv, NEW d \in Daemons, OpenBound(d) \/ CheckIdentity(d) \/ Quit(d)
    PROVE  StartupInv'
<1> USE StartupAssumption DEF Processes, StateFiles
<1> d \in Processes
  OBVIOUS
<1>0. stage[d] \in {"opens", "checks", "runs"} => \A e \in Daemons : e # d /\ stage[e] \in {"checks", "runs"}
         => InstanceOf[e] # InstanceOf[d]
  BY Alone DEF StartupInv
<1>1. CASE OpenBound(d)
  <2>1. /\ stage[d] = "opens" /\ stage' = [stage EXCEPT ![d] = "checks"]
        /\ state' = [state EXCEPT ![InstanceOf[d]] = {"db", "wal"}]
        /\ boundTo' = [boundTo EXCEPT ![InstanceOf[d]] = RootOf[d]]
        /\ \A i \in Instances : i # InstanceOf[d] => claimed'[i] = claimed[i]
        /\ claimed' \in [Instances -> Users \cup {Nobody}]
        /\ UNCHANGED <<locks, older>>
    BY <1>1 DEF OpenBound, Advance, StartupInv, StartupTypes
  <2>2. StartupTypes'
    BY <2>1 DEF StartupInv, StartupTypes, Stages, locks, older, aside
  <2>3. HoldsInstance'
    BY <2>1 DEF StartupInv, StartupTypes, HoldsInstance, locks
  <2>4. OwnState'
    BY <2>1, <1>0 DEF StartupInv, StartupTypes, OwnState
  <2>5. HoldsFolder' /\ AllMerged' /\ MigrationSafe'
    BY <2>1, FolderAlone DEF Migrating, Stages
  <2>6. QED
    BY <2>2, <2>3, <2>4, <2>5 DEF StartupInv
<1>2. CASE CheckIdentity(d) /\ claimed[InstanceOf[d]] \in {Nobody, UserOf[d]}
  <2>1. /\ stage[d] = "checks" /\ stage' = [stage EXCEPT ![d] = "runs"]
        /\ claimed' = [claimed EXCEPT ![InstanceOf[d]] = UserOf[d]]
        /\ UNCHANGED <<locks, state, older, boundTo>>
    BY <1>2 DEF CheckIdentity, Advance
  <2>2. StartupTypes'
    BY <2>1 DEF StartupInv, StartupTypes, Stages, locks, older, aside
  <2>3. HoldsInstance' /\ HoldsFolder' /\ AllMerged'
    BY <2>1 DEF StartupInv, StartupTypes, HoldsInstance, HoldsFolder, AllMerged, Migrating, locks, older, aside
  <2>4. OwnState'
    BY <2>1, <1>0 DEF StartupInv, StartupTypes, OwnState
  <2>5. MigrationSafe'
    BY <2>1 DEF StartupInv, StartupTypes, MigrationSafe, LogFollows, OldUndisturbed, AsidesKept, older, aside
  <2>6. QED
    BY <2>2, <2>3, <2>4, <2>5 DEF StartupInv
<1>3. CASE (CheckIdentity(d) /\ claimed[InstanceOf[d]] \notin {Nobody, UserOf[d]}) \/ Quit(d)
  <2>1. /\ Leave(d) /\ stage[d] \in {"checks", "runs"}
        /\ state' = [state EXCEPT ![InstanceOf[d]] = {"db"}]
        /\ UNCHANGED <<older, boundTo, claimed>>
    BY <1>3 DEF CheckIdentity, Quit
  <2>2. QED
    BY <2>1, LeavingAlone DEF StartupInv, StartupTypes
<1>4. QED
  BY <1>1, <1>2, <1>3

\* What the person may no longer read is put aside, by the version that runs on the folder.
LEMMA PuttingAside ==
    ASSUME StartupInv,
           \/ \E d \in Daemons : PutsAside(d)
           \/ \E o \in Olds : OldPutsAside(o)
    PROVE  StartupInv'
<1> USE StartupAssumption DEF Processes
<1>1. PICK p \in Processes : (p \in Daemons /\ PutsAside(p)) \/ (p \in Olds /\ OldPutsAside(p))
  OBVIOUS
<1> DEFINE r == RootOf[p]
<1>2. /\ stage[p] = "runs"
      /\ UNCHANGED <<stage, locks, legacyDir, legacy, legacyWho, torn, stripped, state, boundTo, claimed>>
      /\ p \in Daemons => asides' = asides
  BY <1>1 DEF PutsAside, OldPutsAside
<1>3. PICK paper \in Papers :
          /\ put' = [put EXCEPT ![r] = @ \cup {paper}]
          /\ \/ asides' = asides /\ noAccess' = [noAccess EXCEPT ![r] = @ \cup {paper}]
             \/ noAccess' = noAccess /\ asides' = [asides EXCEPT ![r] = @ \cup {paper}]
  BY <1>1 DEF PutsAside, OldPutsAside
<1>4. StartupTypes'
  BY <1>2, <1>3 DEF StartupInv, StartupTypes, locks
<1>5. HoldsInstance' /\ HoldsFolder' /\ OwnState' /\ LogFollows' /\ OldUndisturbed'
  BY <1>2 DEF StartupInv, HoldsInstance, HoldsFolder, OwnState, MigrationSafe, LogFollows, OldUndisturbed, locks
<1>6. AsidesKept'
  BY <1>2, <1>3 DEF StartupInv, StartupTypes, MigrationSafe, AsidesKept
<1>7. AllMerged'
  <2>1. SUFFICES ASSUME NEW d \in Daemons, stage[d] = "merged", RootOf[d] \notin stripped
                 PROVE  asides'[RootOf[d]] = {}
    BY <1>2 DEF AllMerged
  <2>2. asides[RootOf[d]] = {} /\ (p \in Olds => RootOf[p] # RootOf[d])
    BY <1>2, <2>1, AloneInFolder DEF StartupInv, AllMerged, Migrating
  <2>3. QED
    BY <1>1, <1>2, <1>3, <2>2 DEF StartupInv, StartupTypes
<1>8. QED
  BY <1>4, <1>5, <1>6, <1>7 DEF StartupInv, MigrationSafe

\* Starts and deaths, and the older version.
LEMMA Others ==
    ASSUME StartupInv, NEW p \in Processes, Start(p) \/ Die(p) \/ (p \in Olds /\ (OldRuns(p) \/ OldQuits(p)))
    PROVE  StartupInv'
<1> USE StartupAssumption DEF Processes, StateFiles
<1>1. CASE Start(p)
  <2>1. /\ stage[p] = "off" /\ stage' = [stage EXCEPT ![p] = "starts"]
        /\ UNCHANGED <<locks, older, state, boundTo, claimed>>
    BY <1>1 DEF Start, Advance
  <2>2. StartupTypes' /\ HoldsInstance' /\ OwnState'
    BY <2>1 DEF StartupInv, StartupTypes, HoldsInstance, OwnState, Stages, locks, older, aside
  <2>3. HoldsFolder' /\ AllMerged' /\ MigrationSafe'
    BY <2>1, FolderAlone DEF Migrating, Stages
  <2>4. QED
    BY <2>2, <2>3 DEF StartupInv
<1>2. CASE Die(p)
  <2>1. /\ Leave(p) /\ torn' = IF stage[p] = "moveswal" THEN torn \cup {RootOf[p]} ELSE torn
        /\ UNCHANGED <<legacyDir, legacy, legacyWho, aside, stripped, state, boundTo, claimed>>
    BY <1>2 DEF Die
  <2>2. /\ stage' \in [Processes -> Stages] /\ stage'[p] = "off"
        /\ \A q \in Processes \ {p} : stage'[q] = stage[q]
        /\ instanceLock' \in [Instances -> Processes \cup {Nobody}]
        /\ folderLock' \in [Roots -> Processes \cup {Nobody}]
        /\ HoldsInstance' /\ HoldsFolder'
    BY <2>1, Leaving DEF StartupInv
  <2>3. LogFollows'
    BY <2>1, <2>2 DEF StartupInv, StartupTypes, MigrationSafe, LogFollows
  <2>4. OldUndisturbed' /\ AsidesKept' /\ AllMerged'
    BY <2>1, <2>2 DEF StartupInv, MigrationSafe, OldUndisturbed, AsidesKept, AllMerged, aside
  <2>5. StartupTypes' /\ OwnState'
    BY <2>1, <2>2 DEF StartupInv, StartupTypes, OwnState, aside
  <2>6. QED
    BY <2>2, <2>3, <2>4, <2>5 DEF StartupInv, MigrationSafe
<1>3. CASE p \in Olds /\ OldRuns(p) /\ Taken(folderLock, RootOf[p])
  <2>1. /\ Leave(p) /\ legacyDir' = [legacyDir EXCEPT ![RootOf[p]] = TRUE] /\ stage[p] = "starts"
        /\ UNCHANGED <<legacy, legacyWho, aside, torn, stripped, state, boundTo, claimed>>
    BY <1>3 DEF OldRuns
  <2>2. /\ stage' \in [Processes -> Stages] /\ stage'[p] = "off"
        /\ \A q \in Processes \ {p} : stage'[q] = stage[q]
        /\ instanceLock' \in [Instances -> Processes \cup {Nobody}]
        /\ folderLock' \in [Roots -> Processes \cup {Nobody}]
        /\ HoldsInstance' /\ HoldsFolder'
    BY <2>1, Leaving DEF StartupInv
  <2>3. StartupTypes' /\ OwnState'
    BY <2>1, <2>2 DEF StartupInv, StartupTypes, OwnState, aside
  <2>4. AllMerged' /\ MigrationSafe'
    BY <2>1, <2>2 DEF StartupInv, AllMerged, MigrationSafe, LogFollows, OldUndisturbed, AsidesKept, aside
  <2>5. QED
    BY <2>2, <2>3, <2>4 DEF StartupInv
<1>4. CASE p \in Olds /\ OldRuns(p) /\ ~Taken(folderLock, RootOf[p])
  <2>1. /\ legacyDir' = [legacyDir EXCEPT ![RootOf[p]] = TRUE]
        /\ folderLock[RootOf[p]] = Nobody /\ folderLock' = [folderLock EXCEPT ![RootOf[p]] = p]
        /\ legacy' = [legacy EXCEPT ![RootOf[p]] = {"db", "wal", "lock"}]
        /\ legacyWho' = [legacyWho EXCEPT ![RootOf[p]] = UserOf[p]]
        /\ stage[p] = "starts" /\ stage' = [stage EXCEPT ![p] = "runs"]
        /\ UNCHANGED <<instanceLock, aside, torn, stripped, state, boundTo, claimed>>
    BY <1>4 DEF OldRuns, Taken, Advance
  <2>2. StartupTypes'
    BY <2>1 DEF StartupInv, StartupTypes, Stages, aside
  <2>3. HoldsInstance' /\ HoldsFolder' /\ OwnState' /\ AllMerged'
    BY <2>1, <1>4 DEF StartupInv, StartupTypes, HoldsInstance, HoldsFolder, OwnState, AllMerged, Migrating, aside
  <2>4. MigrationSafe'
    BY <2>1, <1>4 DEF StartupInv, StartupTypes, MigrationSafe, LogFollows, OldUndisturbed, AsidesKept, aside
  <2>5. QED
    BY <2>2, <2>3, <2>4 DEF StartupInv
<1>5. CASE p \in Olds /\ OldQuits(p)
  <2>1. /\ Leave(p) /\ stage[p] = "runs"
        /\ legacy' = [legacy EXCEPT ![RootOf[p]] = @ \ {"wal"}]
        /\ UNCHANGED <<legacyDir, legacyWho, aside, torn, stripped, state, boundTo, claimed>>
    BY <1>5 DEF OldQuits
  <2>2. /\ stage' \in [Processes -> Stages] /\ stage'[p] = "off"
        /\ \A q \in Processes \ {p} : stage'[q] = stage[q]
        /\ instanceLock' \in [Instances -> Processes \cup {Nobody}]
        /\ folderLock' \in [Roots -> Processes \cup {Nobody}]
        /\ HoldsInstance' /\ HoldsFolder'
    BY <2>1, Leaving DEF StartupInv
  <2>3. StartupTypes' /\ OwnState' /\ AllMerged'
    BY <2>1, <2>2, <1>5 DEF StartupInv, StartupTypes, OwnState, AllMerged, aside
  <2>4. MigrationSafe'
    BY <2>1, <2>2, <1>5 DEF StartupInv, StartupTypes, MigrationSafe, LogFollows, OldUndisturbed, AsidesKept, aside
  <2>5. QED
    BY <2>2, <2>3, <2>4 DEF StartupInv
<1>6. QED
  BY <1>1, <1>2, <1>3, <1>4, <1>5

\* The inductive invariant: a process past a lock has it, or its folder's was unlinked under somebody;
\* nobody else acts on its instance; a state that is served is its daemon's; and an older state is
\* moved whole.
THEOREM StartupInvariant == StartupSpec => []StartupInv
<1>1. StartupInv /\ UNCHANGED startupVars => StartupInv'
  BY DEF StartupInv, StartupTypes, HoldsInstance, HoldsFolder, OwnState, AllMerged, MigrationSafe, LogFollows,
     OldUndisturbed, AsidesKept, startupVars, locks, older, aside
<1>2. StartupInv /\ StartupNext => StartupInv'
  BY Locking, Moving, Merging, EndOfMigration, Opening, PuttingAside, Others DEF StartupNext, Processes
<1>3. QED
  BY <1>1, <1>2, StartupInitially, PTL DEF StartupSpec

\* One daemon per instance touches its state, which is its folder's and its user's.
THEOREM ServesOne == StartupSpec => []StateServesOne
<1>1. StartupInv => StateServesOne
  BY StartupAssumption DEF StartupInv, StateServesOne, HoldsInstance, OwnState, Stages
<1>2. QED
  BY <1>1, StartupInvariant, PTL

\* The move of an older version's state parts no log from its database, unless the daemon dies
\* between the two; and while no lock file is unlinked under a process that has it, nothing is taken
\* from under a daemon that runs on the folder, and nothing that was put aside is lost.
THEOREM MovesSafely == StartupSpec => []MigrationSafe
<1>1. StartupInv => MigrationSafe
  BY DEF StartupInv
<1>2. QED
  BY <1>1, StartupInvariant, PTL

-----------------------------------------------------------------------------
(* Alerts, for any files and windows: what happens to a file is told within *)
(* the spacing.                                                             *)

AlertsSpec == AlertsInit /\ [][AlertsNext]_alertsVars

Times == Nat \cup {Never}

AlertsTypes ==
    /\ now \in Nat /\ pending \subseteq AlertFiles
    /\ notified \in [AlertFiles -> Times] /\ heard \in [AlertFiles -> Times]
    /\ firstAt \in Times /\ lastAt \in Times /\ lastSent \in Times

\* An event that was not told is of a file that waits to be: it came no earlier than the burst
\* began and than the last notice went out.
WaitsInBurst ==
    \A f \in AlertFiles : heard[f] # Never =>
        /\ f \in pending /\ heard[f] <= now
        /\ firstAt # Never /\ firstAt <= heard[f]
        /\ lastSent <= heard[f]

\* A burst that waits has begun, and the last notice is of the past.
Begun == (pending # {} => firstAt # Never) /\ firstAt <= now /\ lastSent <= now

AlertsInv == AlertsTypes /\ WaitsInBurst /\ Begun /\ ToldInTime

\* Nothing has happened.
LEMMA AlertsInitially == AlertsInit => AlertsInv
  BY DEF AlertsInit, AlertsInv, AlertsTypes, WaitsInBurst, Begun, ToldInTime, Times, Never

\* An event joins the burst, or begins one.
LEMMA Adding == ASSUME AlertsInv, NEW f \in AlertFiles, Add(f) PROVE AlertsInv'
<1> USE AlertsAssumption DEF AlertsInv, Times, Never
<1>1. AlertsTypes'
  BY DEF Add, AlertsTypes
<1>2. ASSUME NEW g \in AlertFiles, heard'[g] # Never
      PROVE  /\ g \in pending' /\ heard'[g] <= now'
             /\ firstAt' # Never /\ firstAt' <= heard'[g] /\ lastSent' <= heard'[g]
             /\ now' - heard'[g] <= Every
  <2>1. CASE heard'[g] = heard[g]
    BY <1>2, <2>1 DEF Add, AlertsTypes, WaitsInBurst, ToldInTime
  <2>2. CASE heard'[g] # heard[g]
    <3>1. g = f /\ heard[f] = Never /\ heard'[f] = now /\ ~Within(notified[f], Every)
      BY <2>2 DEF Add, AlertsTypes
    <3>2. CASE f \in pending
      BY <3>1, <3>2, <1>1 DEF Add, AlertsTypes, Begun
    <3>3. CASE f \notin pending
      BY <3>1, <3>3 DEF Add, AlertsTypes, Begun
    <3> QED BY <3>2, <3>3
  <2> QED BY <2>1, <2>2
<1>3. Begun'
  BY DEF Add, AlertsTypes, Begun
<1> QED BY <1>1, <1>2, <1>3 DEF WaitsInBurst, ToldInTime

\* A notice tells everything that waits.
LEMMA Flushing == ASSUME AlertsInv, FlushAlerts PROVE AlertsInv'
<1> USE AlertsAssumption DEF AlertsInv, Times, Never
<1>1. AlertsTypes'
  BY DEF FlushAlerts, AlertsTypes
<1>2. \A g \in AlertFiles : heard'[g] = Never
  BY DEF FlushAlerts, AlertsTypes, WaitsInBurst
<1>3. Begun'
  BY DEF FlushAlerts, AlertsTypes, Begun
<1> QED BY <1>1, <1>2, <1>3 DEF WaitsInBurst, ToldInTime

\* Time passes only while the last notice is too recent or the burst is neither quiet nor old.
LEMMA Ticking == ASSUME AlertsInv, AlertsTick PROVE AlertsInv'
<1> USE AlertsAssumption DEF AlertsInv, Times, Never
<1>1. AlertsTypes' /\ WaitsInBurst' /\ Begun'
  BY DEF AlertsTick, AlertsTypes, WaitsInBurst, Begun
<1>2. ASSUME NEW g \in AlertFiles, heard'[g] # Never PROVE now' - heard'[g] <= Every
  <2>1. /\ now' = now + 1 /\ heard'[g] = heard[g] /\ g \in pending
        /\ firstAt # Never /\ firstAt <= heard[g] /\ lastSent <= heard[g]
        /\ Within(lastSent, Every) \/ Within(firstAt, MaxGather)
    BY <1>2 DEF AlertsTick, Due, WaitsInBurst
  <2> QED BY <2>1 DEF Within, AlertsTypes
<1> QED BY <1>1, <1>2 DEF ToldInTime

\* The inductive invariant holds in every reachable state.
THEOREM AlertsInvariant == AlertsSpec => []AlertsInv
<1>1. AlertsInv /\ AlertsNext => AlertsInv'
  BY Adding, Flushing, Ticking DEF AlertsNext
<1>2. AlertsInv /\ UNCHANGED alertsVars => AlertsInv'
  BY DEF alertsVars, AlertsInv, AlertsTypes, WaitsInBurst, Begun, ToldInTime
<1> QED BY AlertsInitially, <1>1, <1>2, PTL DEF AlertsSpec

\* What happens to a file is told within the spacing (alerts.go:18-21).
THEOREM TellsInTime == AlertsSpec => []ToldInTime
  BY AlertsInvariant, PTL DEF AlertsInv
=============================================================================
