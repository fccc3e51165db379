------------------------------- MODULE DocSync -------------------------------
(***************************************************************************)
(* The sync daemon's engine (internal/docsync/engine.go): it mirrors the   *)
(* documents a person can read into a folder and sends the person's edits  *)
(* back.  The engine is one goroutine; what interleaves with it is the     *)
(* person's editor, the other people in the module (DocsModule), lost      *)
(* notifications, lost replies and crashes.  So an operation is cut in     *)
(* steps where it reads a reply, reads a file, writes a file and writes    *)
(* its database: between two steps anybody else may act or the daemon may  *)
(* die.                                                                    *)
(*                                                                         *)
(* Not here: read-only folders of modules older than contract 1.3.0,       *)
(* folders (every folder is known), files that are not documents.          *)
(***************************************************************************)
EXTENDS DocsModule

CONSTANTS
    PersonActs,   \* bound: how often the person touches the folder
    PersonKinds,  \* which of the person's acts a configuration enables
    Faults,       \* bound: crashes, lost sessions, failed requests
    FaultKinds,   \* which of them a configuration enables
    PageSize,     \* entries of the feed in one page
    EditorRace    \* may the editor save between the engine's read of a file
                  \* and its rename or removal of it?

ASSUME EngineAssumption ==
    /\ PersonActs \in Nat /\ Faults \in Nat /\ PageSize \in Nat \ {0}
    /\ EditorRace \in BOOLEAN

VARIABLES
    file,     \* the folder: per path the content of the file, Nothing when absent
    copies,   \* the conflict copies <name>.remoto-v<n>.md on disk
    aside,    \* the contents of the files moved to .sin-acceso
    rec,      \* the state database's docs table: per id its record, or None
    pending,  \* its pending_new table: per path the id reserved for a creation
    lastSeq,  \* how far the feed has been read
    fullDue,  \* is a full reconciliation due (lastFull zero or older than FullEvery)?
    agenda,   \* what the engine still has to do before its loop selects again
    todo,     \* the documents or paths left in the agenda's first entry
    listed,   \* the last listing of the readable documents
    page,     \* the page of the feed being applied
    op,       \* the document operation in progress
    retry,    \* the uploads refused by somebody's lock (lockedRetry)
    dirty,    \* the paths whose debounce timer runs (timers, due, disk events)
    seen,     \* history: the contents the person has had in front of them
    edits,    \* how often the person has acted
    failed    \* how many faults have happened

diskVars == <<file, copies, aside>>
dbVars == <<rec, pending, lastSeq, fullDue>>
loopVars == <<agenda, todo, listed, page>>
memVars == <<retry, dirty>>
envVars == <<seen, edits, failed>>
vars == <<moduleVars, notes, session, diskVars, dbVars, loopVars, op, memVars, envVars>>

Records == [path : Paths, ver : Nat, sum : Contents, conf : (Paths \X Nat) \cup {None}]
Copies == [name : Paths \X Nat, body : Contents]
ASSUME RecordAssumption == None \notin Records /\ None \notin Paths \X Nat

Step(k, d, p, ver, body) ==
    [k |-> k, id |-> d, path |-> p, ver |-> ver, body |-> body, had |-> FALSE, conf |-> None]
Idle == Step("idle", 0, None, 0, Nothing)
NoPage == [pos |-> 0, at |-> 0, end |-> 0, more |-> FALSE]

Quiet == op = Idle
Selecting == Quiet /\ agenda = <<>> /\ session = "up"   \* online's select is waiting
Doing(what) == Quiet /\ agenda # <<>> /\ Head(agenda) = what
Finish == agenda' = Tail(agenda)

Full == <<"list", "reconcile", "missing", "scan", "visit", "stamp">>
CatchUp == <<"read", "apply">>
Scan == <<"scan", "visit">>

Known(d) == rec[d] # None
RecordsAt(p) == {d \in Docs : Known(d) /\ rec[d].path = p}
NeverWaits(conf) == FALSE
CopyThere(conf) == \E c \in copies : c.name = conf

-----------------------------------------------------------------------------
(* The state database and the disk.                                        *)

\* Storing a record removes any other record that claims its path.
PutDoc(d, r) ==
    rec' = [e \in Docs |-> IF e = d THEN r
                           ELSE IF e \in RecordsAt(r.path) THEN None ELSE rec[e]]

DeleteDoc(d) == rec' = [rec EXCEPT ![d] = None]

\* A conflict copy is named for its version; writing one replaces its namesake.
UnversionedName(p, ver) == <<p, 0>>
CopyName(p, ver) == <<p, ver>>
WriteCopy(p, ver, body) ==
    copies' = {c \in copies : c.name # CopyName(p, ver)}
              \cup {[name |-> CopyName(p, ver), body |-> body]}

\* A file with changes of its own is never replaced: it differs from what the
\* record holds, or there is no record to compare it with.
NeverChanged(d, p, had) == FALSE
ChangedHere(d, p, had) == file[p] # Nothing /\ (~had \/ file[p] # rec[d].sum)

\* noLongerReadable: the file is moved aside, whatever it holds, then forgotten.
AsideUnchecked(d) ==
    /\ aside' = aside \cup {file[rec[d].path]}
    /\ file' = [file EXCEPT ![rec[d].path] = Nothing]
    /\ op' = Step("forget", d, rec[d].path, 0, Nothing)
    /\ UNCHANGED <<copies, rec, pending>>

MoveAside(d) ==
    LET p == rec[d].path IN
    /\ IF file[p] # Nothing
       THEN /\ aside' = aside \cup {file[p]}
            /\ file' = [file EXCEPT ![p] = Nothing]
       ELSE UNCHANGED <<aside, file>>
    /\ op' = Step("forget", d, p, 0, Nothing)
    /\ UNCHANGED <<copies, rec, pending>>

-----------------------------------------------------------------------------
(* Deciding what a change calls for.  None of these touches the module.    *)

Fetch(d, had) ==
    /\ op' = [Step("get", d, None, 0, Nothing) EXCEPT !.had = had]
    /\ UNCHANGED <<diskVars, rec, pending>>

Ignore == op' = Idle /\ UNCHANGED <<diskVars, rec, pending>>

\* A record already past the deleted version: a restore undid the deletion.
DeletedAnyway(d, ver) ==
    IF ~Known(d) THEN Ignore
    ELSE IF ~ChangedHere(d, rec[d].path, TRUE)
         THEN /\ op' = Step(IF file[rec[d].path] = Nothing THEN "forget" ELSE "rm",
                            d, rec[d].path, 0, Nothing)
              /\ UNCHANGED <<diskVars, rec, pending>>
         ELSE MoveAside(d)

RemoteDeleted(d, ver) ==
    IF ~Known(d) \/ (ver > 0 /\ rec[d].ver > ver) THEN Ignore
    ELSE IF ~ChangedHere(d, rec[d].path, TRUE)
         THEN /\ op' = Step(IF file[rec[d].path] = Nothing THEN "forget" ELSE "rm",
                            d, rec[d].path, 0, Nothing)
              /\ UNCHANGED <<diskVars, rec, pending>>
         ELSE MoveAside(d)

RemoteChanged(d, p, ver) ==
    IF Known(d) /\ ver > 0 /\ ver <= rec[d].ver /\ p = rec[d].path
    THEN Ignore
    ELSE Fetch(d, Known(d))

Upload(d, p) ==
    IF file[p] = rec[d].sum THEN op' = Idle
    ELSE op' = Step("update", d, p, rec[d].ver, file[p])

\* The id of a creation is reserved before the module hears of it, and kept
\* until it answers. With no id left (a bound) the file stays as in a folder
\* Jiku does not have.
CreateLocal(p) ==
    LET free == {d \in Docs : hist[d] = <<>> /\ \A q \in Paths : pending[q] # d} IN
    /\ UNCHANGED <<diskVars, rec>>
    /\ IF pending[p] # None
       THEN op' = Step("create", pending[p], p, 0, file[p]) /\ pending' = pending
       ELSE IF free = {} THEN op' = Idle /\ pending' = pending
       ELSE \E d \in free : /\ pending' = [pending EXCEPT ![p] = d]
                            /\ op' = Step("create", d, p, 0, file[p])

LocalChanged(p) ==
    IF file[p] = Nothing THEN Ignore
    ELSE IF RecordsAt(p) = {} THEN CreateLocal(p)
    ELSE \E d \in RecordsAt(p) :
        IF rec[d].conf = None
        THEN Upload(d, p) /\ UNCHANGED <<diskVars, rec, pending>>
        ELSE IF CopyThere(rec[d].conf) THEN Ignore
        ELSE /\ PutDoc(d, [rec[d] EXCEPT !.conf = None])
             /\ Upload(d, p)
             /\ UNCHANGED <<diskVars, pending>>

Deciding == UNCHANGED <<moduleVars, notes, session, envVars>>

-----------------------------------------------------------------------------
(* The steps of a document operation.                                      *)

\* What a step of an operation leaves alone besides op.
InOp == UNCHANGED <<session, loopVars, memVars, envVars, lastSeq, fullDue>>
Local == InOp /\ UNCHANGED <<moduleVars, notes>>

\* reconcileDoc on a document of the listing.
RelistNoVersion ==
    /\ op.k = "relist"
    /\ Known(op.id) => rec[op.id].path = op.path
    /\ Local
    /\ IF ~Known(op.id) THEN Fetch(op.id, FALSE)
       ELSE IF file[op.path] = Nothing /\ rec[op.id].conf = None THEN Fetch(op.id, FALSE)
       ELSE Ignore

RelistNoRestore ==
    /\ op.k = "relist"
    /\ Known(op.id) => rec[op.id].path = op.path
    /\ Local
    /\ IF ~Known(op.id) THEN Fetch(op.id, FALSE)
       ELSE IF op.ver > rec[op.id].ver THEN Fetch(op.id, TRUE)
       ELSE Ignore

Relist ==
    /\ op.k = "relist"
    /\ Known(op.id) => rec[op.id].path = op.path
    /\ Local
    /\ IF ~Known(op.id) THEN Fetch(op.id, FALSE)
       ELSE IF op.ver > rec[op.id].ver THEN Fetch(op.id, TRUE)
       ELSE IF file[op.path] = Nothing /\ rec[op.id].conf = None THEN Fetch(op.id, FALSE)
       ELSE Ignore

\* moveLocal, called from reconcileDoc and from fetch: never over another file.
Following(d) ==
    /\ op.id = d
    /\ op.k = "relist" \/ (op.k = "got" /\ op.had)
    /\ Known(d) /\ rec[d].path # op.path

NeverInTheWay(p) == FALSE
InTheWay(p) == file[p] # Nothing

MoveFile ==
    /\ \E d \in Docs :
        LET from == rec[d].path IN
        /\ Following(d)
        /\ IF file[from] # Nothing
              /\ InTheWay(op.path)
           THEN op' = Idle /\ file' = file
           ELSE /\ op' = [op EXCEPT !.k = IF op.k = "relist" THEN "moved:relist" ELSE "moved:got"]
                /\ file' = IF file[from] = Nothing THEN file
                           ELSE [file EXCEPT ![from] = Nothing, ![op.path] = file[from]]
    /\ UNCHANGED <<copies, aside, rec, pending>>
    /\ Local

MoveRecord ==
    /\ op.k \in {"moved:relist", "moved:got"}
    /\ PutDoc(op.id, [rec[op.id] EXCEPT !.path = op.path])
    /\ op' = [op EXCEPT !.k = IF op.k = "moved:relist" THEN "relist" ELSE "got"]
    /\ UNCHANGED <<diskVars, pending>>
    /\ Local

\* fetch: the reply of documents.get.
Get ==
    /\ op.k = "get"
    /\ Local
    /\ IF ~doc[op.id].readable \/ doc[op.id].life = "unborn"
       THEN IF op.had THEN MoveAside(op.id) ELSE Ignore
       ELSE IF doc[op.id].life = "deleted"
       THEN IF op.had THEN RemoteDeleted(op.id, 0) ELSE Ignore
       ELSE /\ op' = [Step("got", op.id, doc[op.id].path, Current(op.id), Content(op.id))
                        EXCEPT !.had = op.had]
            /\ UNCHANGED <<diskVars, rec, pending>>

\* fetch, with the reply in hand: adopt an equal file, keep a changed one and
\* write the remote version beside it, replace any other.
Place ==
    /\ op.k = "got"
    /\ ~Following(op.id)
    /\ UNCHANGED <<file, aside, rec, pending>>
    /\ Local
    /\ IF file[op.path] # op.body /\ ChangedHere(op.id, op.path, op.had)
       THEN /\ WriteCopy(op.path, op.ver, op.body)
            /\ op' = [op EXCEPT !.k = "put", !.conf = CopyName(op.path, op.ver)]
       ELSE /\ op' = [op EXCEPT !.k = IF file[op.path] = op.body THEN "put" ELSE "write"]
            /\ UNCHANGED copies

Write ==
    /\ op.k = "write"
    /\ file' = [file EXCEPT ![op.path] = op.body]
    /\ op' = [op EXCEPT !.k = "put"]
    /\ UNCHANGED <<copies, aside, rec, pending>>
    /\ Local

Put ==
    /\ op.k = "put"
    /\ PutDoc(op.id, [path |-> op.path, ver |-> op.ver, sum |-> op.body, conf |-> op.conf])
    /\ op' = Idle
    /\ UNCHANGED <<diskVars, pending>>
    /\ Local

Remove ==
    /\ op.k = "rm"
    /\ file' = [file EXCEPT ![op.path] = Nothing]
    /\ op' = [op EXCEPT !.k = "forget"]
    /\ UNCHANGED <<copies, aside, rec, pending>>
    /\ Local

Forget ==
    /\ op.k = "forget"
    /\ DeleteDoc(op.id)
    /\ op' = Idle
    /\ UNCHANGED <<diskVars, pending>>
    /\ Local

\* localChanged: the request, and what its reply calls for.
SavedOnOldVersion(ver) == op' = [op EXCEPT !.k = "put"]
Saved(ver) == op' = [op EXCEPT !.k = "put", !.ver = ver]

Update ==
    /\ op.k = "update"
    /\ LET reply == SaveReply(op.id, op.ver, op.body) IN
        /\ IF reply = "saved" THEN ModuleSaves(op.id, op.body) /\ Echo
                               ELSE UNCHANGED <<moduleVars, notes>>
        /\ retry' = IF reply = "locked" THEN retry \cup {op.id} ELSE retry
        /\ CASE reply = "saved" -> Saved(Current(op.id) + 1) /\ UNCHANGED <<diskVars, rec, pending>>
             [] reply = "same" -> Saved(Current(op.id)) /\ UNCHANGED <<diskVars, rec, pending>>
             [] reply = "version_conflict" -> Fetch(op.id, TRUE)
             [] reply = "locked" -> Ignore
             [] reply = "not_found" -> MoveAside(op.id)
    /\ UNCHANGED <<session, loopVars, dirty, envVars, lastSeq, fullDue>>

\* createLocal: the request; the reply's path and version go to the record.
Create ==
    /\ op.k = "create"
    /\ UNCHANGED <<diskVars, rec>>
    /\ InOp
    /\ LET reply == CreateReply(op.id, op.path, op.body) IN
        /\ IF reply = "created" THEN ModuleCreates(op.id, op.path, op.body) /\ Echo
                                ELSE UNCHANGED <<moduleVars, notes>>
        /\ CASE reply = "created" -> op' = [op EXCEPT !.k = "clear", !.ver = 1]
             [] reply = "known" -> op' = [op EXCEPT !.k = "clear", !.ver = Current(op.id),
                                                    !.path = doc[op.id].path]
             [] reply = "exists" -> op' = Idle
        /\ pending' = IF reply = "exists" THEN [pending EXCEPT ![op.path] = None] ELSE pending

\* The reservation goes first, the record after it.
ClearPending ==
    /\ op.k = "clear"
    /\ pending' = [p \in Paths |-> IF pending[p] = op.id THEN None ELSE pending[p]]
    /\ op' = [op EXCEPT !.k = "put"]
    /\ UNCHANGED <<diskVars, rec>>
    /\ Local

OpStep == \/ Relist \/ MoveFile \/ MoveRecord \/ Get \/ Place \/ Write \/ Put
          \/ Remove \/ Forget \/ Update \/ Create \/ ClearPending

-----------------------------------------------------------------------------
(* What the engine goes through: the agenda of a session's start, of a     *)
(* catch-up, of a full reconciliation and of a scan.                       *)

Agenda == UNCHANGED <<moduleVars, notes, session, memVars, envVars>>
NoDecision == UNCHANGED <<diskVars, rec, pending, op>>

\* fullReconcile
List ==
    /\ Doing("list")
    /\ listed' = [d \in Docs |-> IF Readable(d) THEN <<doc[d].path, Current(d)>> ELSE None]
    /\ todo' = {d \in Docs : Readable(d)}
    /\ Finish
    /\ NoDecision /\ UNCHANGED <<page, lastSeq, fullDue>> /\ Agenda

ReconcileDoc(d) ==
    /\ Doing("reconcile") /\ d \in todo
    /\ todo' = todo \ {d}
    /\ op' = Step("relist", d, listed[d][1], listed[d][2], Nothing)
    /\ UNCHANGED <<diskVars, rec, pending, agenda, listed, page, lastSeq, fullDue>> /\ Agenda

\* What the database knows and the listing lacks is looked up after the walk.
AllReconciled ==
    /\ Doing("reconcile") /\ todo = {}
    /\ todo' = {d \in Docs : Known(d) /\ listed[d] = None}
    /\ Finish
    /\ NoDecision /\ UNCHANGED <<listed, page, lastSeq, fullDue>> /\ Agenda

NotListed(d) ==
    /\ Doing("missing") /\ d \in todo
    /\ todo' = todo \ {d}
    /\ MoveAside(d)
    /\ UNCHANGED <<agenda, listed, page, lastSeq, fullDue>> /\ Agenda

AllMoved ==
    /\ Doing("missing") /\ todo = {}
    /\ Finish
    /\ NoDecision /\ UNCHANGED <<todo, listed, page, lastSeq, fullDue>> /\ Agenda

\* scanLocal
StartScan ==
    /\ Doing("scan")
    /\ todo' = {p \in Paths : file[p] # Nothing}
    /\ Finish
    /\ NoDecision /\ UNCHANGED <<listed, page, lastSeq, fullDue>> /\ Agenda

ScanFile(p) ==
    /\ Doing("visit") /\ p \in todo
    /\ todo' = todo \ {p}
    /\ LocalChanged(p)
    /\ UNCHANGED <<agenda, listed, page, lastSeq, fullDue>> /\ Agenda

ScanDone ==
    /\ Doing("visit") /\ todo = {}
    /\ Finish
    /\ NoDecision /\ UNCHANGED <<todo, listed, page, lastSeq, fullDue>> /\ Agenda

StampFull ==
    /\ Doing("stamp")
    /\ fullDue' = FALSE
    /\ Finish
    /\ NoDecision /\ UNCHANGED <<todo, listed, page, lastSeq>> /\ Agenda

\* catchUp: a cursor the feed no longer reaches back to costs a full
\* reconciliation and then the feed from where it starts.
FirstKept(pos) == IF pos < floor THEN floor ELSE pos

ReadPage ==
    /\ Doing("read")
    /\ IF page.pos # 0 /\ page.pos < floor
       THEN /\ agenda' = Full \o agenda
            /\ page' = NoPage
       ELSE LET last == FirstKept(page.pos) + PageSize
                end == IF Len(feed) < last THEN Len(feed) ELSE last IN
            /\ page' = [pos |-> page.pos, at |-> FirstKept(page.pos), end |-> end,
                        more |-> end < Len(feed)]
            /\ Finish
    /\ NoDecision /\ UNCHANGED <<todo, listed, lastSeq, fullDue>> /\ Agenda

ApplyChange ==
    /\ Doing("apply") /\ page.at < page.end
    /\ page' = [page EXCEPT !.at = @ + 1]
    /\ LET e == feed[page.at + 1] IN
        IF e.type = "deleted" THEN RemoteDeleted(e.id, e.ver) ELSE RemoteChanged(e.id, e.path, e.ver)
    /\ UNCHANGED <<agenda, todo, listed, lastSeq, fullDue>> /\ Agenda

PageDone ==
    /\ Doing("apply") /\ page.at >= page.end
    /\ lastSeq' = IF page.end > page.pos THEN page.end ELSE lastSeq
    /\ page' = [page EXCEPT !.pos = IF page.end > page.pos THEN page.end ELSE @]
    /\ agenda' = IF page.more THEN CatchUp \o Tail(agenda) ELSE Tail(agenda)
    /\ NoDecision /\ UNCHANGED <<todo, listed, fullDue>> /\ Agenda

AgendaStep ==
    \/ List \/ AllReconciled \/ AllMoved \/ StartScan \/ ScanDone \/ StampFull
    \/ ReadPage \/ ApplyChange \/ PageDone
    \/ \E d \in Docs : ReconcileDoc(d) \/ NotListed(d)
    \/ \E p \in Paths : ScanFile(p)

-----------------------------------------------------------------------------
(* The session and its select loop.                                        *)

\* Notifications are subscribed to before anything is read.
StartSession ==
    /\ session = "off"
    /\ session' = "starting"
    /\ agenda' = IF fullDue THEN Full ELSE CatchUp \o Scan
    /\ page' = [NoPage EXCEPT !.pos = lastSeq]
    /\ NoDecision
    /\ UNCHANGED <<moduleVars, notes, todo, listed, lastSeq, fullDue, memVars, envVars>>

Online ==
    /\ session = "starting" /\ Quiet /\ agenda = <<>>
    /\ session' = "up"
    /\ NoDecision
    /\ UNCHANGED <<moduleVars, notes, loopVars, lastSeq, fullDue, memVars, envVars>>

\* Only reading the feed moves lastSeq: a notification that arrives says nothing
\* of those that were lost.
SeqFromNote == Len(feed)
SeqAfterNote == lastSeq

\* applyNotification
HandleNote ==
    /\ Selecting /\ notes # <<>>
    /\ LET n == Head(notes) IN
        /\ notes' = Tail(notes)
        /\ agenda' = IF n.type = "access" THEN Full ELSE agenda
        /\ retry' = IF n.type = "unlocked" THEN retry \ {n.id} ELSE retry
        /\ \/ n.type = "access" /\ NoDecision
           \/ n.type = "deleted" /\ RemoteDeleted(n.id, n.ver)
           \/ n.type = "changed" /\ RemoteChanged(n.id, n.path, n.ver)
           \/ n.type = "unlocked" /\ IF n.id \in retry /\ Known(n.id)
                                     THEN LocalChanged(rec[n.id].path) ELSE Ignore
    /\ lastSeq' = SeqAfterNote
    /\ UNCHANGED <<moduleVars, session, todo, listed, page, fullDue, dirty, envVars>>

\* A file that has been quiet for the debounce is handled.
HandleDue(p) ==
    /\ Selecting /\ p \in dirty
    /\ dirty' = dirty \ {p}
    /\ LocalChanged(p)
    /\ UNCHANGED <<moduleVars, notes, session, loopVars, lastSeq, fullDue, retry, envVars>>

\* The catch-up ticker reads the feed; a reconnection of the bus also scans.
Begin(what) ==
    /\ agenda' = what
    /\ page' = [NoPage EXCEPT !.pos = lastSeq]
    /\ NoDecision
    /\ UNCHANGED <<moduleVars, notes, session, todo, listed, lastSeq, memVars, envVars>>

Tick == Selecting /\ Begin(CatchUp) /\ UNCHANGED fullDue
Reconnected == Selecting /\ "reconnect" \in FaultKinds /\ Begin(CatchUp \o Scan) /\ UNCHANGED fullDue

\* Once a day the full check finds lastFull older than FullEvery.
FullCheck == Selecting /\ Begin(Full) /\ fullDue' = TRUE

LoopStep == \/ StartSession \/ Online \/ HandleNote \/ Tick \/ Reconnected \/ FullCheck
            \/ \E p \in Paths : HandleDue(p)

Engine == OpStep \/ AgendaStep \/ LoopStep

-----------------------------------------------------------------------------
(* What goes wrong.                                                        *)

Fault(kind) ==
    /\ kind \in FaultKinds /\ failed < Faults
    /\ failed' = failed + 1
    /\ UNCHANGED <<diskVars, lastSeq, fullDue, seen, edits>>

EndSession ==
    /\ session' = "off"
    /\ notes' = <<>> /\ agenda' = <<>> /\ todo' = {} /\ op' = Idle /\ dirty' = {}
    /\ page' = NoPage
    /\ listed' = [d \in Docs |-> None]

\* The process dies and systemd starts it again: what it held in memory is gone.
Crash ==
    /\ Fault("crash") /\ session # "off"
    /\ EndSession
    /\ retry' = {}
    /\ UNCHANGED <<moduleVars, rec, pending>>

\* The module stops answering: the session ends (errOffline), the timers stop
\* and wait() drains the disk events.
Unreachable ==
    /\ Fault("offline") /\ session # "off"
    /\ op.k \in {"idle", "get", "update", "create"}
    /\ EndSession
    /\ UNCHANGED <<moduleVars, rec, pending, retry>>

\* The module does what it is asked and the reply does not tell.
Done ==
    \/ op.k = "update" /\ SaveReply(op.id, op.ver, op.body) = "saved" /\ ModuleSaves(op.id, op.body)
    \/ op.k = "create" /\ CreateReply(op.id, op.path, op.body) = "created"
                       /\ ModuleCreates(op.id, op.path, op.body)

ReplyLost ==
    /\ Fault("lost")
    /\ Done
    /\ EndSession
    /\ UNCHANGED <<rec, pending, retry>>

\* A request fails in a way that does not end the session: it is logged and the
\* engine goes on with the next document (an entry of the feed is not retried).
RequestFails ==
    /\ Fault("error")
    /\ op.k \in {"get", "update", "create"}
    /\ op' = Idle
    /\ UNCHANGED <<moduleVars, notes, session, rec, pending, loopVars, memVars>>

\* The same, when the module had already done what it was asked.
FailsAfterDoing ==
    /\ Fault("half")
    /\ Done /\ Echo
    /\ op' = Idle
    /\ UNCHANGED <<session, rec, pending, loopVars, memVars>>

\* The module refuses the content: said to the person, and the reservation goes.
Refused ==
    /\ Fault("refuse")
    /\ op.k \in {"update", "create"}
    /\ op' = Idle
    /\ pending' = IF op.k = "create" THEN [pending EXCEPT ![op.path] = None] ELSE pending
    /\ UNCHANGED <<moduleVars, notes, session, rec, loopVars, memVars>>

\* Listing the documents or reading the feed fails: what called for it is given
\* up, and a session that was starting ends.
ListingFails ==
    /\ Fault("listing")
    /\ Doing("list") \/ Doing("read")
    /\ IF session = "starting"
       THEN EndSession
       ELSE agenda' = <<>> /\ UNCHANGED <<session, notes, todo, op, dirty, page, listed>>
    /\ UNCHANGED <<moduleVars, rec, pending, retry>>

Misfortune == \/ Crash \/ Unreachable \/ ReplyLost \/ RequestFails \/ ListingFails
              \/ FailsAfterDoing \/ Refused

-----------------------------------------------------------------------------
(* The person at the folder, outside the program: an editor, a shell.      *)

\* Between the engine's read of a file and its rename or removal of it.
Replacing(p) == op.k \in {"write", "rm"} /\ op.path = p

Person(kind, p) ==
    /\ kind \in PersonKinds /\ edits < PersonActs
    /\ edits' = edits + 1
    /\ UNCHANGED <<doc, hist, feed, floor, acts, notes, session, aside, dbVars, loopVars, op, retry, failed>>

\* The watcher reports it, unless its queue overflows.
Touches(p) ==
    /\ EditorRace \/ ~Replacing(p)
    /\ \/ dirty' = IF session = "off" THEN dirty ELSE dirty \cup {p}
       \/ "overflow" \in FaultKinds /\ dirty' = dirty

Looks(cs) == seen' = seen \cup (cs \ {Nothing})

PersonSaves(p) ==
    /\ Person("save", p) /\ Touches(p)
    /\ file' = [file EXCEPT ![p] = fresh]
    /\ fresh' = fresh + 1
    /\ Looks({file[p], fresh})
    /\ UNCHANGED copies

\* The person settles a conflict by taking the remote version.
PersonTakesCopy(c) ==
    /\ Person("take", c.name[1]) /\ Touches(c.name[1])
    /\ c \in copies
    /\ file' = [file EXCEPT ![c.name[1]] = c.body]
    /\ Looks({file[c.name[1]], c.body})
    /\ UNCHANGED <<copies, fresh>>

PersonRemoves(p) ==
    /\ Person("rm", p) /\ Touches(p)
    /\ file[p] # Nothing
    /\ file' = [file EXCEPT ![p] = Nothing]
    /\ Looks({file[p]})
    /\ UNCHANGED <<copies, fresh>>

\* Deleting the copy says the merge is done. Its event is for an ignored name.
PersonRemovesCopy(c) ==
    /\ Person("rmcopy", c.name[1])
    /\ c \in copies
    /\ copies' = copies \ {c}
    /\ Looks({file[c.name[1]], c.body})
    /\ UNCHANGED <<file, fresh, dirty>>

People == \/ \E p \in Paths : PersonSaves(p) \/ PersonRemoves(p)
          \/ \E c \in copies : PersonTakesCopy(c) \/ PersonRemovesCopy(c)

OthersAct == OtherPeople /\ UNCHANGED <<session, diskVars, dbVars, loopVars, op, memVars, envVars>>

-----------------------------------------------------------------------------
Init ==
    /\ ModuleInit
    /\ session = "off"
    /\ file = [p \in Paths |-> Nothing] /\ copies = {} /\ aside = {}
    /\ rec = [d \in Docs |-> None] /\ pending = [p \in Paths |-> None]
    /\ lastSeq = 0 /\ fullDue = TRUE
    /\ agenda = <<>> /\ todo = {} /\ listed = [d \in Docs |-> None] /\ page = NoPage
    /\ op = Idle /\ retry = {} /\ dirty = {}
    /\ seen = {} /\ edits = 0 /\ failed = 0

Next == Engine \/ Misfortune \/ People \/ OthersAct

Spec == Init /\ [][Next]_vars

\* The loop runs as long as the process does; Go's select serves every ready
\* case sooner or later, though it may serve others first each time; systemd
\* restarts a daemon that died; a lock expires.  Nothing is assumed of people.
\* Within a day the full reconciliation need not come.
DayFairness ==
    /\ WF_vars(OpStep) /\ WF_vars(AgendaStep)
    /\ WF_vars(StartSession) /\ WF_vars(Online)
    /\ SF_vars(HandleNote) /\ SF_vars(Tick)
    /\ \A p \in Paths : SF_vars(HandleDue(p))
    /\ \A d \in Docs : WF_vars(LockEnds(d) /\ OthersAct)

DaySpec == Spec /\ DayFairness
FairSpec == DaySpec /\ SF_vars(FullCheck)

-----------------------------------------------------------------------------
(* Properties.                                                             *)

Kinds == {"idle", "relist", "moved:relist", "get", "got", "moved:got", "write", "put",
          "rm", "forget", "update", "create", "clear"}
Steps == [k : Kinds, id : Docs \cup {0}, path : Paths \cup {None}, ver : Nat, body : Nat,
          had : BOOLEAN, conf : (Paths \X Nat) \cup {None}]
Entries == [type : {"changed", "deleted"}, id : Docs, path : Paths, ver : Nat]
Notices == Entries \cup [type : {"unlocked", "access"}, id : Docs \cup {0}, path : {None}, ver : Nat]

ModuleOK ==
    /\ doc \in [Docs -> [life : Lives, path : Paths, readable : BOOLEAN, locked : BOOLEAN]]
    /\ hist \in [Docs -> Seq(Contents)]
    /\ feed \in Seq(Entries) /\ floor \in Nat /\ notes \in Seq(Notices)
    /\ fresh \in Contents /\ acts \in Nat

FolderOK ==
    /\ file \in [Paths -> Nat] /\ copies \subseteq Copies /\ aside \subseteq Contents
    /\ rec \in [Docs -> Records \cup {None}] /\ pending \in [Paths -> Docs \cup {None}]
    /\ op \in Steps

LoopOK ==
    /\ session \in {"off", "starting", "up"}
    /\ lastSeq \in Nat /\ fullDue \in BOOLEAN
    /\ agenda \in Seq({"list", "reconcile", "missing", "scan", "visit", "stamp", "read", "apply"})
    /\ todo \subseteq Docs \cup Paths
    /\ listed \in [Docs -> (Paths \X Nat) \cup {None}]
    /\ page \in [pos : Nat, at : Nat, end : Nat, more : BOOLEAN]
    /\ retry \subseteq Docs /\ dirty \subseteq Paths

EnvOK == seen \subseteq Contents /\ edits \in Nat /\ failed \in Nat

\* Every variable keeps its kind of value.
TypeOK == ModuleOK /\ FolderOK /\ LoopOK /\ EnvOK

\* An edit is "uploaded on top of what they saw" (engine.go:962): the version an
\* upload replaces is one the person wrote or had in front of them.
UploadsOnWhatWasSeen ==
    [][acts' = acts =>
        \A d \in Docs : hist[d] # <<>> /\ hist'[d] # hist[d] => Content(d) \in seen]_vars

\* The module's version ver of d is body.
Honest(d, ver, body) == ver \in Versions(d) /\ hist[d][ver] = body

\* A record says what the module has at that version (state.go: the checksum the
\* file was last made equal to). If it lied, an edit would be taken for a
\* version already uploaded.
RecordHonest == \A d \in Docs : Known(d) => Honest(d, rec[d].ver, rec[d].sum)

\* The copy a conflict waits for is the version the merge will be uploaded on.
CopyIsTheBase ==
    \A d \in Docs : \A c \in copies :
        Known(d) /\ rec[d].conf = c.name => c.body = rec[d].sum

\* A replayed deletion that a restore undid is ignored (engine_test.go:503): no
\* entry of the feed and no notification takes away a document the database
\* holds at its current version.
DeletionsUndone ==
    [][\A d \in Docs :
        /\ op.k \notin {"get", "update"} /\ op'.k \in {"rm", "forget"} /\ op' # op /\ op'.id = d
        /\ Doing("apply") \/ Selecting
        => ~(Readable(d) /\ rec[d].ver = Current(d))]_vars

\* "The retry is the same creation and not a second document" (state.go:265):
\* one text of the person never becomes two documents.
CreatedOnce ==
    \A d, e \in Docs : d # e /\ Readable(d) /\ Readable(e) => hist[d][1] # hist[e][1]

NeverMoved(d) ==
    /\ d \in Initial => doc[d].path = Home[d]
    /\ \A i \in 1..Len(feed) : feed[i].id = d => feed[i].path = doc[d].path

\* The feed is never read past a change that was not applied: a readable
\* document whose last entry lies before lastSeq is held at that version
\* (engine.go:1189-1193). Requests that fail without ending the session, access
\* that comes and goes, and documents that were moved, whose new path may be
\* another file's, are left to the full reconciliation.
FeedApplied ==
    \A d \in Docs : \A i \in 1..Len(feed) :
        /\ Readable(d) /\ NeverMoved(d) /\ i <= lastSeq /\ feed[i].id = d
        /\ \A j \in (i + 1)..Len(feed) : feed[j].id # d
        => Known(d) /\ rec[d].ver = feed[i].ver

\* A document waits for the person when its conflict copy is still there.
Waiting(d) == rec[d].conf # None /\ CopyThere(rec[d].conf)

Mirrored(d) ==
    /\ Known(d) /\ rec[d].path = doc[d].path /\ rec[d].ver = Current(d)
    /\ file[doc[d].path] = Content(d) \/ Waiting(d)

Settled == \A d \in Docs : IF Readable(d) THEN Mirrored(d) ELSE ~Known(d)

\* Once people stop and nothing more fails, the folder is the mirror of what
\* the person can read, but for the conflicts that wait for them.
Settles == <>[]Settled

\* "Deleting a file: does not delete the document; it comes back"
\* (docs-module.md:288), unless a conflict copy says the file waits.
DeletedComesBack ==
    \A d \in Docs : (Readable(d) /\ Known(d) /\ file[rec[d].path] = Nothing /\ ~Waiting(d))
                    ~> (~Readable(d) \/ (Known(d) /\ (file[rec[d].path] # Nothing \/ Waiting(d))))

\* "Merge it into your file and delete the copy: that is what tells the daemon
\* to upload the merge" (docs-module.md:286), in a session that goes on.
MergeUploaded ==
    \A d \in Docs :
        (session = "up" /\ Known(d) /\ rec[d].conf # None /\ ~Waiting(d) /\ file[rec[d].path] # Nothing)
        ~> (session # "up" \/ ~Known(d) \/ rec[d].conf = None \/ Waiting(d))

\* What the daemon promises of the folder (Mirror), with the module's versions
\* and the files moved aside as what is safe elsewhere.
Promise == INSTANCE Mirror WITH safe <- Published \cup aside, hand <- edits
KeepsPromise == Promise!Spec

-----------------------------------------------------------------------------
(* What the properties rest on: the invariant the proofs are made with.    *)

\* The step an operation is at fixes what it holds.
OpFits ==
    /\ op.k # "idle" => op.id \in Docs
    /\ op.k \notin {"idle", "get"} => op.path \in Paths
    /\ op.k \in {"got", "moved:got", "write", "put", "update", "create", "clear"}
       => op.body \in Contents
    /\ op.k \in {"moved:relist", "moved:got", "update"} \/ op.had => Known(op.id)

\* What precedes a step that works on what the one before it left in todo.
Before(what) == CASE what = "reconcile" -> "list"
                  [] what = "missing" -> "reconcile"
                  [] what = "visit" -> "scan"

AgendaFits ==
    /\ \A i \in 2..Len(agenda) : agenda[i] \in {"reconcile", "missing", "visit"}
                                => agenda[i - 1] = Before(agenda[i])
    /\ agenda # <<>> =>
        /\ Head(agenda) = "reconcile" => \A d \in todo : d \in Docs /\ listed[d] # None
        /\ Head(agenda) = "missing" =>
            /\ op.k \in {"idle", "forget"}
            /\ \A d \in todo : d \in Docs /\ Known(d) /\ (op.k = "forget" => op.id # d)
        /\ Head(agenda) = "visit" => todo \subseteq Paths
    /\ page.end <= Len(feed)

\* A document has versions from its creation on.
HistFits == \A d \in Docs : doc[d].life = "unborn" <=> hist[d] = <<>>

\* What an operation is about to record is a version the module has.
OpHonest == op.k \in {"got", "moved:got", "write", "put", "clear"}
            => Honest(op.id, op.ver, op.body)

\* A file about to be replaced or removed holds nothing but a version.
ReplacedIsSafe == op.k \in {"write", "rm"} => file[op.path] \in Published \cup {Nothing}

Honesty == RecordHonest /\ OpHonest

IInv == /\ TypeOK /\ OpFits /\ AgendaFits /\ HistFits
        /\ ~RetryReturnsAny => Honesty
        /\ ~RetryReturnsAny /\ ~EditorRace => ReplacedIsSafe
=============================================================================
