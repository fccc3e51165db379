---------------------------- MODULE DocsCommands ----------------------------
(***************************************************************************)
(* People and agents who write documents with `jiku docs` commands         *)
(* (cmd/jiku/docs.go, docs_edit.go, docs_relate.go over modules/docs), on  *)
(* what they last read of them.  A command that got no reply may be typed  *)
(* again while the first request is still on its way.                      *)
(*                                                                         *)
(* The module that serves them is external: it is modelled from what       *)
(* modules/docs says of its answers.                                       *)
(***************************************************************************)
EXTENDS Naturals, FiniteSets, Sequences

CONSTANTS
    People,     \* each types one command at a time
    Ids,        \* documents, numbered from 1; the first exists
    Places,     \* paths, numbers
    Kinds,      \* the commands a configuration enables
    Refs,       \* how they name a document: "id", "path"
    MaxOrders,  \* bound: commands typed, not counting those typed again
    Mishaps     \* bound: what goes wrong

ASSUME PersonAssumption ==
    /\ Ids \subseteq Nat \ {0} /\ Places \subseteq Nat \ {0} /\ MaxOrders \in Nat /\ Mishaps \in Nat
    /\ Refs \subseteq {"id", "path"} /\ Refs # {}
    /\ Kinds \subseteq {"new", "put", "rm", "restore", "mv", "relate", "edit", "lock", "unlock"}

VARIABLES
    life, filed, versions, lockedBy,  \* the module's documents; a lock is of a session, 0 for none
    wire,                             \* requests on their way
    stage, order, asked, inbox,       \* per person: where the command is, its words, the request
                                      \* it waits for, the reply
    told,                       \* what was read last; how the last command ended
    renewing,                         \* edits that wait for a renewal
    kept,                             \* edits whose working copy is on disk
    heldSessions,                          \* sessions that `docs lock` printed, to renew or release
    orders, mishaps,
    did, typedText, lockLost, leaky,  \* history: changes each command made, edits that typed
    strayed                           \* something, those whose lock ended, those that may leave one,
                                      \* commands that found another document at the path

documents == <<life, filed, versions, lockedBy>>
person == <<stage, order, asked, inbox, told, renewing, kept, heldSessions>>
deskHistory == <<did, typedText, lockLost, leaky, strayed>>
deskVars == <<documents, wire, person, orders, mishaps, deskHistory>>

-----------------------------------------------------------------------------
(* The module.  A session, like a text, is named by the command that made   *)
(* it.                                                                     *)

Current(d) == versions[d][Len(versions[d])]
Live(d) == life[d] = "live"
Occupied(place) == \E d \in Ids : Live(d) /\ filed[d] = place

OnVersion == {"put", "save", "relate", "mv", "rm", "restore"}
OfLive == {"put", "save", "relate", "mv", "lock", "renew"}

Refuses(m) ==
    \/ m.kind \in OfLive /\ ~Live(m.id)
    \/ m.kind \in OnVersion \cup {"lock", "renew"} /\ lockedBy[m.id] \notin {0, m.session}
    \/ m.kind = "new" /\ life[m.id] = "unborn" /\ Occupied(m.place)
    \/ m.kind = "mv" /\ Occupied(m.place)
    \/ m.kind = "restore" /\ ~Live(m.id) /\ Occupied(filed[m.id])

\* What changes nothing succeeds, on whatever version.
AlreadySo(m) ==
    \/ m.kind = "new" /\ life[m.id] # "unborn"
    \/ m.kind \in {"put", "save"} /\ Current(m.id).words = m.words
    \/ m.kind = "relate" /\ Current(m.id).related
    \/ m.kind = "rm" /\ life[m.id] = "deleted"
    \/ m.kind = "unlock" /\ ~m.force /\ lockedBy[m.id] # m.session

Stale(m) == m.kind \in OnVersion /\ m.base # Len(versions[m.id])

Outcome(m) ==
    IF Refuses(m) THEN "refused" ELSE IF AlreadySo(m) THEN "same"
    ELSE IF Stale(m) THEN "conflict" ELSE "done"

NewVersion(m) ==
    CASE m.kind = "relate" -> [Current(m.id) EXCEPT !.related = TRUE, !.from = Current(m.id).words]
      [] m.kind = "restore" -> [versions[m.id][1] EXCEPT !.from = Current(m.id).words]
      [] OTHER -> [words |-> m.words, from |-> m.from, related |-> FALSE]

Does(m) ==
    /\ life' = [life EXCEPT ![m.id] = IF m.kind \in {"new", "restore"} THEN "live"
                                      ELSE IF m.kind = "rm" THEN "deleted" ELSE @]
    /\ filed' = [filed EXCEPT ![m.id] = IF m.kind \in {"new", "mv"} THEN m.place ELSE @]
    /\ versions' = IF m.kind \in {"new", "put", "save", "relate", "restore"}
                   THEN [versions EXCEPT ![m.id] = Append(@, NewVersion(m))] ELSE versions
    /\ lockedBy' = [lockedBy EXCEPT ![m.id] = IF m.kind \in {"lock", "renew"} THEN m.session
                                              ELSE IF m.kind \in {"unlock", "rm"} THEN 0 ELSE @]
    /\ did' = IF m.kind \in {"lock", "renew", "unlock"} THEN did ELSE [did EXCEPT ![m.n] = @ + 1]
    /\ lockLost' = IF m.kind = "unlock" THEN lockLost \cup ({lockedBy[m.id]} \ {0, m.session}) ELSE lockLost

-----------------------------------------------------------------------------
(* What a command sends.                                                   *)

NoRequest == [kind |-> "none"]
NoOrder == [n |-> 0, try |-> 1, what |-> "none", ref |-> "id", read |-> 0, id |-> 0, dest |-> 1, path |-> 1,
            base |-> 0, from |-> 0, how |-> "inline", session |-> 0, force |-> FALSE]

Fresh == {d \in Ids : life[d] = "unborn" /\ (\A p \in People : order[p].id # d) /\ \A m \in wire : m.id # d}

BaseNow(p) == Len(versions[order[p].id])
\* --base-version, as it was typed: the version that was read.
Base(p) == order[p].base

\* --session, or the session of its own.
SessionOf(p) == IF order[p].session = 0 THEN order[p].n ELSE order[p].session

Request(p, kind, d, base, place, words, how) ==
    [p |-> p, n |-> order[p].n, try |-> order[p].try, kind |-> kind, id |-> d, base |-> base,
     session |-> SessionOf(p), force |-> order[p].force, place |-> place, words |-> words,
     from |-> IF words = 0 THEN 0 ELSE order[p].from, how |-> how]

\* The library's methods. The id of a creation is made before the first try, printed, and given again.
New(p, d) == Request(p, "new", d, 0, order[p].dest, order[p].n, order[p].how)
Put(p, d) == Request(p, "put", d, Base(p), 0, order[p].n, order[p].how)
PutInSession(p) == Request(p, "save", order[p].id, Base(p), 0, order[p].n, order[p].how)
Move(p, d) == Request(p, "mv", d, Base(p), order[p].dest, 0, "")
Delete(p, d) == Request(p, "rm", d, Base(p), 0, 0, "")
Restore(p, d) == Request(p, "restore", d, Base(p), 0, 0, "")
UpdateRelations(p, d) == Request(p, "relate", d, Base(p), 0, 0, "")
Lock(p, d) == Request(p, "lock", d, 0, 0, 0, "")
RenewLock(p) == Request(p, "renew", order[p].id, 0, 0, 0, "")
Unlock(p, d) == Request(p, "unlock", d, 0, 0, 0, "")

Ask(p, m) ==
    /\ wire' = wire \cup {m}
    /\ asked' = [asked EXCEPT ![p] = m]
    /\ stage' = [stage EXCEPT ![p] = "waits"]

Free(p) == stage' = [stage EXCEPT ![p] = "free"] /\ asked' = [asked EXCEPT ![p] = NoRequest]
Ends(p, what) == Free(p) /\ told' = [told EXCEPT ![p] = what]

Mishap == mishaps < Mishaps /\ mishaps' = mishaps + 1

\* GetContent: the content is checked against the checksum of the version reported.
AnyContent(d, words) == TRUE
IsContent(d, words) == words = Current(d).words

Contents(d) == {w \in {versions[d][v].words : v \in DOMAIN versions[d]} : IsContent(d, w)}

\* A person types a command about what was just read, by path or by id.
TypesWith(p, what, d, ref, from, dest, session, force) ==
    /\ stage[p] = "free" /\ orders < MaxOrders /\ what \in Kinds
    /\ orders' = orders + 1
    /\ order' = [order EXCEPT ![p] =
            [n |-> orders + 1, try |-> 1, what |-> what, ref |-> ref, read |-> d, id |-> d, path |-> filed[d],
             dest |-> dest, base |-> Len(versions[d]), from |-> from, how |-> "inline",
             session |-> session, force |-> force]]
    /\ stage' = [stage EXCEPT ![p] = "resolves"]
    /\ told' = [told EXCEPT ![p] = "none"]
    /\ UNCHANGED <<documents, wire, asked, inbox, renewing, kept, heldSessions, mishaps, deskHistory>>

Types(p, what, d, ref, from, dest) == TypesWith(p, what, d, ref, from, dest, 0, FALSE)

Known == {d \in Ids : life[d] # "unborn"}

NewCmd(p) == \E d \in Fresh, dest \in Places : Types(p, "new", d, "id", 0, dest)
PutCmd(p) ==
    \E d \in Known, ref \in Refs, s \in {0} \cup heldSessions :
        \E w \in Contents(d) : TypesWith(p, "put", d, ref, w, 0, s, FALSE)
MvCmd(p) ==
    \E d \in Known, ref \in Refs, dest \in Places, s \in {0} \cup heldSessions :
        TypesWith(p, "mv", d, ref, 0, dest, s, FALSE)
RmCmd(p) == \E d \in Known, ref \in Refs : Types(p, "rm", d, ref, 0, 0)
RestoreCmd(p) == \E d \in Known, ref \in Refs : Types(p, "restore", d, ref, 0, 0)
RelateCmd(p) == \E d \in Known, ref \in Refs : Types(p, "relate", d, ref, 0, 0)
EditCmd(p) == \E d \in Known, ref \in Refs : Types(p, "edit", d, ref, 0, 0)

LockCmd(p) ==
    \E d \in Known, ref \in Refs, s \in {0} \cup heldSessions : TypesWith(p, "lock", d, ref, 0, 0, s, FALSE)
UnlockCmd(p) ==
    \E d \in Known, ref \in Refs : \/ \E s \in heldSessions : TypesWith(p, "unlock", d, ref, 0, 0, s, FALSE)
                                   \/ TypesWith(p, "unlock", d, ref, 0, 0, 0, TRUE)

\* The command is typed again as it was. Without --session, `docs lock` makes another session.
Repeats(p) ==
    /\ stage[p] = "free" /\ told[p] = "noreply" /\ order[p].what # "edit" /\ order[p].try = 1
    /\ order[p].what = "lock" => order[p].session # 0
    /\ order' = [order EXCEPT ![p].try = 2]
    /\ stage' = [stage EXCEPT ![p] = "resolves"]
    /\ UNCHANGED <<documents, wire, asked, inbox, told, renewing, kept, heldSessions, orders, mishaps, deskHistory>>

\* ResolveDocumentID: what is filed there now; restore finds a deleted document too.
Found(p) ==
    LET at == {d \in Ids : Live(d) /\ filed[d] = order[p].path}
        gone == {d \in Ids : life[d] = "deleted" /\ filed[d] = order[p].path} IN
    IF order[p].ref = "id" THEN {order[p].id}
    ELSE IF at = {} /\ order[p].what = "restore" THEN gone ELSE at

Method(p, d) ==
    LET what == order[p].what IN
    CASE what = "new" -> New(p, d) [] what = "put" -> Put(p, d) [] what = "mv" -> Move(p, d)
      [] what = "rm" -> Delete(p, d) [] what = "restore" -> Restore(p, d)
      [] what = "relate" -> UpdateRelations(p, d) [] what = "unlock" -> Unlock(p, d) [] OTHER -> Lock(p, d)

Resolves(p) ==
    /\ stage[p] = "resolves"
    /\ \/ /\ Found(p) = {} /\ Ends(p, "refused") /\ UNCHANGED <<order, wire, strayed>>
       \/ \E d \in Found(p) :
            /\ order' = [order EXCEPT ![p].id = d] /\ Ask(p, Method(p, d))
            /\ strayed' = IF d = order[p].read THEN strayed ELSE strayed \cup {order[p].n}
            /\ UNCHANGED told
    /\ UNCHANGED <<documents, inbox, renewing, kept, heldSessions, orders, mishaps, did, typedText, lockLost, leaky>>

-----------------------------------------------------------------------------
(* The edit session: lock, read, edit while renewing, save, unlock.        *)

Unlocks(p) == Ask(p, Unlock(p, order[p].id))

\* What is edited is what was read with the lock held.
Sees(p) ==
    \E w \in Contents(order[p].id) :
        order' = [order EXCEPT ![p].base = Len(versions[order[p].id]), ![p].from = w]

Reads(p) ==
    /\ stage[p] = "reads"
    /\ \/ /\ Live(order[p].id) /\ Sees(p)
          /\ stage' = [stage EXCEPT ![p] = "edits"]
          /\ kept' = kept \cup {order[p].n}
          /\ UNCHANGED <<wire, asked, told, mishaps>>
       \/ /\ IF Live(order[p].id) THEN Mishap ELSE UNCHANGED mishaps
          /\ Unlocks(p) /\ told' = [told EXCEPT ![p] = "refused"]
          /\ UNCHANGED <<order, kept>>
    /\ UNCHANGED <<documents, renewing, inbox, heldSessions, orders, deskHistory>>

\* Renewing is stopped, and waited for, before the copy is read back.
Renewable == {"edits"}

Renew(p) ==
    /\ stage[p] \in Renewable /\ order[p].what = "edit"
    /\ order[p].n \notin renewing /\ RenewLock(p) \notin wire
    /\ wire' = wire \cup {RenewLock(p)} /\ renewing' = renewing \cup {order[p].n}
    /\ UNCHANGED <<documents, stage, order, asked, inbox, told, kept, heldSessions, orders, mishaps, deskHistory>>

Without(p) == kept \ {order[p].n}

\* The editor is closed, or dies. A renewal on its way is given up.
Closes(p) ==
    /\ stage[p] = "edits"
    /\ renewing' = renewing \ {order[p].n}
    /\ leaky' = IF order[p].n \in renewing THEN leaky \cup {order[p].n} ELSE leaky
    /\ \/ /\ typedText' = typedText \cup {order[p].n} /\ UNCHANGED kept
          /\ \/ /\ stage' = [stage EXCEPT ![p] = "saves"]
                /\ UNCHANGED <<wire, asked, told, mishaps>>
             \/ Mishap /\ Unlocks(p) /\ told' = [told EXCEPT ![p] = "refused"]
       \/ Unlocks(p) /\ kept' = Without(p) /\ UNCHANGED <<told, mishaps, typedText>>
    /\ UNCHANGED <<documents, order, inbox, heldSessions, orders, did, lockLost, strayed>>

-----------------------------------------------------------------------------
(* writeContent, and a reply or none.                                      *)

Writes(p) ==
    /\ stage[p] = "saves"
    /\ Ask(p, IF order[p].what = "edit" THEN PutInSession(p) ELSE Method(p, order[p].id))
    /\ UNCHANGED <<documents, inbox, order, told, renewing, kept, heldSessions, orders, mishaps, deskHistory>>

AlwaysDrops(p, answer) == Without(p)
AfterSave(p, answer) == IF answer \in {"done", "same"} THEN Without(p) ELSE kept

\* A save that ended, however it did, is followed by the unlock; another command is over.
EndsWith(p, answer) ==
    IF order[p].what = "edit"
    THEN /\ Unlocks(p) /\ told' = [told EXCEPT ![p] = answer] /\ kept' = AfterSave(p, answer)
    ELSE Ends(p, answer) /\ UNCHANGED <<wire, kept>>

Uploads(p) ==
    /\ stage[p] = "uploads"
    /\ \/ stage' = [stage EXCEPT ![p] = "saves"] /\ UNCHANGED <<wire, asked, told, kept, mishaps>>
       \/ Mishap /\ EndsWith(p, "refused")
    /\ UNCHANGED <<documents, inbox, order, renewing, heldSessions, orders, deskHistory>>

Serve(m) ==
    /\ wire' = wire \ {m}
    /\ \E answer \in {Outcome(m)} \cup IF m.kind \in {"new", "put", "save"} /\ m.how = "inline"
                                      THEN {"too_large"} ELSE IF m.force THEN {"refused"} ELSE {} :
        /\ IF answer = "done" THEN Does(m) ELSE UNCHANGED <<documents, did, lockLost>>
        /\ inbox' = IF stage[m.p] = "waits" /\ asked[m.p] = m THEN [inbox EXCEPT ![m.p] = answer] ELSE inbox
    /\ renewing' = IF m.kind = "renew" THEN renewing \ {m.n} ELSE renewing
    /\ UNCHANGED <<stage, order, asked, told, kept, heldSessions, orders, mishaps, typedText, leaky, strayed>>

\* The lock and the unlock of an edit are steps of it.
OfEdit(p) == order[p].what = "edit" /\ asked[p].kind \in {"lock", "unlock"}

\* Inline content that is too large, for the client or for the module, is uploaded, once.
GetsReply(p) ==
    LET kind == asked[p].kind
        answer == inbox[p] IN
    /\ stage[p] = "waits" /\ answer # "none"
    /\ inbox' = [inbox EXCEPT ![p] = "none"]
    /\ \/ /\ answer = "too_large"
          /\ order' = [order EXCEPT ![p].how = "upload"]
          /\ stage' = [stage EXCEPT ![p] = "uploads"] /\ UNCHANGED <<wire, asked, told, kept>>
       \/ /\ OfEdit(p) /\ kind = "lock" /\ answer = "done"
          /\ stage' = [stage EXCEPT ![p] = "reads"] /\ UNCHANGED <<wire, asked, told, kept, order>>
       \/ /\ OfEdit(p) /\ kind = "lock" /\ answer # "done" /\ Ends(p, answer) /\ UNCHANGED <<wire, kept, order>>
       \/ /\ OfEdit(p) /\ kind = "unlock" /\ Free(p) /\ UNCHANGED <<wire, told, kept, order>>
       \/ /\ ~OfEdit(p) /\ answer # "too_large" /\ EndsWith(p, answer) /\ UNCHANGED order
    /\ heldSessions' = IF order[p].what = "lock" /\ answer = "done" THEN heldSessions \cup {SessionOf(p)} ELSE heldSessions
    /\ UNCHANGED <<documents, renewing, orders, mishaps, deskHistory>>

\* The request, or its reply, is late or lost.
TimesOut(p) ==
    /\ stage[p] = "waits" /\ Mishap
    /\ inbox' = [inbox EXCEPT ![p] = "none"]
    /\ IF OfEdit(p)
         THEN /\ Free(p) /\ leaky' = leaky \cup {order[p].n}
              /\ told' = IF asked[p].kind = "lock" THEN [told EXCEPT ![p] = "noreply"] ELSE told
              /\ UNCHANGED <<wire, kept>>
         ELSE EndsWith(p, "noreply") /\ UNCHANGED leaky
    /\ UNCHANGED <<documents, order, renewing, heldSessions, orders, did, typedText, lockLost, strayed>>

\* The process is killed.
Dies(p) ==
    /\ stage[p] # "free" /\ Mishap
    /\ Ends(p, "killed")
    /\ inbox' = [inbox EXCEPT ![p] = "none"] /\ renewing' = renewing \ {order[p].n}
    /\ leaky' = leaky \cup {order[p].n}
    /\ UNCHANGED <<documents, wire, order, kept, heldSessions, orders, did, typedText, lockLost, strayed>>

\* The lock expires, or an admin forces it.
LockGoes(d) ==
    /\ lockedBy[d] # 0 /\ Mishap
    /\ lockedBy' = [lockedBy EXCEPT ![d] = 0] /\ lockLost' = lockLost \cup {lockedBy[d]}
    /\ UNCHANGED <<life, filed, versions, wire, person, orders, did, typedText, leaky, strayed>>

DeskInit ==
    /\ life = [d \in Ids |-> IF d = 1 THEN "live" ELSE "unborn"]
    /\ filed = [d \in Ids |-> 1]
    /\ versions = [d \in Ids |-> IF d = 1 THEN <<[words |-> 0, from |-> 0, related |-> FALSE]>> ELSE <<>>]
    /\ lockedBy = [d \in Ids |-> 0] /\ wire = {}
    /\ stage = [p \in People |-> "free"] /\ told = [p \in People |-> "none"]
    /\ order = [p \in People |-> NoOrder] /\ asked = [p \in People |-> NoRequest]
    /\ inbox = [p \in People |-> "none"]
    /\ renewing = {} /\ kept = {} /\ heldSessions = {} /\ orders = 0 /\ mishaps = 0
    /\ did = [n \in 1..MaxOrders |-> 0] /\ typedText = {} /\ lockLost = {} /\ leaky = {} /\ strayed = {}

DeskNext ==
    \/ \E p \in People :
        \/ NewCmd(p) \/ PutCmd(p) \/ MvCmd(p) \/ RmCmd(p) \/ RestoreCmd(p) \/ RelateCmd(p) \/ EditCmd(p)
        \/ LockCmd(p) \/ UnlockCmd(p)
        \/ Repeats(p) \/ Resolves(p) \/ Reads(p) \/ Renew(p) \/ Closes(p) \/ Writes(p)
        \/ Uploads(p) \/ GetsReply(p) \/ TimesOut(p) \/ Dies(p)
    \/ \E m \in wire : Serve(m)
    \/ \E d \in Ids : LockGoes(d)

-----------------------------------------------------------------------------
(* Properties.                                                             *)

\* No version is lost to a save made without knowing it: each was made from the text of the one
\* before it (docs.go:832, docs_edit.go:77, documents.go:89) ...
MadeFromPrevious ==
    \A d \in Ids : \A v \in DOMAIN versions[d] :
        v > 1 => versions[d][v].from = versions[d][v - 1].words

\* ... unless the path that was typed had become another document's.
MadeFromRead ==
    \A d \in Ids : \A v \in DOMAIN versions[d] :
        v > 1 /\ versions[d][v].words \notin strayed => versions[d][v].from = versions[d][v - 1].words

\* "Every command is safe to retry" (docs/protocol.md:313), even while the first request is on
\* its way: however often it is sent, it makes one change. Not so a move, which makes no
\* version.
OnceEach ==
    \A p \in People :
        order[p].n \notin strayed \cup {0} /\ order[p].what # "mv" => did[order[p].n] <= 1

\* "Reading first would leave a window in which somebody saves" (docs_edit.go:77): an edit is
\* refused for a save of somebody else's only when its lock was lost ...
LockProtects ==
    \A p \in People : order[p].what = "edit" /\ told[p] = "conflict" => order[p].n \in lockLost

\* ... "nothing typed is lost" (docs_edit.go:36-38): it is in the history, or in the file kept ...
TypedKept ==
    \A p \in People : LET n == order[p].n IN
        n \in typedText /\ stage[p] = "free" =>
            n \in kept \/ \E d \in Ids : \E v \in DOMAIN versions[d] : versions[d][v].words = n

\* ... and the lock is released also when the save fails (docs_edit.go:28): an edit that is over
\* holds it only if a request about it got no reply.
Released ==
    \A p \in People : stage[p] = "free" /\ order[p].what = "edit" /\ order[p].n \notin leaky =>
        \A d \in Ids : lockedBy[d] # order[p].n

\* An edit session: what others save, what is typed and the lock are safe in it.
EditSafe == LockProtects /\ TypedKept /\ Released
=============================================================================
