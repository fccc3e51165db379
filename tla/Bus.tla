-------------------------------- MODULE Bus ---------------------------------
(***************************************************************************)
(* Concurrent calls on one connection to the bus (client.go, plane.go,     *)
(* kv.go, modules/nats.go).  The bus drops what this identity may not      *)
(* publish and says so on the connection, not to the call, so every call   *)
(* watches for the refusal of its own subject while it waits for a reply.  *)
(*                                                                         *)
(* A call is named by its kind, and calls of one kind share a subject: a   *)
(* query, a command, the bind of the key-value bucket, a read and a write  *)
(* of one of its keys, the plane's contract, a ping of the documentation   *)
(* module, a read of its key in the registry.  The last two, which are     *)
(* modules/nats.go's, look at the connection's last error instead.         *)
(***************************************************************************)
EXTENDS Naturals, FiniteSets, SequencesExt

CONSTANTS
    Calls,         \* goroutines, one call each
    CallKinds,
    Cuts           \* bound: how often the connection drops

ASSUME CallAssumption ==
    /\ CallKinds \subseteq {"query", "command", "kv", "read", "write", "contract", "ping", "registry"}
    /\ Calls \cap {0} = {} /\ Cuts \in Nat

VARIABLES
    kind,          \* per call
    phase,         \* per call: idle, watching, waits, done
    result,
    granted,       \* kinds this identity may publish
    listening,     \* kinds somebody serves
    conn, cuts,
    outbox,        \* published while disconnected
    atServer, answer,
    refusals,      \* refused publishes, on their way back
    lastError,     \* the connection's last error: which one, of which kind
    reports,       \* refusals the error handler has not been told
    permErrs, permWaiters, toCancel, cancelled,
    before,        \* per ping: the last error when it began
    contract, space,            \* caches: who fetched them, 0 for nobody
    got,                        \* per call: the contract or the space it returned
    served, cut, blurred        \* history: calls served; those alive at a drop; those that look
                                \* at the last error and that another kind's refusal passed

busWire == <<granted, listening, conn, cuts, outbox, atServer, answer, refusals>>
watch == <<lastError, reports, permErrs, permWaiters, toCancel, cancelled, before>>
caches == <<contract, space, got>>
busHistory == <<served, cut, blurred>>
busVars == <<kind, phase, result, busWire, watch, caches, busHistory>>

Waits(c) == phase[c] = "waits"
Becomes(c, p) == phase' = [phase EXCEPT ![c] = p]
Returns(c, r) == Becomes(c, "done") /\ result' = [result EXCEPT ![c] = r]
Own == UNCHANGED <<kind, busWire>>

-----------------------------------------------------------------------------
(* A call.                                                                 *)

\* PlaneClient.Contract and Client.KV answer from their cache.
ContractCached(c) == kind[c] = "contract" /\ contract # 0 /\ got' = [got EXCEPT ![c] = contract]
SpaceCached(c) == kind[c] = "kv" /\ space # 0 /\ got' = [got EXCEPT ![c] = space]

Cached(c) ==
    /\ phase[c] = "idle"
    /\ ContractCached(c) \/ SpaceCached(c)
    /\ Returns(c, "success")
    /\ Own /\ UNCHANGED <<watch, contract, space, busHistory>>

KeyKinds == {"read", "write"}
OnBucket(c) == kind[c] \in KeyKinds \cup {"kv"}
LooksBack(c) == kind[c] \in {"ping", "registry"}

\* watchPermission: a refusal already recorded cancels the call before it is sent.
WatchPermission(c) ==
    /\ permWaiters' = permWaiters \cup {c}
    /\ cancelled' = IF kind[c] \in permErrs THEN cancelled \cup {c} ELSE cancelled
    /\ UNCHANGED <<permErrs, toCancel, reports, lastError, before>>

Begin(c) ==
    /\ phase[c] = "idle"
    /\ kind[c] = "contract" => contract = 0
    /\ kind[c] = "kv" => space = 0
    /\ kind[c] \in KeyKinds => space # 0
    /\ got' = IF kind[c] \in KeyKinds THEN [got EXCEPT ![c] = space] ELSE got
    /\ Becomes(c, "watching")
    /\ CASE kind[c] = "ping" ->
               /\ before' = [before EXCEPT ![c] = lastError.n]
               /\ UNCHANGED <<lastError, reports, permErrs, permWaiters, toCancel, cancelled>>
         [] kind[c] = "registry" -> UNCHANGED watch
         [] OTHER -> WatchPermission(c)
    /\ Own /\ UNCHANGED <<result, contract, space, busHistory>>

\* A context that ended publishes nothing; a connection that is down keeps what is published.
Publish(c) ==
    /\ phase[c] = "watching" /\ c \notin cancelled
    /\ Becomes(c, "waits")
    /\ IF conn = "up" THEN atServer' = atServer \cup {c} /\ UNCHANGED <<outbox, cut>>
       ELSE outbox' = outbox \cup {c} /\ cut' = cut \cup {c} /\ UNCHANGED atServer
    /\ UNCHANGED <<kind, result, granted, listening, conn, cuts, answer, refusals>>
    /\ UNCHANGED <<watch, caches, served, blurred>>

\* notePermissionError: the refusal is recorded, and the calls it names are cancelled once
\* the lock is released.
NotePermissionError ==
    /\ reports # <<>>
    /\ reports' = Tail(reports)
    /\ permErrs' = permErrs \cup {Head(reports)}
    /\ toCancel' = toCancel \cup {c \in permWaiters : kind[c] = Head(reports)}
    /\ UNCHANGED <<lastError, permWaiters, cancelled, before>>
    /\ Own /\ UNCHANGED <<phase, result, caches, busHistory>>

Cancel(c) ==
    /\ c \in toCancel
    /\ toCancel' = toCancel \ {c} /\ cancelled' = cancelled \cup {c}
    /\ UNCHANGED <<lastError, reports, permErrs, permWaiters, before>>
    /\ Own /\ UNCHANGED <<phase, result, caches, busHistory>>

Unwatch(c) ==
    /\ permWaiters' = permWaiters \ {c}
    /\ UNCHANGED <<lastError, reports, permErrs, toCancel, cancelled, before>>

LastSpace(c) == space' = c
\* Client.KV: of two that bound the bucket at once, the first one's space is everybody's.
FirstSpace(c) == space' = IF space = 0 THEN c ELSE space
\* PlaneClient.Contract: of two, the last one that was fetched.
LastContract(c) == contract' = c

\* kvError: a refusal of the subject, whatever else came of the call; a subject that nothing
\* stores.
KVError(c) ==
    IF kind[c] \in permErrs THEN "refused" ELSE IF answer[c] = "nobody" THEN "nobucket" ELSE "failure"

AnyViolation(c) == lastError.kind # "none"
\* violation: is the last error a refusal of exactly this subject?
Violation(c) == lastError.kind = kind[c]

\* explain: what a read of the registry that failed is told. One that got no answer, and whose
\* refusal is not the last error, is told both causes.
Explained(c) ==
    IF Violation(c) THEN "refused"
    ELSE IF answer[c] = "none" THEN "unclear" ELSE IF answer[c] = "nobody" THEN "noregistry" ELSE "failure"

ReplyOf(c) ==
    IF answer[c] = "success" THEN "success"
    ELSE IF OnBucket(c) THEN KVError(c) ELSE IF kind[c] = "registry" THEN Explained(c) ELSE answer[c]

\* decodeInto and asError: an envelope that says failure is one, whatever its data.
Answered(c) ==
    /\ Waits(c) /\ kind[c] # "ping" /\ answer[c] # "none"
    /\ Unwatch(c)
    /\ Returns(c, ReplyOf(c))
    /\ CASE answer[c] = "success" /\ kind[c] = "kv" ->
               FirstSpace(c) /\ got' = [got EXCEPT ![c] = space'] /\ UNCHANGED contract
         [] answer[c] = "success" /\ kind[c] = "contract" ->
               LastContract(c) /\ got' = [got EXCEPT ![c] = c] /\ UNCHANGED space
         [] OTHER -> UNCHANGED caches
    /\ Own /\ UNCHANGED busHistory

NeverRefused(c) == "silent"
\* A call that failed was refused if its subject was, however it failed.
WhyFailed(c) == IF kind[c] \in permErrs THEN "refused" ELSE "silent"

\* A refusal is told, and told to the handler, long before the timeout.
Overdue(c) == Waits(c) /\ answer[c] = "none" /\ c \notin atServer \cup refusals

Fails(c) ==
    /\ ~LooksBack(c)
    /\ \/ c \in cancelled /\ phase[c] \in {"watching", "waits"}
       \/ Overdue(c) /\ kind[c] \notin ToSet(reports)
    /\ Unwatch(c)
    /\ Returns(c, WhyFailed(c))
    /\ Own /\ UNCHANGED <<caches, busHistory>>

-----------------------------------------------------------------------------
(* The registry: the connection's last error is looked at instead.         *)

\* natsBackend.get, without an answer.
RegistryFails(c) ==
    /\ Overdue(c) /\ kind[c] = "registry"
    /\ Returns(c, Explained(c))
    /\ Own /\ UNCHANGED <<watch, caches, busHistory>>

\* pingOver.
Refused(c) == lastError.n # before[c] /\ Violation(c)

PingLooks(c) ==
    /\ Waits(c) /\ kind[c] = "ping" /\ Refused(c)
    /\ Returns(c, "refused")
    /\ Own /\ UNCHANGED <<watch, caches, busHistory>>

PingAnswered(c) ==
    /\ Waits(c) /\ kind[c] = "ping" /\ answer[c] # "none"
    /\ Returns(c, IF answer[c] = "nobody" THEN "unavailable" ELSE "answered")
    /\ Own /\ UNCHANGED <<watch, caches, busHistory>>

NoLastLook(c) == "unavailable"
\* The timeout: a last look.
LastLook(c) == IF Refused(c) THEN "refused" ELSE "unavailable"

PingTimesOut(c) ==
    /\ Overdue(c) /\ kind[c] = "ping"
    /\ Returns(c, LastLook(c))
    /\ Own /\ UNCHANGED <<watch, caches, busHistory>>

-----------------------------------------------------------------------------
(* The bus, and who answers on it.                                         *)

Local == UNCHANGED <<kind, phase, result, granted, caches>>

\* What is not granted is dropped; nobody listening is told at once.
ServerTakes(c) ==
    /\ c \in atServer /\ conn = "up"
    /\ atServer' = atServer \ {c}
    /\ IF kind[c] \notin granted
         THEN refusals' = refusals \cup {c} /\ UNCHANGED <<answer, served>>
         ELSE /\ UNCHANGED refusals
              /\ IF kind[c] \in listening
                   THEN /\ served' = served \cup {c}
                        /\ answer' \in {answer, [answer EXCEPT ![c] = "success"],
                                        [answer EXCEPT ![c] = "failure"]}
                   ELSE /\ answer' = [answer EXCEPT ![c] = "nobody"] /\ UNCHANGED served
    /\ Local /\ UNCHANGED <<listening, conn, cuts, outbox, watch, cut, blurred>>

\* The connection's reader: it keeps the error, and queues it for the handler.
RefusalArrives(c) ==
    /\ c \in refusals /\ conn = "up"
    /\ refusals' = refusals \ {c}
    /\ lastError' = [n |-> lastError.n + 1, kind |-> kind[c]]
    /\ reports' = Append(reports, kind[c])
    /\ blurred' = blurred \cup {d \in Calls : LooksBack(d) /\ kind[d] # kind[c] /\ phase[d] # "done"}
    /\ Local /\ UNCHANGED <<listening, conn, cuts, outbox, atServer, answer>>
    /\ UNCHANGED <<permErrs, permWaiters, toCancel, cancelled, before, served, cut>>

Drops ==
    /\ conn = "up" /\ cuts < Cuts
    /\ conn' = "down" /\ cuts' = cuts + 1
    /\ atServer' = {} /\ refusals' = {}
    /\ cut' = cut \cup {c \in Calls : phase[c] # "idle"}
    /\ Local /\ UNCHANGED <<listening, outbox, answer, watch, served, blurred>>

\* A new token may select another template. The handler has long been told by then; the last
\* error is that of this connection.
Reconnects ==
    /\ conn = "down" /\ reports = <<>> /\ toCancel = {}
    /\ conn' = "up"
    /\ atServer' = outbox /\ outbox' = {}
    /\ \E gained \in SUBSET (CallKinds \ granted) : granted' = granted \cup gained
    /\ cut' = cut \cup {c \in Calls : phase[c] # "idle"}
    /\ lastError' = [lastError EXCEPT !.kind = "none"]
    /\ UNCHANGED <<kind, phase, result, caches, listening, cuts, answer, refusals>>
    /\ UNCHANGED <<reports, permErrs, permWaiters, toCancel, cancelled, before, served, blurred>>

BusInit ==
    /\ kind \in [Calls -> CallKinds]
    /\ phase = [c \in Calls |-> "idle"] /\ result = [c \in Calls |-> "none"]
    /\ granted \in SUBSET CallKinds /\ listening \in {CallKinds, CallKinds \ {"ping", "command", "registry"}}
    /\ conn = "up" /\ cuts = 0 /\ outbox = {} /\ atServer = {} /\ refusals = {}
    /\ answer = [c \in Calls |-> "none"]
    /\ lastError = [n |-> 0, kind |-> "none"] /\ reports = <<>>
    /\ permErrs = {} /\ permWaiters = {} /\ toCancel = {} /\ cancelled = {}
    /\ before = [c \in Calls |-> 0]
    /\ contract = 0 /\ space = 0 /\ got = [c \in Calls |-> 0]
    /\ served = {} /\ cut = {} /\ blurred = {}

BusNext ==
    \/ \E c \in Calls :
        \/ Cached(c) \/ Begin(c) \/ Publish(c) \/ Cancel(c) \/ Answered(c) \/ Fails(c)
        \/ PingLooks(c) \/ PingAnswered(c) \/ PingTimesOut(c) \/ RegistryFails(c)
        \/ ServerTakes(c) \/ RefusalArrives(c)
    \/ NotePermissionError \/ Drops \/ Reconnects

-----------------------------------------------------------------------------
(* Properties, of the calls that no drop of the connection touched.        *)

Untouched(c) == phase[c] = "done" /\ c \notin cut

\* "The message never reached core at all": a call reported as refused by the bus was not
\* served (client.go:562), though another of its kind was refused before.
RefusedNotServed == \A c \in Calls : Untouched(c) /\ result[c] = "refused" => c \notin served

\* A refused publish is never reported as nobody answering (client.go:35-41).
RefusalTold ==
    \A c \in Calls : Untouched(c) /\ kind[c] # "ping" /\ result[c] = "silent" => kind[c] \in granted

\* A refused ping is never reported as a module that is down, unless the refusal of another
\* subject took its place (modules.go, Registry.Ping).
PingHonest ==
    \A c \in Calls :
        Untouched(c) /\ kind[c] = "ping" /\ result[c] = "unavailable"
            => "ping" \in granted \/ c \in blurred

\* A refusal of another subject is not taken for the key's (nats.go:228-231), and where the key's
\* own refusal is not told, another took its place.
RegistryHonest ==
    \A c \in Calls :
        Untouched(c) /\ kind[c] = "registry" =>
            /\ result[c] = "refused" => "registry" \notin granted
            /\ result[c] = "noregistry" => "registry" \in granted
            /\ result[c] = "unclear" => "registry" \in granted \/ c \in blurred

\* The bucket is bound once: everybody on a connection reads and writes through one space.
OneSpace ==
    \A c, d \in Calls : OnBucket(c) /\ OnBucket(d) => got[c] = got[d] \/ 0 \in {got[c], got[d]}

\* What a call on a shared connection is told is what became of it.
CallsHonest == RefusedNotServed /\ RefusalTold /\ PingHonest /\ RegistryHonest /\ OneSpace
=============================================================================
