---------------------------- MODULE TokenRefresh ----------------------------
(***************************************************************************)
(* One login shared by several processes (auth/device.go): the sync daemon *)
(* and each `jiku` typed by hand hold a copy of the tokens in memory, and  *)
(* one file holds them between runs (auth/store.go).  The identity         *)
(* provider honours only the latest refresh token of a session, so a       *)
(* process that spends a copy somebody else already spent is told to log   *)
(* in.  Against it, a refresh takes a lock beside the file and reads the   *)
(* file again first (auth/store_lock_unix.go).                             *)
(*                                                                         *)
(* A process's calls of Token and Login are serialised by its own mutex,   *)
(* so a process is at one step at a time.                                  *)
(***************************************************************************)
EXTENDS Integers, FiniteSets

CONSTANTS
    Procs,      \* the processes that share the file
    None,       \* nobody
    Locks,      \* does lockRefresh lock? It does on unix
    Expiries,   \* bound: how many access tokens expire
    MaxTroubles, \* bound: how many kinds of fault, login and logout happen, each once
    Troubles     \* which of them a configuration enables

ASSUME LockAssumption == None \notin Procs /\ Locks \in BOOLEAN
ASSUME TroubleAssumption == Expiries \in Nat /\ MaxTroubles \in Nat

VARIABLES
    store,      \* the tokens in the file, NoTokens when there is none
    mem,        \* per process: the tokens it holds
    loaded,     \* per process: has it read the file once?
    at,         \* per process: the step it is at
    reply,      \* per process: the tokens it was just given
    holder,     \* who holds the lock file
    said,       \* per process: how its last call ended
    issued,     \* how many times the provider has issued tokens
    honoured,   \* the refresh tokens the provider accepts
    valid,      \* the access tokens that have not expired
    expired,    \* how many have
    troubled,   \* the kinds of fault, login and logout that have happened
    found       \* history: what was live at the process's last look at the file,
                \* the session in the "file", the one in its "memory"

provider == <<issued, honoured, valid, expired>>
process == <<mem, loaded, at, reply, holder, said, found>>
tokenVars == <<store, process, provider, troubled>>

\* A refresh token is numbered by when it was issued, and so is an access token.
NoTokens == [refresh |-> 0, access |-> 0]
Tokens == [refresh : Nat, access : Nat]
Places == {"idle", "waits", "reads", "asks", "saves", "stores"}

\* Whatever the outcome, the lock taken is released.
Release(p) == IF holder = p THEN None ELSE holder

Answers(p, what) ==
    /\ said' = [said EXCEPT ![p] = what]
    /\ at' = [at EXCEPT ![p] = "idle"]
    /\ holder' = Release(p)

Goes(p, where) ==
    /\ at' = [at EXCEPT ![p] = where]
    /\ UNCHANGED <<said, holder>>

-----------------------------------------------------------------------------
(* DeviceFlow.Token                                                        *)

\* The file is read once; a token that is still valid is the answer.
Ask(p) ==
    LET held == IF loaded[p] THEN mem[p] ELSE store IN
    /\ at[p] = "idle"
    /\ loaded' = [loaded EXCEPT ![p] = TRUE]
    /\ mem' = [mem EXCEPT ![p] = held]
    /\ \/ held.access \in valid /\ Answers(p, "token")
       \/ held.access \notin valid /\ held.refresh # 0 /\ Goes(p, "waits")
       \/ held.access \notin valid /\ held.refresh = 0 /\ Answers(p, "login")
    /\ UNCHANGED <<store, reply, found, provider, troubled>>

\* refreshShared: the lock is polled for.
NoLock(p) ==
    /\ at[p] = "waits"
    /\ Goes(p, "reads")
    /\ UNCHANGED <<store, mem, loaded, reply, found, provider, troubled>>

TakeLock(p) ==
    /\ at[p] = "waits"
    /\ IF Locks THEN holder = None /\ holder' = p ELSE holder' = holder
    /\ at' = [at EXCEPT ![p] = "reads"]
    /\ UNCHANGED <<store, mem, loaded, reply, said, found, provider, troubled>>

Live(t) == t.refresh \in honoured
LiveAt(p) == {w \in {"file", "memory"} : Live(IF w = "file" THEN store ELSE mem[p])}
Newer(p) == store.refresh # 0 /\ store.refresh # mem[p].refresh

\* What another process saved meanwhile replaces what this one holds.
SpendsMemory(p) ==
    /\ at[p] = "reads"
    /\ found' = [found EXCEPT ![p] = LiveAt(p)]
    /\ Goes(p, "asks")
    /\ UNCHANGED <<store, mem, loaded, reply, provider, troubled>>

Reread(p) ==
    /\ at[p] = "reads"
    /\ found' = [found EXCEPT ![p] = LiveAt(p)]
    /\ mem' = IF Newer(p) THEN [mem EXCEPT ![p] = store] ELSE mem
    /\ IF Newer(p) /\ store.access \in valid THEN Answers(p, "token") ELSE Goes(p, "asks")
    /\ UNCHANGED <<store, loaded, reply, provider, troubled>>

\* The provider may leave the refresh token out of its answer: the old one is kept.
Dropped(p, rotates) == [refresh |-> IF rotates THEN issued + 1 ELSE 0, access |-> issued + 1]
Given(p, rotates) == [refresh |-> IF rotates THEN issued + 1 ELSE mem[p].refresh,
                      access |-> issued + 1]

Issues(p, rotates) ==
    /\ issued' = issued + 1
    /\ valid' = valid \cup {issued + 1}
    /\ honoured' = IF rotates THEN (honoured \ {mem[p].refresh}) \cup {issued + 1} ELSE honoured
    /\ UNCHANGED expired

Refresh(p) ==
    /\ at[p] = "asks" /\ Live(mem[p])
    /\ \E rotates \in BOOLEAN :
        Issues(p, rotates) /\ reply' = [reply EXCEPT ![p] = Given(p, rotates)]
    /\ Goes(p, "saves")
    /\ UNCHANGED <<store, mem, loaded, found, troubled>>

RetriedForever(p) ==
    /\ at[p] = "asks" /\ ~Live(mem[p])
    /\ Goes(p, "reads")
    /\ UNCHANGED <<store, mem, loaded, reply, found, provider, troubled>>

Rejected(p) ==
    /\ at[p] = "asks" /\ ~Live(mem[p])
    /\ Answers(p, "login")
    /\ UNCHANGED <<store, mem, loaded, reply, found, provider, troubled>>

Unsaved(p) ==
    /\ at[p] = "saves"
    /\ mem' = [mem EXCEPT ![p] = reply[p]]
    /\ Answers(p, "token")
    /\ UNCHANGED <<store, loaded, reply, found, provider, troubled>>

Save(p) ==
    /\ at[p] = "saves"
    /\ mem' = [mem EXCEPT ![p] = reply[p]]
    /\ store' = reply[p]
    /\ Answers(p, "token")
    /\ UNCHANGED <<loaded, reply, found, provider, troubled>>

\* Login: the tokens a person authorised are stored without the lock.
StoreLogin(p) ==
    /\ at[p] = "stores"
    /\ mem' = [mem EXCEPT ![p] = reply[p]]
    /\ loaded' = [loaded EXCEPT ![p] = TRUE]
    /\ store' = reply[p]
    /\ Answers(p, "token")
    /\ UNCHANGED <<reply, found, provider, troubled>>

Step(p) == \/ Ask(p) \/ TakeLock(p) \/ Reread(p) \/ Refresh(p) \/ Rejected(p)
           \/ Save(p) \/ StoreLogin(p)

-----------------------------------------------------------------------------
(* Time, people and faults.                                                *)

Expire(a) ==
    /\ a \in valid /\ expired < Expiries
    /\ valid' = valid \ {a}
    /\ expired' = expired + 1
    /\ UNCHANGED <<store, process, issued, honoured, troubled>>

Trouble(kind) ==
    /\ kind \in Troubles \ troubled /\ Cardinality(troubled) < MaxTroubles
    /\ troubled' = troubled \cup {kind}

\* A person logs in: a session of its own, the others go on. A provider without
\* the Refresh Token grant issues a session that cannot be renewed ("once").
Login(p) ==
    /\ at[p] = "idle"
    /\ \E renewable \in BOOLEAN :
        /\ Trouble(IF renewable THEN "login" ELSE "once")
        /\ honoured' = IF renewable THEN honoured \cup {issued + 1} ELSE honoured
        /\ reply' = [reply EXCEPT ![p] = [refresh |-> IF renewable THEN issued + 1 ELSE 0,
                                         access |-> issued + 1]]
    /\ issued' = issued + 1
    /\ valid' = valid \cup {issued + 1}
    /\ Goes(p, "stores")
    /\ UNCHANGED <<store, mem, loaded, found, expired>>

Logout ==
    /\ Trouble("logout")
    /\ store' = NoTokens
    /\ UNCHANGED <<process, provider>>

\* The context of a call that waits for the lock ends.
GivesUp(p) ==
    /\ Trouble("cancel") /\ at[p] = "waits"
    /\ Answers(p, "error")
    /\ UNCHANGED <<store, mem, loaded, reply, found, provider>>

\* The provider cannot be asked, or its answer is lost.
Unanswered(p) ==
    /\ at[p] = "asks"
    /\ \/ Trouble("down") /\ UNCHANGED provider
       \/ Trouble("lost") /\ Live(mem[p]) /\ \E rotates \in BOOLEAN : Issues(p, rotates)
    /\ Answers(p, "error")
    /\ UNCHANGED <<store, mem, loaded, reply, found>>

\* The file cannot be written: the tokens are only in memory.
SaveFails(p) ==
    /\ Trouble("save") /\ at[p] \in {"saves", "stores"}
    /\ mem' = [mem EXCEPT ![p] = reply[p]]
    /\ loaded' = [loaded EXCEPT ![p] = TRUE]
    /\ Answers(p, "error")
    /\ UNCHANGED <<store, reply, found, provider>>

\* The file cannot be read: the first time, the answer is an error and it is not
\* read again until a refresh; before a refresh, the tokens held are spent.
Unreadable(p) ==
    /\ Trouble("read")
    /\ \/ /\ at[p] = "idle" /\ ~loaded[p]
          /\ loaded' = [loaded EXCEPT ![p] = TRUE]
          /\ Answers(p, "error")
          /\ UNCHANGED found
       \/ /\ at[p] = "reads"
          /\ found' = [found EXCEPT ![p] = LiveAt(p) \ {"file"}]
          /\ Goes(p, "asks")
          /\ UNCHANGED loaded
    /\ UNCHANGED <<store, mem, reply, provider>>

\* The process ends; the kernel releases its lock. Another one starts.
Killed(p) ==
    /\ Trouble("kill")
    /\ mem' = [mem EXCEPT ![p] = NoTokens]
    /\ loaded' = [loaded EXCEPT ![p] = FALSE]
    /\ reply' = [reply EXCEPT ![p] = NoTokens]
    /\ found' = [found EXCEPT ![p] = {}]
    /\ Answers(p, "none")
    /\ UNCHANGED <<store, provider>>

Environment ==
    \/ \E a \in valid : Expire(a)
    \/ Logout
    \/ \E p \in Procs : Login(p) \/ GivesUp(p) \/ Unanswered(p) \/ SaveFails(p)
                        \/ Unreadable(p) \/ Killed(p)

-----------------------------------------------------------------------------
\* One session, with its tokens in the file.
TokenInit ==
    /\ store = [refresh |-> 1, access |-> 1]
    /\ mem = [p \in Procs |-> NoTokens] /\ loaded = [p \in Procs |-> FALSE]
    /\ at = [p \in Procs |-> "idle"] /\ reply = [p \in Procs |-> NoTokens]
    /\ holder = None /\ said = [p \in Procs |-> "none"]
    /\ issued = 1 /\ honoured = {1} /\ valid = {1} /\ expired = 0
    /\ troubled = {} /\ found = [p \in Procs |-> {}]

TokenNext == Environment \/ \E p \in Procs : Step(p)

TokenSpec == TokenInit /\ [][TokenNext]_tokenVars

\* A call that was begun goes on: each process runs, and polls for the lock.
TokenFairSpec == TokenSpec /\ \A p \in Procs : WF_tokenVars(at[p] # "idle" /\ Step(p))

-----------------------------------------------------------------------------
(* Properties.                                                             *)

TokenTypeOK ==
    /\ store \in Tokens /\ mem \in [Procs -> Tokens] /\ loaded \in [Procs -> BOOLEAN]
    /\ at \in [Procs -> Places] /\ reply \in [Procs -> Tokens]
    /\ holder \in Procs \cup {None}
    /\ said \in [Procs -> {"none", "token", "login", "error"}]
    /\ issued \in Nat /\ honoured \subseteq 1..issued /\ valid \subseteq 1..issued
    /\ expired \in Nat /\ troubled \subseteq Troubles /\ found \in [Procs -> SUBSET {"file", "memory"}]

Refreshing(p) == at[p] \in {"reads", "asks", "saves"}

\* Refreshes of one login happen one at a time (store_lock_unix.go:15-16).
Serial == \A p \in Procs : Locks /\ Refreshing(p) => holder = p

\* Two processes that refresh one login do not log each other out
\* (store_lock_unix.go:17-24): a process that found a live session in the file
\* is not told to log in.
NotLoggedOut == [][\A p \in Procs : Rejected(p) => "file" \notin found[p]]_tokenVars

\* "A session that is perfectly alive, reported as one that needs `jiku login`"
\* (device.go:325-326) never happens, wherever the live one is.
AliveIsUsed == [][\A p \in Procs : Rejected(p) => found[p] = {}]_tokenVars

\* A refresh was cut short, or a person put something else in the file.
Disturbed == troubled \cap {"lost", "save", "kill", "logout", "once"} # {}

\* The file holds the latest token of a session, or the process that got it is
\* about to save it (device.go:349-353), unless the file was disturbed.
StoreLive ==
    \/ Disturbed
    \/ Live(store)
    \/ \E p \in Procs : at[p] = "saves" /\ Live(reply[p])

\* However its refresh ends, a process that took the lock lets go of it
\* (store_lock_unix.go:52-55): the others are not locked out of their session.
LockReleased == \A p \in Procs : holder = p ~> holder # p
=============================================================================
