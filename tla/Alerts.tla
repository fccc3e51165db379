------------------------------- MODULE Alerts -------------------------------
(***************************************************************************)
(* How the daemon's events about files become desktop notices             *)
(* (docsync/alerts.go): gathered, spaced, and each file not too often.     *)
(* Kinds of events are independent: this is one of them.                   *)
(***************************************************************************)
EXTENDS Integers

CONSTANTS
    AlertFiles,                \* the files events are about
    Every, Quiet, MaxGather,   \* the spacing, in ticks of the clock
    Horizon                    \* bound: the ticks that pass

ASSUME AlertsAssumption ==
    /\ Every \in Nat /\ Quiet \in Nat /\ MaxGather \in Nat /\ Horizon \in Nat
    /\ Quiet <= MaxGather /\ MaxGather <= Every

VARIABLES
    now,
    pending,        \* files with an event not told
    notified,       \* per file, when it was last told
    firstAt, lastAt, lastSent,
    heard           \* history: per file, when an event of it came and was not told since

alertsVars == <<now, pending, notified, firstAt, lastAt, lastSent, heard>>
Never == -1
Within(t, span) == t # Never /\ now - t < span

\* Alerts.Add: a file told within Every, or waiting to be, adds nothing.
Add(f) ==
    /\ heard' = [heard EXCEPT ![f] = IF @ = Never /\ ~Within(notified[f], Every) THEN now ELSE @]
    /\ IF Within(notified[f], Every) \/ f \in pending
         THEN UNCHANGED <<pending, firstAt, lastAt>>
         ELSE /\ firstAt' = IF pending = {} THEN now ELSE firstAt
              /\ lastAt' = now
              /\ pending' = pending \cup {f}
    /\ UNCHANGED <<now, notified, lastSent>>

EndlessBurst == pending # {} /\ ~Within(lastSent, Every) /\ ~Within(lastAt, Quiet)
\* A burst is waited for until it is quiet, or has lasted.
Due ==
    /\ pending # {} /\ ~Within(lastSent, Every)
    /\ ~Within(lastAt, Quiet) \/ ~Within(firstAt, MaxGather)

FlushAlerts ==
    /\ Due
    /\ notified' = [f \in AlertFiles |-> IF f \in pending THEN now ELSE notified[f]]
    /\ heard' = [f \in AlertFiles |-> IF f \in pending THEN Never ELSE heard[f]]
    /\ pending' = {} /\ lastSent' = now
    /\ UNCHANGED <<now, firstAt, lastAt>>

\* The ticker that flushes is faster than the spans.
AlertsTick ==
    /\ now < Horizon /\ ~Due
    /\ now' = now + 1
    /\ UNCHANGED <<pending, notified, firstAt, lastAt, lastSent, heard>>

AlertsInit ==
    /\ now = 0 /\ pending = {} /\ notified = [f \in AlertFiles |-> Never]
    /\ firstAt = Never /\ lastAt = Never /\ lastSent = Never
    /\ heard = [f \in AlertFiles |-> Never]

AlertsNext == FlushAlerts \/ AlertsTick \/ \E f \in AlertFiles : Add(f)

-----------------------------------------------------------------------------
\* What happens to a file is told, however long the burst it is part of and whatever was
\* told before: within the spacing, or once the burst has lasted (alerts.go:18-21).
ToldInTime == \A f \in AlertFiles : heard[f] # Never => now - heard[f] <= Every
=============================================================================
