---------------------------- MODULE DeviceLogin -----------------------------
(***************************************************************************)
(* The device flow of `jiku login` (auth/device.go, Login): a code is      *)
(* asked for and shown, and the provider is polled until the person has    *)
(* authorised it.  Time is a clock of units.  The provider is external:    *)
(* RFC 8628 lets it ask for more time between polls, which holds for the   *)
(* rest of the flow.                                                       *)
(***************************************************************************)
EXTENDS Naturals, Sequences, SequencesExt

CONSTANTS
    Intervals,     \* intervals the provider may answer with, 0 when it says none
    Lifetimes,     \* and lifetimes of the code
    DefaultInterval, DefaultLifetime, BackOff,
    Latency,       \* bound: how long a poll takes
    SlowDowns      \* bound: how often the provider asks for more time

ASSUME DeviceAssumption ==
    /\ Intervals \subseteq Nat /\ Lifetimes \subseteq Nat /\ Latency \in Nat /\ SlowDowns \in Nat
    /\ DefaultInterval \in Nat \ {0} /\ DefaultLifetime \in Nat \ {0} /\ BackOff \in Nat \ {0}

VARIABLES
    clock,
    login,          \* starting, sleeping, asking, or how it ended
    interval, deadline,
    wakes,          \* when the poll is due
    wanted,         \* the provider: the shortest time between polls it accepts
    asks,           \* polls: when each was sent, and what time the provider wanted since the last
    slowed,
    authorised,     \* when the person authorised the code, 0 for not yet
    denied

deviceVars == <<clock, login, interval, deadline, wakes, wanted, asks, slowed, authorised, denied>>

Supplied(value, default) == IF value > 0 THEN value ELSE default

Sleep(at, for) == login' = "sleeping" /\ wakes' = at + for

\* authorize: what the provider leaves out has a default.
Authorize(i, l) ==
    /\ login = "starting"
    /\ interval' = Supplied(i, DefaultInterval) /\ wanted' = interval'
    /\ deadline' = clock + Supplied(l, DefaultLifetime)
    /\ Sleep(clock, interval')
    /\ UNCHANGED <<clock, asks, slowed, authorised, denied>>

\* A login that cannot start: no endpoint, a refusal, no answer.
CannotStart ==
    /\ login = "starting" /\ login' = "failed"
    /\ UNCHANGED <<clock, interval, deadline, wakes, wanted, asks, slowed, authorised, denied>>

\* poll: the deadline is looked at after the sleep.
Wakes ==
    /\ login = "sleeping" /\ clock >= wakes
    /\ IF clock > deadline THEN login' = "expired" /\ UNCHANGED asks
       ELSE login' = "asking" /\ asks' = Append(asks, [at |-> clock, wanted |-> wanted])
    /\ UNCHANGED <<clock, interval, deadline, wakes, wanted, slowed, authorised, denied>>

SameInterval(i) == i
LongerInterval(i) == i + BackOff

\* The reply: the tokens, a refusal, none, or one of the two codes the flow goes on for, which
\* may have been sent before the person authorised.
Polled ==
    /\ login = "asking"
    /\ \/ authorised # 0 /\ login' = "tokens" /\ UNCHANGED <<interval, wakes, wanted, slowed>>
       \/ denied /\ login' = "denied" /\ UNCHANGED <<interval, wakes, wanted, slowed>>
       \/ login' = "failed" /\ UNCHANGED <<interval, wakes, wanted, slowed>>
       \/ /\ authorised = 0 \/ authorised >= Last(asks).at
          /\ \/ UNCHANGED <<interval, wanted, slowed>>
             \/ /\ slowed < SlowDowns /\ slowed' = slowed + 1
                /\ wanted' = wanted + BackOff
                /\ interval' = LongerInterval(interval)
          /\ Sleep(clock, interval')
    /\ UNCHANGED <<clock, deadline, asks, authorised, denied>>

LoginInterrupted ==
    /\ login = "sleeping" /\ login' = "interrupted"
    /\ UNCHANGED <<clock, interval, deadline, wakes, wanted, asks, slowed, authorised, denied>>

\* The person authorises, or denies, a code that has not expired.
PersonAnswers ==
    /\ login \in {"sleeping", "asking"} /\ clock <= deadline /\ authorised = 0 /\ ~denied
    /\ \/ authorised' = clock /\ UNCHANGED denied
       \/ denied' = TRUE /\ UNCHANGED authorised
    /\ UNCHANGED <<clock, login, interval, deadline, wakes, wanted, asks, slowed>>

\* Time passes; a sleep may be late, and a poll takes a while, by no more than Latency.
Polling == login \in {"sleeping", "asking"}
Due == IF login = "sleeping" THEN wakes ELSE Last(asks).at
ClockTicks ==
    /\ Polling /\ clock < Due + Latency
    /\ clock' = clock + 1
    /\ UNCHANGED <<login, interval, deadline, wakes, wanted, asks, slowed, authorised, denied>>

DeviceInit ==
    /\ clock = 1 /\ login = "starting" /\ interval = 0 /\ deadline = 0 /\ wakes = 0 /\ wanted = 0
    /\ asks = <<>> /\ slowed = 0 /\ authorised = 0 /\ denied = FALSE

DeviceNext ==
    \/ \E i \in Intervals, l \in Lifetimes : Authorize(i, l)
    \/ CannotStart \/ Wakes \/ Polled \/ LoginInterrupted \/ PersonAnswers \/ ClockTicks

-----------------------------------------------------------------------------
(* Properties.                                                             *)

\* "slow_down means back off permanently" (device.go:277-278): no poll comes sooner after the one
\* before than the provider has asked for, which would have it slow down for ever ...
BacksOff == \A n \in 2..Len(asks) : asks[n].at >= asks[n - 1].at + asks[n].wanted

\* ... and a login told that nobody authorised it (device.go:289-291) was authorised too late to be
\* seen, though the code was still good: less than an interval and two late answers before the end.
LoginHeard ==
    /\ BacksOff
    /\ login = "expired" /\ authorised # 0 => deadline < authorised + interval + 2 * Latency
=============================================================================
