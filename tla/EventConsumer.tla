---------------------------- MODULE EventConsumer ----------------------------
(***************************************************************************)
(* Subscriptions to the event stream (events/consumer.go).  A run is one   *)
(* call of SubscribeRaw: it makes a consumer on the server, hands each     *)
(* message to a callback and blocks until its context ends, the handler    *)
(* fails or the bus refuses it.  An ordered run has a consumer of its own; *)
(* durable runs share one, which remembers what is not acknowledged.       *)
(*                                                                         *)
(* The callback runs on the connection's goroutine and goes on while the   *)
(* run is about to return: only cc.Stop, deferred, ends it.                *)
(***************************************************************************)
EXTENDS Integers, Sequences, Functions

CONSTANTS
    Runs,         \* calls of SubscribeRaw
    Durable,      \* the durable consumer
    DurableRuns,  \* those that name the durable consumer
    Conns,        \* connections
    ConnOf,       \* the connection a run is on
    Overlap,      \* bound: do runs on one connection overlap?
    Events,       \* bound: events published
    Undecodable,  \* the events whose payload is no event
    Faults,       \* bound: faults
    FaultKinds    \* which of them a configuration enables

ASSUME RunAssumption ==
    Durable \notin Runs /\ DurableRuns \subseteq Runs /\ ConnOf \in [Runs -> Conns]
ASSUME CountAssumption == Events \in Nat /\ Faults \in Nat

VARIABLES
    published,  \* how many events the stream has
    first,      \* per consumer: the first event it delivers, 0 before it is made
    next,       \* per consumer: the next one
    unacked,    \* delivered by the durable one and not acknowledged
    due,        \* those to deliver again
    phase,      \* per run: "off", "running", "returned"
    buffer,     \* per run: received, and waiting for the callback
    busy,       \* per run: the event its handler works on, 0 when none
    done,       \* per run: the first cause to return, "none" before
    onError,    \* per connection: the chain of runs its error handler tells
    prev,       \* per run: the chain it found
    failed,     \* how many faults have happened
    handled     \* history, per consumer: the events a handler accepted

consumers == <<first, next>>
server == <<published, consumers, unacked, due>>
client == <<phase, buffer, busy, done>>
watch == <<onError, prev>>
vars == <<server, client, watch, failed, handled>>

Consumer(r) == IF r \in DurableRuns THEN Durable ELSE r

Held(e) == \E r \in Runs : busy[r] = e \/ e \in Range(buffer[r])

Event(kind) ==
    /\ kind \in FaultKinds /\ failed < Faults
    /\ failed' = failed + 1

-----------------------------------------------------------------------------
(* The stream.                                                             *)

Publish ==
    /\ published < Events
    /\ published' = published + 1
    /\ UNCHANGED <<consumers, unacked, due, client, watch, failed, handled>>

\* What is not acknowledged in time is delivered again; a handler slower than
\* that holds it still.
AckWaitEnds(e) ==
    /\ e \in unacked \ due
    /\ IF Held(e) THEN Event("slow") ELSE UNCHANGED failed
    /\ due' = due \cup {e}
    /\ UNCHANGED <<published, consumers, unacked, client, watch, handled>>

Receives(r, e) ==
    /\ phase[r] = "running"
    /\ buffer' = [buffer EXCEPT ![r] = Append(@, e)]
    /\ UNCHANGED <<published, first, phase, busy, done, watch, failed, handled>>

DeliverNext(r) ==
    /\ next[Consumer(r)] <= published
    /\ Receives(r, next[Consumer(r)])
    /\ next' = [next EXCEPT ![Consumer(r)] = @ + 1]
    /\ unacked' = IF r \in DurableRuns THEN unacked \cup {next[Durable]} ELSE unacked
    /\ UNCHANGED due

Redeliver(r) ==
    /\ r \in DurableRuns
    /\ \E e \in due : Receives(r, e) /\ due' = due \ {e}
    /\ UNCHANGED <<next, unacked>>

Deliver(r) == DeliverNext(r) \/ Redeliver(r)

-----------------------------------------------------------------------------
(* Consumer.watchPermissions                                               *)

Running(c) == {r \in Runs : ConnOf[r] = c /\ phase[r] = "running"}

Watch(r) ==
    /\ prev' = [prev EXCEPT ![r] = onError[ConnOf[r]]]
    /\ onError' = [onError EXCEPT ![ConnOf[r]] = <<r>> \o @]

\* What it found is put back, whoever has subscribed since.
Restore(r) == onError' = [onError EXCEPT ![ConnOf[r]] = prev[r]]

-----------------------------------------------------------------------------
(* Consumer.SubscribeRaw                                                   *)

\* The consumer is made where the start policy says, or found.
Subscribe(r) ==
    /\ phase[r] = "off"
    /\ Overlap \/ Running(ConnOf[r]) = {}
    /\ phase' = [phase EXCEPT ![r] = "running"]
    /\ Watch(r)
    /\ IF first[Consumer(r)] = 0
       THEN \E from \in 1..(published + 1) :
                /\ first' = [first EXCEPT ![Consumer(r)] = from]
                /\ next' = [next EXCEPT ![Consumer(r)] = from]
       ELSE UNCHANGED consumers
    /\ UNCHANGED <<published, unacked, due, buffer, busy, done, failed, handled>>

\* The stream cannot be read or the consumer cannot be made: the error is
\* explained and what was watched is restored.
Unable(r) ==
    /\ phase[r] = "off" /\ Event("unable")
    /\ phase' = [phase EXCEPT ![r] = "returned"]
    /\ UNCHANGED <<server, buffer, busy, done, watch, handled>>

\* finish: the first cause wins.
Finish(r, cause) == done' = [done EXCEPT ![r] = IF @ = "none" THEN cause ELSE @]

Acked(e) == unacked' = unacked \ {e} /\ due' = due \ {e}

Idle(r) == busy' = [busy EXCEPT ![r] = 0]

\* The callback takes a message: decode, then the handler is called.
Takes(r) ==
    /\ phase[r] = "running" /\ busy[r] = 0 /\ buffer[r] # <<>>
    /\ buffer' = [buffer EXCEPT ![r] = Tail(@)]
    /\ busy' = [busy EXCEPT ![r] = IF Head(buffer[r]) \in Undecodable THEN 0 ELSE Head(buffer[r])]
    /\ UNCHANGED <<published, consumers, phase, watch, failed, handled>>

AckFirst(r) ==
    /\ Takes(r)
    /\ IF Head(buffer[r]) \in Undecodable THEN Finish(r, "decode") ELSE UNCHANGED done
    /\ IF r \in DurableRuns THEN Acked(Head(buffer[r])) ELSE UNCHANGED <<unacked, due>>

Undecoded(r) == Takes(r) /\ UNCHANGED <<done, unacked, due>>

Take(r) ==
    /\ Takes(r)
    /\ IF Head(buffer[r]) \in Undecodable THEN Finish(r, "decode") ELSE UNCHANGED done
    /\ UNCHANGED <<unacked, due>>

\* The handler accepts the event: a durable run acknowledges it.
Accept(r) ==
    /\ busy[r] # 0
    /\ handled' = [handled EXCEPT ![Consumer(r)] = @ \cup {busy[r]}]
    /\ \/ /\ r \notin DurableRuns
          /\ UNCHANGED <<unacked, due, done, failed>>
       \/ /\ r \in DurableRuns /\ Acked(busy[r])
          /\ UNCHANGED <<done, failed>>
       \/ /\ r \in DurableRuns /\ Event("ack") /\ Finish(r, "ack")
          /\ UNCHANGED <<unacked, due>>
       \/ /\ r \in DurableRuns /\ Event("acklost")
          /\ UNCHANGED <<unacked, due, done>>
    /\ Idle(r)
    /\ UNCHANGED <<published, consumers, phase, buffer, watch>>

\* The handler returns an error: nothing is acknowledged.
AckAnyway(r) ==
    /\ busy[r] # 0 /\ Event("handler")
    /\ Finish(r, "handler") /\ Idle(r)
    /\ Acked(busy[r])
    /\ UNCHANGED <<published, consumers, phase, buffer, watch, handled>>

Fail(r) ==
    /\ busy[r] # 0 /\ Event("handler")
    /\ Finish(r, "handler") /\ Idle(r)
    /\ UNCHANGED <<server, phase, buffer, watch, handled>>

\* The select has a cause: what is deferred stops the consumer, which drops what
\* waits but not the handler at work, and restores the error handler.
Stop(r) ==
    /\ phase[r] = "running"
    /\ phase' = [phase EXCEPT ![r] = "returned"]
    /\ buffer' = [buffer EXCEPT ![r] = <<>>]
    /\ Restore(r)
    /\ UNCHANGED <<server, prev, handled>>

Return(r) ==
    /\ done[r] # "none"
    /\ Stop(r)
    /\ UNCHANGED <<busy, done, failed>>

\* The context ends.
Cancel(r) ==
    /\ Event("cancel")
    /\ Stop(r) /\ Finish(r, "cancelled")
    /\ UNCHANGED busy

\* The bus refuses a subject: every run its error handler tells has a cause.
Violation(c) ==
    /\ Event("refuse")
    /\ done' = [r \in Runs |->
                    IF r \in Range(onError[c]) /\ done[r] = "none" THEN "refused" ELSE done[r]]
    /\ UNCHANGED <<server, phase, buffer, busy, watch, handled>>

\* The process dies, with its connection and what it was doing.
Crash(c) ==
    /\ Event("crash")
    /\ LET dead == Running(c) \cup {r \in Runs : ConnOf[r] = c /\ busy[r] # 0} IN
        /\ dead # {}
        /\ phase' = [r \in Runs |-> IF r \in dead THEN "returned" ELSE phase[r]]
        /\ buffer' = [r \in Runs |-> IF r \in dead THEN <<>> ELSE buffer[r]]
        /\ busy' = [r \in Runs |-> IF r \in dead THEN 0 ELSE busy[r]]
    /\ onError' = [onError EXCEPT ![c] = <<>>]
    /\ UNCHANGED <<server, done, prev, handled>>

-----------------------------------------------------------------------------
Init ==
    /\ published = 0 /\ unacked = {} /\ due = {}
    /\ first = [k \in Runs \cup {Durable} |-> 0] /\ next = first
    /\ phase = [r \in Runs |-> "off"] /\ buffer = [r \in Runs |-> <<>>]
    /\ busy = [r \in Runs |-> 0] /\ done = [r \in Runs |-> "none"]
    /\ onError = [c \in Conns |-> <<>>] /\ prev = [r \in Runs |-> <<>>]
    /\ failed = 0 /\ handled = [k \in Runs \cup {Durable} |-> {}]

Next ==
    \/ Publish
    \/ \E e \in unacked : AckWaitEnds(e)
    \/ \E r \in Runs : \/ Subscribe(r) \/ Unable(r) \/ Deliver(r) \/ Take(r) \/ Accept(r)
                       \/ Fail(r) \/ Return(r) \/ Cancel(r)
    \/ \E c \in Conns : Violation(c) \/ Crash(c)

Spec == Init /\ [][Next]_vars

\* The server delivers, the callback and the handler run, and a run with a cause
\* returns; nobody has to subscribe, and no handler has to fail.
FairSpec ==
    /\ Spec
    /\ \A e \in 1..Events : WF_vars(AckWaitEnds(e))
    /\ \A r \in Runs : /\ WF_vars(Deliver(r)) /\ WF_vars(Take(r))
                       /\ WF_vars(Accept(r)) /\ WF_vars(Return(r))

-----------------------------------------------------------------------------
(* Properties.                                                             *)

TypeOK ==
    /\ published \in 0..Events
    /\ first \in [Runs \cup {Durable} -> 0..(Events + 1)]
    /\ next \in [Runs \cup {Durable} -> 0..(Events + 1)]
    /\ unacked \subseteq 1..published /\ due \subseteq unacked
    /\ phase \in [Runs -> {"off", "running", "returned"}]
    /\ buffer \in [Runs -> Seq(1..Events)] /\ busy \in [Runs -> 0..Events]
    /\ done \in [Runs -> {"none", "decode", "handler", "ack", "cancelled", "refused"}]
    /\ onError \in [Conns -> Seq(Runs)] /\ prev \in [Runs -> Seq(Runs)]
    /\ failed \in Nat /\ handled \in [Runs \cup {Durable} -> SUBSET (1..Events)]

Delivered(k) == {e \in 1..Events : first[k] # 0 /\ first[k] <= e /\ e < next[k]}

\* "The recorded position never runs ahead of the work" (consumer.go:262-263):
\* what the durable consumer delivered and forgot, a handler accepted.
PositionHonest == Delivered(Durable) \subseteq handled[Durable] \cup unacked

\* An ordered run that goes on steps over nothing: what its consumer delivered
\* was accepted, or is on its way to the handler (consumer.go:202-204).
NothingSkipped ==
    \A r \in Runs \ DurableRuns : phase[r] = "running" /\ done[r] = "none" =>
        Delivered(r) \subseteq handled[r] \cup Range(buffer[r]) \cup {busy[r]}

\* A Consumer is "safe for concurrent use" (consumer.go:27-28): a run that goes on is told of a refusal
\* by its connection's error handler (consumer.go:292-308).
Watching == \A r \in Runs : phase[r] = "running" => r \in Range(onError[ConnOf[r]])

\* A run that goes on sees what an earlier one left unacknowledged
\* (consumer.go:255-257, docs/events.md:170-171).
Resumes ==
    \A r \in DurableRuns : \A e \in (1..Events) \ Undecodable :
        phase[r] = "running" /\ e \in Delivered(Durable)
            ~> e \in handled[Durable] \/ phase[r] # "running"

\* "Returning an error stops the subscription" (consumer.go:124): the handler is
\* not called again.
StopsOnError == [][\A r \in Runs : busy[r] = 0 /\ busy'[r] # 0 => done[r] # "handler"]_vars
=============================================================================
