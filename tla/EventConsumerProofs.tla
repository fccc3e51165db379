------------------------- MODULE EventConsumerProofs -------------------------
(* Proofs about EventConsumer, for any runs, connections and bounds.           *)
EXTENDS EventConsumer, TLAPS

\* A run that goes on has a consumer, and an ordered one makes its own.
Made ==
    /\ \A k \in Runs \cup {Durable} : first[k] <= next[k]
    /\ \A r \in Runs : phase[r] = "running" => 0 < first[Consumer(r)]
    /\ \A r \in Runs \ DurableRuns : phase[r] = "off" => first[r] = 0

\* The inductive invariant of types and positions.
Inv == TypeOK /\ Made /\ PositionHonest /\ NothingSkipped

\* A step that makes no consumer and starts no run keeps what is made.
LEMMA MadeStays ==
    ASSUME Made, UNCHANGED first, TypeOK,
           \A r \in Runs : /\ phase'[r] = "running" => phase[r] = "running"
                           /\ phase'[r] = "off" => phase[r] = "off",
           \A k \in Runs \cup {Durable} : next[k] <= next'[k] /\ next'[k] \in Nat
    PROVE  Made'
<1>1. \A k \in Runs \cup {Durable} : first[k] \in Nat /\ next[k] \in Nat
  BY CountAssumption DEF TypeOK
<1>2. \A k \in Runs \cup {Durable} : first'[k] <= next'[k]
  BY <1>1 DEF Made
<1>3. QED
  BY <1>2 DEF Made, Consumer

\* Types and positions are kept by every step.
LEMMA Types == ASSUME TypeOK, Made, [Next]_vars PROVE TypeOK' /\ Made'
<1> USE RunAssumption, CountAssumption
<1>1. CASE UNCHANGED vars
  BY <1>1 DEF TypeOK, Made, Consumer, vars, server, consumers, client, watch
<1>2. CASE Publish
  BY <1>2 DEF TypeOK, Made, Consumer, Publish, consumers, client, watch
<1>3. ASSUME NEW e \in unacked, AckWaitEnds(e) PROVE TypeOK' /\ Made'
  BY <1>3 DEF TypeOK, Made, Consumer, AckWaitEnds, Event, consumers, client, watch
<1>4. ASSUME NEW r \in Runs, Subscribe(r) PROVE TypeOK' /\ Made'
  <2>1. Consumer(r) \in Runs \cup {Durable}
    BY DEF Consumer
  <2>2. /\ first' \in [Runs \cup {Durable} -> 0..(Events + 1)]
        /\ next' \in [Runs \cup {Durable} -> 0..(Events + 1)]
        /\ 0 < first'[Consumer(r)]
        /\ \A k \in Runs \cup {Durable} : first'[k] <= next'[k]
        /\ \A k \in Runs \cup {Durable} : k # Consumer(r) =>
              first'[k] = first[k] /\ next'[k] = next[k]
    <3>1. CASE first[Consumer(r)] = 0
      <4>1. PICK from \in 1..(published + 1) :
              /\ first' = [first EXCEPT ![Consumer(r)] = from]
              /\ next' = [next EXCEPT ![Consumer(r)] = from]
        BY <1>4, <3>1 DEF Subscribe
      <4>2. from \in 0..(Events + 1) /\ 0 < from /\ from <= from
        BY DEF TypeOK
      <4>3. QED
        BY <2>1, <4>1, <4>2 DEF TypeOK, Made
    <3>2. CASE first[Consumer(r)] # 0
      BY <1>4, <2>1, <3>2 DEF Subscribe, consumers, TypeOK, Made
    <3>3. QED
      BY <3>1, <3>2
  <2>3. onError' \in [Conns -> Seq(Runs)] /\ prev' \in [Runs -> Seq(Runs)]
    BY <1>4 DEF TypeOK, Subscribe, Watch
  <2>4. phase' = [phase EXCEPT ![r] = "running"] /\ phase[r] = "off"
    BY <1>4 DEF Subscribe
  <2>5. TypeOK'
    BY <1>4, <2>2, <2>3, <2>4 DEF TypeOK, Subscribe
  <2>6. Made'
    <3>1. ASSUME NEW q \in Runs, phase'[q] = "running"
          PROVE  0 < first'[Consumer(q)]
      <4>1. CASE Consumer(q) = Consumer(r)
        BY <2>2, <4>1
      <4>2. CASE Consumer(q) # Consumer(r)
        BY <2>2, <2>4, <3>1, <4>2 DEF Consumer, Made, TypeOK
      <4>3. QED
        BY <4>1, <4>2
    <3>2. ASSUME NEW q \in Runs \ DurableRuns, phase'[q] = "off" PROVE first'[q] = 0
      BY <2>2, <2>4, <3>2 DEF Consumer, Made, TypeOK
    <3>3. QED
      BY <2>2, <3>1, <3>2 DEF Made, Consumer
  <2>7. QED
    BY <2>5, <2>6
<1>5. ASSUME NEW r \in Runs, Unable(r) PROVE TypeOK' /\ Made'
  <2>1. TypeOK'
    BY <1>5 DEF TypeOK, Unable, Event, server, consumers, watch
  <2>2. Made'
    BY <1>5 DEF TypeOK, Made, Consumer, Unable, server, consumers
  <2>3. QED
    BY <2>1, <2>2
<1>6. ASSUME NEW r \in Runs, DeliverNext(r) PROVE TypeOK' /\ Made'
  <2>1. /\ Consumer(r) \in Runs \cup {Durable} /\ next[Consumer(r)] \in 1..published
        /\ next' = [next EXCEPT ![Consumer(r)] = @ + 1] /\ first' = first /\ phase' = phase
    BY <1>6 DEF DeliverNext, Receives, Consumer, Made, TypeOK
  <2>2. next' \in [Runs \cup {Durable} -> 0..(Events + 1)]
    <3>1. next[Consumer(r)] + 1 \in 0..(Events + 1)
      <4>1. published \in Nat /\ published <= Events /\ Events \in Nat
        BY DEF TypeOK
      <4>2. next[Consumer(r)] \in Nat /\ next[Consumer(r)] <= Events
        BY <2>1, <4>1
      <4> QED
        BY <4>1, <4>2
    <3>2. next \in [Runs \cup {Durable} -> 0..(Events + 1)]
      BY DEF TypeOK
    <3> QED
      BY <2>1, <3>1, <3>2
  <2>3. unacked' \subseteq 1..published' /\ due' \subseteq unacked'
    BY <1>6, <2>1 DEF DeliverNext, Receives, Consumer, TypeOK
  <2>4. buffer' \in [Runs -> Seq(1..Events)]
    <3>1. buffer' = [buffer EXCEPT ![r] = Append(buffer[r], next[Consumer(r)])]
      BY <1>6 DEF DeliverNext, Receives
    <3>2. buffer \in [Runs -> Seq(1..Events)] /\ next[Consumer(r)] \in 1..Events
      <4>1. buffer \in [Runs -> Seq(1..Events)] /\ published \in 0..Events
        BY DEF TypeOK
      <4>2. next[Consumer(r)] \in 1..Events
        BY <2>1, <4>1
      <4> QED
        BY <4>1, <4>2
    <3>3. Append(buffer[r], next[Consumer(r)]) \in Seq(1..Events)
      BY <3>2
    <3> QED
      BY <3>1, <3>2, <3>3
  <2>5. TypeOK'
    BY <1>6, <2>2, <2>3, <2>4 DEF DeliverNext, Receives, TypeOK, watch
  <2>6. \A k \in Runs \cup {Durable} : next[k] <= next'[k] /\ next'[k] \in Nat
    <3>1. \A k \in Runs \cup {Durable} : next[k] \in Nat /\ next'[k] \in Nat
      BY <2>2 DEF TypeOK
    <3>2. ASSUME NEW k \in Runs \cup {Durable}
          PROVE  next'[k] = IF k = Consumer(r) THEN next[k] + 1 ELSE next[k]
      BY <2>1 DEF TypeOK
    <3>3. QED
      BY <3>1, <3>2
  <2>7. QED
    BY <2>1, <2>5, <2>6, MadeStays
<1>7. ASSUME NEW r \in Runs, Redeliver(r) PROVE TypeOK' /\ Made'
  <2>1. TypeOK'
    <3>1. PICK e \in due : Receives(r, e) /\ due' = due \ {e}
      BY <1>7 DEF Redeliver
    <3>2. e \in 1..Events
      BY DEF TypeOK
    <3>3. buffer' \in [Runs -> Seq(1..Events)]
      BY <3>1, <3>2 DEF Receives, TypeOK
    <3>4. QED
      BY <1>7, <3>1, <3>3 DEF TypeOK, Redeliver, Receives, watch
  <2>2. Made'
    BY <1>7 DEF Made, Consumer, Redeliver, Receives
  <2>3. QED
    BY <2>1, <2>2
<1>8. ASSUME NEW r \in Runs, Take(r) PROVE TypeOK' /\ Made'
  <2>1. buffer' \in [Runs -> Seq(1..Events)] /\ busy' \in [Runs -> 0..Events]
    BY <1>8 DEF TypeOK, Take, Takes
  <2>2. done' \in [Runs -> {"none", "decode", "handler", "ack", "cancelled", "refused"}]
    BY <1>8 DEF TypeOK, Take, Finish
  <2>3. TypeOK'
    BY <1>8, <2>1, <2>2 DEF TypeOK, Take, Takes, consumers, watch
  <2>4. Made'
    BY <1>8 DEF Made, Consumer, Take, Takes, consumers
  <2>5. QED
    BY <2>3, <2>4
<1>9. ASSUME NEW r \in Runs, Accept(r) PROVE TypeOK' /\ Made'
  <2>1. busy' \in [Runs -> 0..Events]
    BY <1>9 DEF TypeOK, Accept, Idle
  <2>2. done' \in [Runs -> {"none", "decode", "handler", "ack", "cancelled", "refused"}]
    BY <1>9 DEF TypeOK, Accept, Finish
  <2>3. unacked' \subseteq 1..published' /\ due' \subseteq unacked'
    BY <1>9 DEF TypeOK, Accept, Acked
  <2>4. failed' \in Nat /\ handled' \in [Runs \cup {Durable} -> SUBSET (1..Events)]
    BY <1>9 DEF TypeOK, Accept, Event, Consumer
  <2>5. TypeOK'
    BY <1>9, <2>1, <2>2, <2>3, <2>4 DEF TypeOK, Accept, consumers, watch
  <2>6. Made'
    BY <1>9 DEF Made, Consumer, Accept, consumers
  <2>7. QED
    BY <2>5, <2>6
<1>10. ASSUME NEW r \in Runs, Fail(r) PROVE TypeOK' /\ Made'
  <2>1. TypeOK'
    <3>1. /\ busy' = [busy EXCEPT ![r] = 0] /\ failed' = failed + 1
          /\ done' = done \/ done' = [done EXCEPT ![r] = "handler"]
          /\ UNCHANGED <<published, first, next, unacked, due, phase, buffer, onError, prev, handled>>
      BY <1>10 DEF TypeOK, Fail, Event, Finish, Idle, server, consumers, watch
    <3>2. busy' \in [Runs -> 0..Events] /\ failed' \in Nat
      BY <3>1 DEF TypeOK
    <3>3. done' \in [Runs -> {"none", "decode", "handler", "ack", "cancelled", "refused"}]
      BY <3>1 DEF TypeOK
    <3> QED
      BY <3>1, <3>2, <3>3 DEF TypeOK
  <2>2. Made'
    BY <1>10 DEF Made, Consumer, Fail, server, consumers
  <2>3. QED
    BY <2>1, <2>2
<1>11. ASSUME NEW r \in Runs, Return(r) PROVE TypeOK' /\ Made'
  <2>1. /\ phase' = [phase EXCEPT ![r] = "returned"] /\ buffer' = [buffer EXCEPT ![r] = <<>>]
        /\ onError' = [onError EXCEPT ![ConnOf[r]] = prev[r]]
        /\ UNCHANGED <<published, first, next, unacked, due, busy, done, prev, failed, handled>>
    BY <1>11 DEF Return, Stop, Restore, server, consumers
  <2>2. buffer' \in [Runs -> Seq(1..Events)] /\ onError' \in [Conns -> Seq(Runs)]
    BY <2>1 DEF TypeOK
  <2>3. TypeOK'
    BY <2>1, <2>2 DEF TypeOK
  <2>4. Made'
    BY <2>1 DEF TypeOK, Made, Consumer
  <2> QED
    BY <2>3, <2>4
<1>12. ASSUME NEW r \in Runs, Cancel(r) PROVE TypeOK' /\ Made'
  <2>1. TypeOK'
    BY <1>12 DEF TypeOK, Cancel, Stop, Restore, Event, Finish, server, consumers
  <2>2. Made'
    BY <1>12 DEF TypeOK, Made, Consumer, Cancel, Stop, server, consumers
  <2>3. QED
    BY <2>1, <2>2
<1>13. ASSUME NEW c \in Conns, Violation(c) PROVE TypeOK' /\ Made'
  BY <1>13 DEF TypeOK, Made, Consumer, Violation, Event, server, consumers, watch
<1>14. ASSUME NEW c \in Conns, Crash(c) PROVE TypeOK' /\ Made'
  <2>1. phase' \in [Runs -> {"off", "running", "returned"}]
    BY <1>14 DEF TypeOK, Crash
  <2>2. buffer' \in [Runs -> Seq(1..Events)]
    <3>1. \A r \in Runs : buffer[r] \in Seq(1..Events)
      BY DEF TypeOK
    <3>2. <<>> \in Seq(1..Events)
      OBVIOUS
    <3>3. QED
      BY <1>14, <3>1, <3>2 DEF Crash
  <2>2b. busy' \in [Runs -> 0..Events]
    BY <1>14 DEF TypeOK, Crash
  <2>3. TypeOK'
    BY <1>14, <2>1, <2>2, <2>2b DEF TypeOK, Crash, Event, server, consumers
  <2>4. \A r \in Runs : /\ phase'[r] = "running" => phase[r] = "running"
                        /\ phase'[r] = "off" => phase[r] = "off"
    BY <1>14 DEF Crash
  <2>5. \A k \in Runs \cup {Durable} : next[k] <= next'[k] /\ next'[k] \in Nat
    BY <1>14 DEF Crash, server, consumers, TypeOK
  <2>6. QED
    BY <1>14, <2>3, <2>4, <2>5, MadeStays DEF Crash, server, consumers
<1>15. QED
  BY <1>1, <1>2, <1>3, <1>4, <1>5, <1>6, <1>7, <1>8, <1>9, <1>10, <1>11, <1>12, <1>13, <1>14 DEF Next, Deliver

\* What a queue holds after it received an event.
LEMMA Received ==
    ASSUME NEW S, NEW s \in Seq(S), NEW e \in S
    PROVE  Range(s) \cup {e} \subseteq Range(Append(s, e))
<1>1. \A i \in 1..Len(s) : Append(s, e)[i] = s[i] /\ i \in 1..Len(Append(s, e))
  OBVIOUS
<1>2. Append(s, e)[Len(s) + 1] = e /\ Len(s) + 1 \in 1..Len(Append(s, e))
  OBVIOUS
<1>3. DOMAIN s = 1..Len(s) /\ DOMAIN Append(s, e) = 1..Len(Append(s, e))
  OBVIOUS
<1>4. QED
  BY <1>1, <1>2, <1>3 DEF Range

\* Once the head of a queue is taken, the rest still holds what is not the head.
LEMMA Taken ==
    ASSUME NEW S, NEW s \in Seq(S), s # <<>>
    PROVE  Range(s) \subseteq {Head(s)} \cup Range(Tail(s))
<1>1. ASSUME NEW i \in 1..Len(s), i # 1 PROVE s[i] \in Range(Tail(s))
  <2>1. i - 1 \in 1..Len(Tail(s)) /\ Tail(s)[i - 1] = s[i]
    BY <1>1
  <2>2. DOMAIN Tail(s) = 1..Len(Tail(s))
    OBVIOUS
  <2>3. QED
    BY <2>1, <2>2 DEF Range
<1>2. DOMAIN s = 1..Len(s) /\ Head(s) = s[1]
  OBVIOUS
<1>3. QED
  BY <1>1, <1>2 DEF Range

\* What the durable consumer delivered and forgot was accepted, after every step.
LEMMA Honest == ASSUME TypeOK, Made, PositionHonest, [Next]_vars PROVE PositionHonest'
<1> USE RunAssumption
<1>1. CASE UNCHANGED vars
  BY <1>1 DEF TypeOK, Made, PositionHonest, Delivered, Consumer, vars, server, consumers, client
<1>2. CASE Publish
  BY <1>2 DEF TypeOK, Made, PositionHonest, Delivered, Consumer, Publish, consumers, client
<1>3. ASSUME NEW e \in unacked, AckWaitEnds(e) PROVE PositionHonest'
  BY <1>3 DEF TypeOK, Made, PositionHonest, Delivered, Consumer, AckWaitEnds, server, consumers, client
<1>4. ASSUME NEW r \in Runs, Subscribe(r) PROVE PositionHonest'
  BY <1>4 DEF TypeOK, Made, PositionHonest, Delivered, Consumer, Subscribe, server, consumers, client
<1>5. ASSUME NEW r \in Runs, Unable(r) PROVE PositionHonest'
  BY <1>5 DEF TypeOK, Made, PositionHonest, Delivered, Consumer, Unable, server, consumers, client
<1>6. ASSUME NEW r \in Runs, DeliverNext(r) PROVE PositionHonest'
  BY <1>6 DEF TypeOK, Made, PositionHonest, Delivered, Consumer, DeliverNext, Receives, server, consumers, client
<1>7. ASSUME NEW r \in Runs, Redeliver(r) PROVE PositionHonest'
  BY <1>7 DEF TypeOK, Made, PositionHonest, Delivered, Consumer, Redeliver, Receives, server, consumers, client
<1>8. ASSUME NEW r \in Runs, Take(r) PROVE PositionHonest'
  BY <1>8 DEF TypeOK, Made, PositionHonest, Delivered, Consumer, Take, Takes, Finish, server, consumers, client
<1>9. ASSUME NEW r \in Runs, Accept(r) PROVE PositionHonest'
  BY <1>9 DEF TypeOK, Made, PositionHonest, Delivered, Consumer, Accept, Acked, Idle, Finish, server, consumers, client
<1>10. ASSUME NEW r \in Runs, Fail(r) PROVE PositionHonest'
  BY <1>10 DEF TypeOK, Made, PositionHonest, Delivered, Consumer, Fail, Finish, Idle, server, consumers, client
<1>11. ASSUME NEW r \in Runs, Return(r) PROVE PositionHonest'
  BY <1>11 DEF TypeOK, Made, PositionHonest, Delivered, Consumer, Return, Stop, server, consumers, client
<1>12. ASSUME NEW r \in Runs, Cancel(r) PROVE PositionHonest'
  BY <1>12 DEF TypeOK, Made, PositionHonest, Delivered, Consumer, Cancel, Stop, Finish, server, consumers, client
<1>13. ASSUME NEW c \in Conns, Violation(c) PROVE PositionHonest'
  BY <1>13 DEF TypeOK, Made, PositionHonest, Delivered, Consumer, Violation, server, consumers, client
<1>14. ASSUME NEW c \in Conns, Crash(c) PROVE PositionHonest'
  BY <1>14 DEF TypeOK, Made, PositionHonest, Delivered, Consumer, Crash, server, consumers, client
<1>15. QED
  BY <1>1, <1>2, <1>3, <1>4, <1>5, <1>6, <1>7, <1>8, <1>9, <1>10, <1>11, <1>12, <1>13, <1>14 DEF Next, Deliver

\* An ordered run steps over nothing, whatever step is taken.
LEMMA Skips == ASSUME TypeOK, Made, NothingSkipped, [Next]_vars PROVE NothingSkipped'
<1> USE RunAssumption, CountAssumption
<1>1. CASE UNCHANGED vars
  BY <1>1 DEF TypeOK, Made, NothingSkipped, Delivered, Consumer, Range, vars, server, consumers, client
<1>2. CASE Publish
  BY <1>2 DEF TypeOK, Made, NothingSkipped, Delivered, Consumer, Range, Publish, consumers, client
<1>3. ASSUME NEW e \in unacked, AckWaitEnds(e) PROVE NothingSkipped'
  BY <1>3 DEF TypeOK, Made, NothingSkipped, Delivered, Consumer, Range, AckWaitEnds, server, consumers, client
<1>4. ASSUME NEW r \in Runs, Subscribe(r) PROVE NothingSkipped'
  <2>1. SUFFICES ASSUME NEW q \in Runs \ DurableRuns, phase'[q] = "running", done'[q] = "none"
                 PROVE  Delivered(q)' \subseteq handled'[q] \cup Range(buffer'[q]) \cup {busy'[q]}
    BY DEF NothingSkipped
  <2>2. UNCHANGED <<handled, buffer, busy, done>>
    BY <1>4 DEF Subscribe
  <2>3. CASE q = r
    <3>1. first[q] = 0 /\ Consumer(q) = q
      BY <1>4, <2>3 DEF Subscribe, Made, Consumer
    <3>2. PICK from \in 1..(published + 1) : first'[q] = from /\ next'[q] = from
      BY <1>4, <2>3, <3>1 DEF Subscribe, TypeOK
    <3>3. Delivered(q)' = {}
      BY <3>2 DEF Delivered, TypeOK
    <3>4. QED
      BY <3>3
  <2>4. CASE q # r
    <3>1. q # Consumer(r) /\ phase[q] = "running"
      BY <1>4, <2>1, <2>4 DEF Subscribe, TypeOK, Consumer
    <3>2. first'[q] = first[q] /\ next'[q] = next[q]
      BY <1>4, <3>1 DEF Subscribe, TypeOK, consumers
    <3>3. QED
      BY <2>1, <2>2, <3>1, <3>2 DEF NothingSkipped, Delivered
  <2>5. QED
    BY <2>3, <2>4
<1>5. ASSUME NEW r \in Runs, Unable(r) PROVE NothingSkipped'
  BY <1>5 DEF TypeOK, Made, NothingSkipped, Delivered, Consumer, Range, Unable, server, consumers, client
<1>6. ASSUME NEW r \in Runs, DeliverNext(r) PROVE NothingSkipped'
  <2>1. SUFFICES ASSUME NEW q \in Runs \ DurableRuns, phase'[q] = "running", done'[q] = "none"
                 PROVE  Delivered(q)' \subseteq handled'[q] \cup Range(buffer'[q]) \cup {busy'[q]}
    BY DEF NothingSkipped
  <2>2. UNCHANGED <<handled, first, phase, busy, done>>
    BY <1>6 DEF DeliverNext, Receives
  <2>3. Delivered(q) \subseteq handled[q] \cup Range(buffer[q]) \cup {busy[q]}
    BY <2>1, <2>2 DEF NothingSkipped
  <2>4. CASE q = r
    <3>1. /\ Consumer(q) = q /\ next[q] \in 1..Events /\ next'[q] = next[q] + 1
          /\ buffer'[q] = Append(buffer[q], next[q])
      BY <1>6, <2>4 DEF DeliverNext, Receives, Consumer, TypeOK, Made
    <3>2. Delivered(q)' \subseteq Delivered(q) \cup {next[q]}
      <4>1. ASSUME NEW e \in 1..Events, first'[q] # 0, first'[q] <= e, e < next'[q], e # next[q]
            PROVE  first[q] # 0 /\ first[q] <= e /\ e < next[q]
        BY <2>2, <3>1, <4>1
      <4> QED
        BY <4>1 DEF Delivered
    <3>3. Range(buffer[q]) \cup {next[q]} \subseteq Range(buffer'[q])
      <4>1. buffer[q] \in Seq(1..Events)
        BY DEF TypeOK
      <4>2. QED
        BY <3>1, <4>1, Received
    <3>4. QED
      BY <2>2, <2>3, <3>2, <3>3
  <2>5. CASE q # r
    <3>1. next'[q] = next[q] /\ buffer'[q] = buffer[q]
      BY <1>6, <2>5 DEF DeliverNext, Receives, Consumer, TypeOK
    <3>2. QED
      BY <2>2, <2>3, <3>1 DEF Delivered
  <2>6. QED
    BY <2>4, <2>5
<1>7. ASSUME NEW r \in Runs, Redeliver(r) PROVE NothingSkipped'
  <2>1. r \in DurableRuns /\ UNCHANGED <<handled, first, next, phase, busy, done>>
        /\ \E e \in due : buffer' = [buffer EXCEPT ![r] = Append(@, e)]
    BY <1>7 DEF Redeliver, Receives
  <2>2. \A q \in Runs \ DurableRuns : buffer'[q] = buffer[q] /\ Delivered(q)' = Delivered(q)
    BY <2>1 DEF TypeOK, Delivered
  <2> QED
    BY <2>1, <2>2 DEF NothingSkipped
<1>8. ASSUME NEW r \in Runs, Take(r) PROVE NothingSkipped'
  <2>1. SUFFICES ASSUME NEW q \in Runs \ DurableRuns, phase'[q] = "running", done'[q] = "none"
                 PROVE  Delivered(q)' \subseteq handled'[q] \cup Range(buffer'[q]) \cup {busy'[q]}
    BY DEF NothingSkipped
  <2>2. UNCHANGED <<handled, first, next, phase>>
    BY <1>8 DEF Take, Takes, consumers
  <2>3. done[q] = "none"
    BY <1>8, <2>1 DEF Take, Finish, TypeOK
  <2>4. Delivered(q) \subseteq handled[q] \cup Range(buffer[q]) \cup {busy[q]}
    BY <2>1, <2>2, <2>3 DEF NothingSkipped
  <2>5. CASE q = r
    <3>1. Head(buffer[q]) \notin Undecodable
      BY <1>8, <2>1, <2>3, <2>5 DEF Take, Finish, TypeOK
    <3>2. /\ busy[q] = 0 /\ buffer[q] # <<>>
          /\ buffer'[q] = Tail(buffer[q]) /\ busy'[q] = Head(buffer[q])
      BY <1>8, <2>5, <3>1 DEF Take, Takes, TypeOK
    <3>3. Range(buffer[q]) \subseteq {busy'[q]} \cup Range(buffer'[q])
      BY <3>2, Taken DEF TypeOK
    <3>4. 0 \notin Delivered(q)
      BY DEF Delivered
    <3>5. Delivered(q)' = Delivered(q)
      BY <2>2 DEF Delivered
    <3>6. QED
      BY <2>2, <2>4, <3>2, <3>3, <3>4, <3>5
  <2>6. CASE q # r
    <3>1. busy'[q] = busy[q] /\ buffer'[q] = buffer[q]
      BY <1>8, <2>6 DEF Take, Takes, TypeOK
    <3>2. QED
      BY <2>2, <2>4, <3>1 DEF Delivered
  <2>7. QED
    BY <2>5, <2>6
<1>9. ASSUME NEW r \in Runs, Accept(r) PROVE NothingSkipped'
  <2>1. /\ handled' = [handled EXCEPT ![Consumer(r)] = @ \cup {busy[r]}] /\ busy' = [busy EXCEPT ![r] = 0]
        /\ UNCHANGED <<first, next, phase, buffer>>
    BY <1>9 DEF Accept, Idle, consumers
  <2>2. r \notin DurableRuns => Consumer(r) = r /\ done' = done
    BY <1>9 DEF Accept, Consumer
  <2>3. r \in DurableRuns => \A q \in Runs \ DurableRuns : done'[q] = done[q] /\ handled'[q] = handled[q]
    BY <1>9, <2>1 DEF Accept, Finish, Consumer, TypeOK
  <2>4. ASSUME NEW q \in Runs \ DurableRuns
        PROVE  /\ done'[q] = done[q] /\ Delivered(q)' = Delivered(q)
               /\ handled[q] \cup {busy[q]} \subseteq handled'[q] \cup {busy'[q]}
    <3>1. CASE q = r
      BY <2>1, <2>2, <3>1 DEF TypeOK, Delivered
    <3>2. CASE q # r
      <4>1. done'[q] = done[q] /\ handled'[q] = handled[q]
        BY <2>1, <2>2, <2>3, <3>2 DEF TypeOK
      <4> QED
        BY <2>1, <3>2, <4>1 DEF TypeOK, Delivered
    <3> QED
      BY <3>1, <3>2
  <2> QED
    BY <2>1, <2>4 DEF NothingSkipped
<1>10. ASSUME NEW r \in Runs, Fail(r) PROVE NothingSkipped'
  BY <1>10 DEF TypeOK, Made, NothingSkipped, Delivered, Consumer, Range, Fail, Finish, Idle, server, consumers, client
<1>11. ASSUME NEW r \in Runs, Return(r) PROVE NothingSkipped'
  BY <1>11 DEF TypeOK, Made, NothingSkipped, Delivered, Consumer, Range, Return, Stop, server, consumers, client
<1>12. ASSUME NEW r \in Runs, Cancel(r) PROVE NothingSkipped'
  BY <1>12 DEF TypeOK, Made, NothingSkipped, Delivered, Consumer, Range, Cancel, Stop, Finish, server, consumers, client
<1>13. ASSUME NEW c \in Conns, Violation(c) PROVE NothingSkipped'
  BY <1>13 DEF TypeOK, Made, NothingSkipped, Delivered, Consumer, Range, Violation, server, consumers, client
<1>14. ASSUME NEW c \in Conns, Crash(c) PROVE NothingSkipped'
  BY <1>14 DEF TypeOK, Made, NothingSkipped, Delivered, Consumer, Range, Crash, server, consumers, client
<1>15. QED
  BY <1>1, <1>2, <1>3, <1>4, <1>5, <1>6, <1>7, <1>8, <1>9, <1>10, <1>11, <1>12, <1>13, <1>14 DEF Next, Deliver

\* Everything holds initially.
LEMMA Initially == Init => TypeOK /\ Made /\ PositionHonest /\ NothingSkipped
<1> USE RunAssumption, CountAssumption
<1>1. Init => TypeOK
  BY DEF Init, TypeOK
<1>2. Init => Made /\ PositionHonest /\ NothingSkipped
  BY DEF Init, Made, Consumer, PositionHonest, NothingSkipped, Delivered
<1>3. QED
  BY <1>1, <1>2

\* Types and positions hold in every reachable state.
THEOREM TypeCorrect == Spec => [](TypeOK /\ Made)
<1>1. TypeOK /\ Made /\ [Next]_vars => TypeOK' /\ Made'
  BY Types
<1>2. QED
  BY <1>1, Initially, PTL DEF Spec

\* "The recorded position never runs ahead of the work" (consumer.go:262-263),
\* whatever fails and however many runs compete for the durable consumer.
THEOREM PositionKept == Spec => []PositionHonest
<1>1. TypeOK /\ Made /\ PositionHonest /\ [Next]_vars => PositionHonest'
  BY Honest
<1>2. QED
  BY <1>1, Initially, TypeCorrect, PTL DEF Spec

\* An ordered run that goes on steps over no event (consumer.go:202-204).
THEOREM OrderedSkipsNothing == Spec => []NothingSkipped
<1>1. TypeOK /\ Made /\ NothingSkipped /\ [Next]_vars => NothingSkipped'
  BY Skips
<1>2. QED
  BY <1>1, Initially, TypeCorrect, PTL DEF Spec
=============================================================================
