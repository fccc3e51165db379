----------------------------- MODULE BusProofs ------------------------------
(***************************************************************************)
(* Proofs about Bus, for any calls of any kinds and any drops of the       *)
(* connection: what a call that no drop touched is told is what became of  *)
(* it, and everybody writes through one space.                             *)
(***************************************************************************)
EXTENDS Bus, SequenceTheorems, TLAPS

BusSpec == BusInit /\ [][BusNext]_busVars

Phases == {"idle", "watching", "waits", "done"}
Replies == {"success", "failure", "nobody"}
Results == Replies \cup {"none", "refused", "silent", "nobucket", "unavailable", "answered",
                               "noregistry", "unclear"}

BusTypes ==
    /\ kind \in [Calls -> CallKinds] /\ phase \in [Calls -> Phases] /\ result \in [Calls -> Results]
    /\ granted \subseteq CallKinds /\ conn \in {"up", "down"}
    /\ outbox \subseteq Calls /\ atServer \subseteq Calls /\ refusals \subseteq Calls
    /\ answer \in [Calls -> Replies \cup {"none"}]
    /\ lastError \in [n : Nat, kind : CallKinds \cup {"none"}] /\ reports \in Seq(CallKinds)
    /\ permErrs \subseteq CallKinds
    /\ permWaiters \subseteq Calls /\ toCancel \subseteq Calls /\ cancelled \subseteq Calls
    /\ before \in [Calls -> Nat]
    /\ space \in Calls \cup {0} /\ contract \in Calls \cup {0} /\ got \in [Calls -> Calls \cup {0}]
    /\ served \subseteq Calls /\ cut \subseteq Calls /\ blurred \subseteq Calls

\* What is on its way of a call, or came of it, is of a call that published.
Sent(c) == c \in atServer \cup outbox \cup refusals \cup served \/ answer[c] # "none"

\* A refusal that is still on its way, or not told, is of a kind that is not granted: the grants
\* change only when a connection that told everything is back.
Refusals ==
    /\ conn = "down" => atServer = {} /\ refusals = {}
    /\ \A c \in Calls : Sent(c) => phase[c] \in {"waits", "done"}
    /\ \A c \in Calls : c \in outbox /\ phase[c] # "idle" => c \in cut
    /\ \A c \in refusals : kind[c] \notin granted
    /\ \A k \in ToSet(reports) : k \notin granted
    /\ lastError.kind \notin granted
    /\ \A c \in cancelled \cup toCancel : kind[c] \in permErrs

\* What a call that no drop touched may conclude.
Served(c) == c \in served \/ answer[c] # "none" => kind[c] \in granted

OfItsOwn(c) ==
    phase[c] \in {"watching", "waits"} /\ ~LooksBack(c) /\ kind[c] \in permErrs
        => kind[c] \notin granted \/ (phase[c] = "watching" /\ c \in cancelled)

Awaited(c) ==
    phase[c] = "waits" /\ c \notin atServer \cup refusals /\ kind[c] \notin granted
        => IF LooksBack(c) THEN /\ kind[c] = "ping" => lastError.n # before[c]
                                /\ Violation(c) \/ c \in blurred
           ELSE kind[c] \in ToSet(reports) \cup permErrs

PingLooksBack(c) ==
    phase[c] \in {"watching", "waits"} /\ kind[c] = "ping"
        => before[c] <= lastError.n /\ (Refused(c) => "ping" \notin granted)

Told(c) ==
    phase[c] = "done" =>
        /\ result[c] = "refused" => c \notin served /\ (kind[c] \notin granted \/ c \notin atServer)
        /\ result[c] = "silent" /\ kind[c] # "ping" => kind[c] \in granted
        /\ result[c] = "refused" /\ kind[c] = "registry" => kind[c] \notin granted
        /\ result[c] = "noregistry" => kind[c] \in granted
        /\ result[c] = "unclear" => kind[c] \in granted \/ c \in blurred
        /\ result[c] = "unavailable" /\ kind[c] = "ping" => "ping" \in granted \/ c \in blurred

Fair(c) == Served(c) /\ OfItsOwn(c) /\ Awaited(c) /\ PingLooksBack(c) /\ Told(c)

Spaces == \A c \in Calls : OnBucket(c) => got[c] \in {0, space}

Inv == BusTypes /\ Refusals /\ (\A c \in Calls \ cut : Fair(c)) /\ Spaces

-----------------------------------------------------------------------------

\* The kinds in a queue of reports, when one is added or taken.
LEMMA Queue ==
  ASSUME NEW S, NEW s \in Seq(S)
  PROVE  /\ \A e \in S : Append(s, e) \in Seq(S) /\ ToSet(Append(s, e)) = ToSet(s) \cup {e}
         /\ s # <<>> => /\ Head(s) \in S /\ Tail(s) \in Seq(S)
                        /\ ToSet(s) = {Head(s)} \cup ToSet(Tail(s))
<1>1. ASSUME NEW e \in S
      PROVE  Append(s, e) \in Seq(S) /\ ToSet(Append(s, e)) = ToSet(s) \cup {e}
  <2>1. /\ Append(s, e) \in Seq(S) /\ Len(Append(s, e)) = Len(s) + 1 /\ Len(s) \in Nat
        /\ \A i \in 1..Len(s) : Append(s, e)[i] = s[i]
        /\ Append(s, e)[Len(s) + 1] = e
    BY AppendProperties, LenProperties
  <2>2. DOMAIN Append(s, e) = 1..(Len(s) + 1) /\ DOMAIN s = 1..Len(s)
    BY <2>1, LenProperties
  <2> QED BY <2>1, <2>2 DEF ToSet
<1>2. ASSUME s # <<>>
      PROVE  Head(s) \in S /\ Tail(s) \in Seq(S) /\ ToSet(s) = {Head(s)} \cup ToSet(Tail(s))
  <2>1. /\ Head(s) \in S /\ Tail(s) \in Seq(S) /\ Head(s) = s[1]
        /\ Len(s) \in Nat \ {0} /\ Len(Tail(s)) = Len(s) - 1
        /\ \A i \in 1..(Len(s) - 1) : Tail(s)[i] = s[i + 1]
    BY <1>2, HeadTailProperties, LenProperties, EmptySeq
  <2>2. DOMAIN Tail(s) = 1..(Len(s) - 1) /\ DOMAIN s = 1..Len(s)
    BY <2>1, LenProperties
  <2>3. \A i \in 1..Len(s) : i = 1 \/ (i - 1 \in 1..(Len(s) - 1) /\ s[i] = Tail(s)[i - 1])
    BY <2>1
  <2>4. ToSet(s) = {s[i] : i \in 1..Len(s)} /\ ToSet(Tail(s)) = {Tail(s)[i] : i \in 1..(Len(s) - 1)}
    BY <2>2 DEF ToSet
  <2>5. ToSet(s) \subseteq {Head(s)} \cup ToSet(Tail(s))
    BY <2>1, <2>3, <2>4
  <2>6. {Head(s)} \cup ToSet(Tail(s)) \subseteq ToSet(s)
    <3>1. \A i \in 1..(Len(s) - 1) : i + 1 \in 1..Len(s)
      BY <2>1
    <3> QED BY <2>1, <2>4, <3>1
  <2> QED BY <2>1, <2>5, <2>6
<1> QED BY <1>1, <1>2

\* Nothing was called.
LEMMA Initially == BusInit => Inv
  BY CallAssumption DEF BusInit, Inv, BusTypes, Phases, Replies, Results, Refusals, Sent, Fair, Served, OfItsOwn,
     Awaited, PingLooksBack, Told, Spaces, Refused, Violation, LooksBack, ToSet

\* How a call ends: it is done, with a result, and nothing else changes but the caches.
Ends(c) ==
    /\ phase' = [phase EXCEPT ![c] = "done"]
    /\ permWaiters' \subseteq Calls
    /\ space' \in Calls \cup {0} /\ contract' \in Calls \cup {0} /\ got' \in [Calls -> Calls \cup {0}]
    /\ UNCHANGED <<kind, granted, listening, conn, cuts, outbox, atServer, answer, refusals>>
    /\ UNCHANGED <<lastError, reports, permErrs, toCancel, cancelled, before>>
    /\ UNCHANGED <<served, cut, blurred>>

\* What is left to show of a call that ends: that what it is told is true.
LEMMA EndingOK ==
  ASSUME Inv, NEW c \in Calls, NEW r \in Results, Ends(c), result' = [result EXCEPT ![c] = r],
         c \notin cut => Told(c)', Spaces'
  PROVE  Inv'
<1> USE DEF Ends
<1>1. phase'[c] = "done" /\ \A d \in Calls : d # c => phase'[d] = phase[d] /\ result'[d] = result[d]
  BY DEF Inv, BusTypes
<1>2. BusTypes'
  BY DEF Inv, BusTypes, Phases
<1>3. Refusals'
  <2>1. \A d \in Calls : Sent(d)' <=> Sent(d)
    BY DEF Sent
  <2>2. \A d \in outbox : phase[d] # "idle"
    BY DEF Inv, BusTypes, Refusals, Sent
  <2> QED BY <1>1, <2>1, <2>2 DEF Inv, Refusals, BusTypes
<1>4. ASSUME NEW d \in Calls \ cut' PROVE Fair(d)'
  <2>1. CASE d = c
    BY <1>1, <1>4, <2>1 DEF Inv, Fair, Served, OfItsOwn, Awaited, PingLooksBack
  <2>2. CASE d # c
    BY <1>1, <1>4, <2>2 DEF Inv, Fair, Served, OfItsOwn, Awaited, PingLooksBack, Refused, Violation, LooksBack, Told
  <2> QED BY <2>1, <2>2
<1> QED BY <1>2, <1>3, <1>4 DEF Inv

\* A call that answers from a cache.
LEMMA CachedOK == ASSUME Inv, NEW c \in Calls, Cached(c) PROVE Inv'
<1> USE DEF Cached, ContractCached, SpaceCached, Own, busWire, watch, busHistory, Returns, Becomes
<1>1. Ends(c)
  <2>1. /\ permWaiters \subseteq Calls /\ space \in Calls \cup {0} /\ contract \in Calls \cup {0}
        /\ got \in [Calls -> Calls \cup {0}]
    BY DEF Inv, BusTypes
  <2>2. got' \in [Calls -> Calls \cup {0}]
    BY <2>1
  <2> QED
    BY <2>1, <2>2 DEF Ends
<1>2. result' = [result EXCEPT ![c] = "success"] /\ "success" \in Results
  BY DEF Results, Replies
<1>3. Told(c)'
  BY <1>2 DEF Told, Inv, BusTypes
<1>4. Spaces'
  BY DEF Inv, BusTypes, Spaces, OnBucket, KeyKinds
<1> QED BY <1>1, <1>2, <1>3, <1>4, EndingOK

\* A call that begins to watch: of a kind whose refusal is known, it is cancelled at once.
LEMMA BeginOK == ASSUME Inv, NEW c \in Calls, Begin(c) PROVE Inv'
<1> USE DEF Begin, Own, busWire, watch, busHistory, Becomes, WatchPermission
<1>1. BusTypes' BY DEF Inv, BusTypes, Phases
<1>2. Refusals' BY DEF Inv, BusTypes, Refusals, Sent
<1>3. ASSUME NEW d \in Calls \ cut' PROVE Fair(d)'
  <2>1. CASE d = c
    BY <1>3, <2>1 DEF Inv, BusTypes, Fair, Served, OfItsOwn, Awaited, PingLooksBack, Told, Refused, Violation, LooksBack
  <2>2. CASE d # c
    BY <1>3, <2>2 DEF Inv, BusTypes, Fair, Served, OfItsOwn, Awaited, PingLooksBack, Told, Refused, Violation, LooksBack
  <2> QED BY <2>1, <2>2
<1>4. Spaces' BY DEF Inv, BusTypes, Spaces, OnBucket, KeyKinds
<1> QED BY <1>1, <1>2, <1>3, <1>4 DEF Inv

\* A call that publishes was not cancelled.
LEMMA PublishOK == ASSUME Inv, NEW c \in Calls, Publish(c) PROVE Inv'
<1> USE DEF Publish, watch, caches, Becomes
<1>1. BusTypes' BY DEF Inv, BusTypes, Phases
<1>2. Refusals' BY DEF Inv, BusTypes, Refusals, Sent
<1>3. ASSUME NEW d \in Calls \ cut' PROVE Fair(d)'
  BY <1>3 DEF Inv, BusTypes, Refusals, Sent, Fair, Served, OfItsOwn, Awaited, PingLooksBack, Told, Refused, Violation, LooksBack
<1>4. Spaces' BY DEF Inv, Spaces, OnBucket
<1> QED BY <1>1, <1>2, <1>3, <1>4 DEF Inv

\* The error handler: what it records and whom it cancels.
LEMMA HandlerOK ==
  ASSUME Inv, NotePermissionError \/ \E c \in Calls : Cancel(c)
  PROVE  Inv'
<1> USE DEF Own, busWire, caches, busHistory
<1>1. CASE NotePermissionError
  <2>1. /\ ToSet(reports) = {Head(reports)} \cup ToSet(reports') /\ Head(reports) \in CallKinds
        /\ reports' \in Seq(CallKinds)
    BY <1>1, Queue DEF NotePermissionError, Inv, BusTypes
  <2> HIDE DEF ToSet
  <2>2. BusTypes' BY <1>1, <2>1 DEF NotePermissionError, Inv, BusTypes
  <2>3. Refusals' BY <1>1, <2>1 DEF NotePermissionError, Inv, BusTypes, Refusals, Sent
  <2>4. ASSUME NEW d \in Calls \ cut' PROVE Fair(d)'
    BY <1>1, <2>1, <2>4 DEF NotePermissionError, Inv, BusTypes, Refusals, Fair, Served, OfItsOwn, Awaited,
       PingLooksBack, Told, Refused, Violation, LooksBack
  <2>5. Spaces' BY <1>1 DEF NotePermissionError, Inv, Spaces, OnBucket
  <2> QED BY <2>2, <2>3, <2>4, <2>5 DEF Inv
<1>2. ASSUME NEW c \in Calls, Cancel(c) PROVE Inv'
  <2>1. BusTypes' BY <1>2 DEF Cancel, Inv, BusTypes
  <2>2. Refusals' BY <1>2 DEF Cancel, Inv, BusTypes, Refusals, Sent
  <2>3. ASSUME NEW d \in Calls \ cut' PROVE Fair(d)'
    BY <1>2, <2>3 DEF Cancel, Inv, BusTypes, Fair, Served, OfItsOwn, Awaited, PingLooksBack, Told, Refused, Violation, LooksBack
  <2>4. Spaces' BY <1>2 DEF Cancel, Inv, Spaces, OnBucket
  <2> QED BY <2>1, <2>2, <2>3, <2>4 DEF Inv
<1> QED BY <1>1, <1>2

\* A call that is answered, or fails: a refusal is its subject's, and silence is of a subject that
\* was granted.
LEMMA EndOK ==
  ASSUME Inv, NEW c \in Calls,
         \/ Answered(c) \/ Fails(c)
         \/ PingLooks(c) \/ PingAnswered(c) \/ PingTimesOut(c) \/ RegistryFails(c)
  PROVE  Inv'
<1> USE DEF Own, busWire, watch, caches, busHistory, Returns, Becomes, Unwatch, Waits
<1>0. c \notin cut => Fair(c)
  BY DEF Inv
<1>1. CASE Answered(c)
  <2> DEFINE r == ReplyOf(c)
  <2>1. Ends(c)
    <3>1. space' \in Calls \cup {0} /\ contract' \in Calls \cup {0} /\ got' \in [Calls -> Calls \cup {0}]
      <4>1. CASE answer[c] = "success" /\ kind[c] = "kv"
        BY <1>1, <4>1 DEF Answered, FirstSpace, Inv, BusTypes
      <4>2. CASE answer[c] = "success" /\ kind[c] = "contract"
        <5>1. contract' = c /\ got' = [got EXCEPT ![c] = c] /\ space' = space
          BY <1>1, <4>2 DEF Answered, LastContract
        <5>2. space \in Calls \cup {0} /\ got \in [Calls -> Calls \cup {0}]
          BY DEF Inv, BusTypes
        <5> QED
          BY <5>1, <5>2
      <4>3. CASE ~(answer[c] = "success" /\ kind[c] \in {"kv", "contract"})
        BY <1>1, <4>3 DEF Answered, Inv, BusTypes
      <4> QED BY <4>1, <4>2, <4>3
    <3>2. permWaiters' \subseteq Calls
      BY <1>1 DEF Answered, Inv, BusTypes
    <3> QED BY <1>1, <3>1, <3>2 DEF Answered, Ends
  <2>2. result' = [result EXCEPT ![c] = r] /\ r \in Results
    BY <1>1 DEF Answered, ReplyOf, KVError, Explained, Results, Replies, Inv, BusTypes
  <2>3. c \notin cut => Told(c)'
    <3>1. /\ result'[c] = r /\ phase[c] = "waits" /\ kind[c] # "ping" /\ answer[c] \in Replies
          /\ UNCHANGED <<served, kind, granted, atServer, blurred>>
      BY <1>1, <2>2 DEF Answered, Inv, BusTypes
    <3>2. /\ r \in Replies \cup {"nobucket", "refused", "noregistry"}
          /\ r = "refused" => IF kind[c] = "registry" THEN Violation(c) ELSE kind[c] \in permErrs
      BY <3>1 DEF ReplyOf, KVError, Explained, Replies, OnBucket, KeyKinds
    <3>3. r = "refused" /\ c \notin cut => kind[c] \notin granted
      BY <1>0, <3>1, <3>2 DEF Fair, OfItsOwn, LooksBack, Inv, Refusals, Violation
    <3>4. ASSUME c \notin cut PROVE kind[c] \in granted
      BY <1>0, <3>1, <3>4 DEF Fair, Served, Replies
    <3> QED BY <1>0, <3>1, <3>2, <3>3, <3>4 DEF Told, Replies
  <2>4. Spaces'
    BY <1>1 DEF Answered, FirstSpace, LastContract, Inv, BusTypes, Spaces, OnBucket, KeyKinds
  <2> QED BY <2>1, <2>2, <2>3, <2>4, EndingOK
<1>2. CASE Fails(c)
  <2>1. Ends(c)
    BY <1>2 DEF Fails, Ends, Inv, BusTypes
  <2>2. result' = [result EXCEPT ![c] = WhyFailed(c)] /\ WhyFailed(c) \in Results
    BY <1>2 DEF Fails, WhyFailed, Results
  <2>3. ASSUME c \notin cut PROVE Told(c)'
    <3>1. /\ result'[c] = WhyFailed(c) /\ ~LooksBack(c) /\ phase[c] \in {"watching", "waits"}
          /\ UNCHANGED <<served, kind, granted, atServer>>
      BY <1>2, <2>2 DEF Fails, Overdue, Inv, BusTypes
    <3>2. CASE kind[c] \in permErrs
      <4>1. phase[c] = "watching" => c \notin served /\ c \notin atServer
        BY DEF Inv, Refusals, Sent
      <4> QED BY <1>0, <2>3, <3>1, <3>2, <4>1 DEF WhyFailed, Told, Fair, Served, OfItsOwn, LooksBack
    <3>3. CASE kind[c] \notin permErrs
      <4>1. Overdue(c) /\ kind[c] \notin ToSet(reports)
        BY <1>2, <3>3 DEF Fails, Inv, Refusals
      <4> QED BY <1>0, <2>3, <3>1, <3>3, <4>1 DEF WhyFailed, Told, Fair, Awaited, Overdue
    <3> QED BY <3>2, <3>3
  <2>4. Spaces'
    BY <1>2 DEF Fails, Inv, Spaces, OnBucket
  <2> QED BY <2>1, <2>2, <2>3, <2>4, EndingOK
<1>7. CASE RegistryFails(c)
  <2>1. Ends(c)
    BY <1>7 DEF RegistryFails, Ends, Inv, BusTypes
  <2>2. result' = [result EXCEPT ![c] = Explained(c)] /\ Explained(c) \in {"refused", "unclear"}
    BY <1>7 DEF RegistryFails, Explained, Overdue
  <2>3. ASSUME c \notin cut PROVE Told(c)'
    <3>1. /\ result'[c] = Explained(c) /\ kind[c] = "registry" /\ phase[c] = "waits"
          /\ c \notin atServer \cup refusals /\ UNCHANGED <<served, kind, granted, atServer, blurred>>
      BY <1>7, <2>2 DEF RegistryFails, Overdue, Inv, BusTypes
    <3>2. CASE Violation(c)
      <4>1. kind[c] \notin granted
        BY <3>2 DEF Violation, Inv, Refusals
      <4> QED BY <1>0, <2>2, <2>3, <3>1, <3>2, <4>1 DEF Explained, Told, Fair, Served
    <3>3. CASE ~Violation(c)
      <4>1. kind[c] \in granted \/ c \in blurred
        BY <1>0, <2>3, <3>1, <3>3 DEF Fair, Awaited, LooksBack
      <4> QED BY <2>2, <3>1, <3>3, <4>1 DEF Explained, Told
    <3> QED BY <3>2, <3>3
  <2>4. Spaces'
    BY <1>7 DEF RegistryFails, Inv, Spaces, OnBucket
  <2> QED BY <2>1, <2>2, <2>3, <2>4, EndingOK DEF Results
<1>3. ASSUME NEW r \in {"refused", "unavailable", "answered"}, Waits(c), kind[c] = "ping", Returns(c, r),
             Own, UNCHANGED <<watch, caches, busHistory>>,
             r = "refused" => Refused(c),
             r = "unavailable" => answer[c] # "none" \/ (~Refused(c) /\ c \notin atServer \cup refusals)
      PROVE  Inv'
  <2>1. Ends(c)
    BY <1>3 DEF Ends, Inv, BusTypes
  <2>2. result' = [result EXCEPT ![c] = r] /\ r \in Results
    BY <1>3 DEF Results
  <2>3. ASSUME c \notin cut PROVE Told(c)'
    <3>1. result'[c] = r /\ UNCHANGED <<served, kind, granted, atServer, blurred>>
      BY <1>3, <2>2 DEF Inv, BusTypes
    <3> QED BY <1>0, <1>3, <2>3, <3>1 DEF Told, Fair, Served, Awaited, PingLooksBack, Refused, Violation, LooksBack
  <2>4. Spaces'
    BY <1>3 DEF Inv, Spaces, OnBucket
  <2> QED BY <2>1, <2>2, <2>3, <2>4, EndingOK
<1>4. CASE PingLooks(c)
  BY <1>3, <1>4 DEF PingLooks
<1>5. CASE PingAnswered(c)
  BY <1>3, <1>5 DEF PingAnswered
<1>6. CASE PingTimesOut(c)
  BY <1>3, <1>6 DEF PingTimesOut, LastLook, Overdue
<1> QED BY <1>1, <1>2, <1>4, <1>5, <1>6, <1>7

\* The server serves what is granted and refuses the rest.
LEMMA ServerOK == ASSUME Inv, NEW c \in Calls, ServerTakes(c) PROVE Inv'
<1> USE DEF ServerTakes, Local, watch, caches
<1>1. BusTypes'
  <2>1. answer' \in [Calls -> Replies \cup {"none"}]
    BY DEF Inv, BusTypes, Replies
  <2>2. refusals' \subseteq Calls /\ served' \subseteq Calls /\ atServer' \subseteq Calls
    BY DEF Inv, BusTypes
  <2> QED BY <2>1, <2>2 DEF Inv, BusTypes
<1>2. Refusals' BY DEF Inv, BusTypes, Refusals, Sent
<1>3. ASSUME NEW d \in Calls \ cut' PROVE Fair(d)'
  <2>1. CASE kind[c] \notin granted
    BY <1>3, <2>1 DEF Inv, BusTypes, Fair, Served, OfItsOwn, Awaited, PingLooksBack, Told, Refused, Violation, LooksBack
  <2>2. CASE kind[c] \in granted
    BY <1>3, <2>2 DEF Inv, BusTypes, Fair, Served, OfItsOwn, Awaited, PingLooksBack, Told, Refused, Violation, LooksBack
  <2> QED BY <2>1, <2>2
<1>4. Spaces' BY DEF Inv, Spaces, OnBucket
<1> QED BY <1>1, <1>2, <1>3, <1>4 DEF Inv

\* A refusal that arrives takes the place of the connection's last error.
LEMMA RefusalOK == ASSUME Inv, NEW c \in Calls, RefusalArrives(c) PROVE Inv'
<1> USE DEF RefusalArrives, Local, caches
<1>0. /\ ToSet(reports') = ToSet(reports) \cup {kind[c]} /\ reports' \in Seq(CallKinds)
      /\ kind[c] \in CallKinds /\ kind[c] \notin granted
  BY Queue DEF Inv, BusTypes, Refusals
<1>1. BusTypes' BY <1>0 DEF Inv, BusTypes
<1>2. Refusals' BY <1>0 DEF Inv, BusTypes, Refusals, Sent
<1>3. ASSUME NEW d \in Calls \ cut' PROVE Fair(d)'
  <2>1. Served(d)' /\ OfItsOwn(d)'
    BY <1>3 DEF Inv, BusTypes, Fair, Served, OfItsOwn, LooksBack
  <2>2. PingLooksBack(d)'
    BY <1>0, <1>3 DEF Inv, BusTypes, Fair, PingLooksBack, Refused, Violation
  <2>3. Awaited(d)'
    BY <1>0, <1>3 DEF Inv, BusTypes, Fair, PingLooksBack, Awaited, Refused, Violation, LooksBack
  <2>4. Told(d)'
    BY <1>3 DEF Inv, BusTypes, Fair, Told
  <2> QED BY <2>1, <2>2, <2>3, <2>4 DEF Fair
<1>4. Spaces' BY DEF Inv, Spaces, OnBucket
<1> QED BY <1>1, <1>2, <1>3, <1>4 DEF Inv

\* A drop touches every call that began, and so does the connection that is back.
LEMMA ConnectionOK == ASSUME Inv, Drops \/ Reconnects PROVE Inv'
<1> USE DEF Drops, Reconnects, Local, watch, caches
<1>1. BusTypes' BY DEF Inv, BusTypes
<1>2. Refusals'
  <2>1. CASE Drops
    BY <2>1 DEF Inv, BusTypes, Refusals, Sent
  <2>2. CASE Reconnects
    <3>1. lastError'.kind \notin granted'
      BY <2>2, CallAssumption DEF Inv, BusTypes
    <3>2. ToSet(reports') = {}
      BY <2>2 DEF ToSet
    <3> QED BY <2>2, <3>1, <3>2 DEF Inv, BusTypes, Refusals, Sent
  <2> QED BY <2>1, <2>2
<1>3. ASSUME NEW d \in Calls \ cut' PROVE Fair(d)'
  BY <1>3 DEF Inv, BusTypes, Refusals, Sent, Fair, Served, OfItsOwn, Awaited, PingLooksBack, Told, Refused, Violation, LooksBack
<1>4. Spaces' BY DEF Inv, Spaces, OnBucket
<1> QED BY <1>1, <1>2, <1>3, <1>4 DEF Inv

\* The inductive invariant holds in every reachable state.
THEOREM Invariant == BusSpec => []Inv
<1>1. Inv /\ BusNext => Inv'
  BY CachedOK, BeginOK, PublishOK, HandlerOK, EndOK, ServerOK, RefusalOK, ConnectionOK DEF BusNext
<1>2. Inv /\ UNCHANGED busVars => Inv'
  BY DEF busVars, busWire, watch, caches, busHistory, Inv, BusTypes, Refusals, Sent, Fair, Served, OfItsOwn,
     Awaited, PingLooksBack, Told, Refused, Violation, LooksBack, Spaces, OnBucket
<1> QED BY Initially, <1>1, <1>2, PTL DEF BusSpec

\* What a call on a shared connection is told is what became of it (client.go:35-41, 562;
\* modules.go, Registry.Ping; kv.go).
THEOREM ToldHonestly == BusSpec => []CallsHonest
<1>1. Inv => CallsHonest
  <2> SUFFICES ASSUME Inv PROVE CallsHonest
    OBVIOUS
  <2>1. RefusedNotServed
    BY DEF Inv, Fair, Told, RefusedNotServed, Untouched
  <2>2. RefusalTold
    BY DEF Inv, Fair, Told, RefusalTold, Untouched
  <2>3. PingHonest
    BY DEF Inv, Fair, Told, PingHonest, Untouched
  <2>4. OneSpace
    BY DEF Inv, BusTypes, Spaces, OneSpace
  <2>5. RegistryHonest
    BY DEF Inv, Refusals, Fair, Told, RegistryHonest, Untouched, Violation
  <2> QED BY <2>1, <2>2, <2>3, <2>4, <2>5 DEF CallsHonest
<1> QED BY <1>1, Invariant, PTL
=============================================================================
