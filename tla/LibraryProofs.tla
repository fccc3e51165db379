--------------------------- MODULE LibraryProofs ----------------------------
(***************************************************************************)
(* Proofs about the smaller parts of the library and of its commands, for  *)
(* any bounds: batches, the doctor, settings, the links between documents, *)
(* the pages of a listing, the device login, filters, folders and the top   *)
(* of a document.                                                          *)
(***************************************************************************)
EXTENDS Batch, Doctor, Settings, Links, Paging, DeviceLogin, Contract, Folders, Frontmatter, SequenceTheorems,
        FiniteSetTheorems, WellFoundedInduction, TLAPS

-----------------------------------------------------------------------------
(* Batch.  What is answered and what succeeded follow the line that is read. *)

BatchSpec == BatchInit /\ [][BatchNext]_batchVars

Answered == {output[k].line : k \in DOMAIN output}
Replies == [line : Nat, ok : BOOLEAN]

BatchTypes ==
    /\ input \in Seq(Lines) /\ stopOnError \in BOOLEAN /\ at \in 0..Len(input)
    /\ doing \in {"scan", "ask", "write", "ok", "failed"}
    /\ reply \in Replies /\ output \in Seq(Replies) /\ failures \in Nat

\* The requests behind the one at hand.
Behind == {n \in Requests : n <= at /\ (doing \in {"ask", "write"} => n # at)}

\* A reply says what became of its line, in the order of the lines.
InOrder ==
    /\ \A k \in DOMAIN output : (output[k].ok <=> output[k].line \in succeeded) /\ output[k].line <= at
    /\ doing \in {"ask", "write"} => \A k \in DOMAIN output : output[k].line # at
    /\ \A k \in DOMAIN output : k > 1 => output[k - 1].line < output[k].line

\* The line at hand is a request, and its reply is its own.
AtHand ==
    /\ doing \in {"ask", "write"} => at \in Requests
    /\ doing = "ask" => at \notin succeeded
    /\ doing = "write" => reply.line = at /\ (reply.ok <=> at \in succeeded)

\* What is behind was answered; unless a failure was counted, all of it succeeded.
CountedSoFar ==
    /\ succeeded \subseteq {n \in Requests : n <= at}
    /\ doing \in {"scan", "ask", "write", "ok"} =>
        Answered = Behind /\ \A n \in 1..at : input[n] # "nonsense"
    /\ failures = 0 /\ doing # "failed" => \A n \in Requests : n <= at /\ (doing = "ask" => n # at) => n \in succeeded
    /\ doing = "ok" => at = Len(input) /\ failures = 0

BatchInv == BatchTypes /\ InOrder /\ AtHand /\ CountedSoFar

LEMMA BatchInitially == BatchInit => BatchInv
<1> SUFFICES ASSUME BatchInit PROVE BatchInv
  OBVIOUS
<1>1. input \in Seq(Lines)
  <2>1. PICK m \in 0..MaxLines : input \in [1..m -> Lines]
    BY DEF BatchInit, SeqOf
  <2> QED
    BY <2>1, BatchAssumption
<1>2. BatchTypes
  BY <1>1 DEF BatchInit, BatchTypes, Replies
<1>3. Requests \subseteq 1..Len(input) /\ Len(input) \in Nat
  BY <1>1 DEF Requests
<1>4. output = <<>> /\ at = 0 /\ succeeded = {} /\ doing = "scan" /\ DOMAIN output = {}
  BY DEF BatchInit
<1>5. Answered = {} /\ Behind = {}
  <2>1. Answered = {}
    BY <1>4 DEF Answered
  <2>2. \A n \in Requests : ~(n <= at)
    BY <1>3, <1>4
  <2> QED
    BY <2>1, <2>2 DEF Behind
<1>6. InOrder /\ AtHand
  BY <1>4 DEF InOrder, AtHand
<1> QED
  BY <1>2, <1>3, <1>4, <1>5, <1>6 DEF BatchInv, CountedSoFar

LEMMA BatchScans == ASSUME BatchInv, Scan \/ ScanFails PROVE BatchInv'
<1>1. /\ UNCHANGED <<input, stopOnError, docsPlane, moduleUp, turns, stopped, reply, output, failures, succeeded>>
      /\ doing = "scan"
  BY DEF Scan, ScanFails
<1>2. Requests' = Requests /\ Requests \subseteq 1..Len(input) /\ Len(input) \in Nat
  BY <1>1 DEF Requests, BatchInv, BatchTypes
<1>3. CASE at' = at /\ doing' \in {"ok", "failed"} /\ (doing' = "ok" => failures = 0 /\ at = Len(input))
  BY <1>1, <1>2, <1>3 DEF BatchInv, BatchTypes, InOrder, AtHand, CountedSoFar, Answered, Behind
<1>4. CASE /\ at' = at + 1 /\ at < Len(input)
           /\ doing' = CASE input[at + 1] = "blank" -> "scan"
                         [] input[at + 1] = "nonsense" \/ stopped -> "failed"
                         [] OTHER -> "ask"
  <2>1. at \in Nat /\ at + 1 \in DOMAIN input /\ at' \in 0..Len(input)
    BY <1>4 DEF BatchInv, BatchTypes
  <2>2. doing' \in {"scan", "failed", "ask"} /\ (doing' = "ask" => at' \in Requests)
        /\ (doing' = "scan" => at' \notin Requests) /\ (doing' # "failed" => input[at'] # "nonsense")
        /\ (input[at'] = "blank" => at' \notin Requests)
    BY <1>4, <2>1 DEF Requests
  <2>3. BatchTypes'
    BY <1>1, <2>1, <2>2 DEF BatchInv, BatchTypes
  <2>4. InOrder' /\ AtHand'
    <3>0. \A k \in DOMAIN output : output[k] \in Replies
      BY DEF BatchInv, BatchTypes
    <3>1. \A k \in DOMAIN output : output[k].line \in Nat /\ output[k].line <= at
      BY <3>0 DEF BatchInv, Replies, InOrder
    <3>2. at' \notin succeeded /\ \A k \in DOMAIN output : output[k].line # at' /\ output[k].line <= at'
      BY <1>4, <2>1, <3>1 DEF BatchInv, CountedSoFar
    <3>3. InOrder'
      BY <1>1, <3>2 DEF BatchInv, InOrder
    <3> QED
      BY <1>1, <1>2, <2>2, <3>2, <3>3 DEF AtHand
  <2>5. CountedSoFar'
    <3>1. succeeded' \subseteq {n \in Requests' : n <= at'}
      BY <1>1, <1>2, <1>4, <2>1 DEF BatchInv, CountedSoFar
    <3>2. doing' # "failed" => Answered' = Behind' /\ \A n \in 1..at' : input'[n] # "nonsense"
      <4>1. Answered' = Answered /\ Answered = Behind /\ \A n \in 1..at : input[n] # "nonsense"
        BY <1>1 DEF BatchInv, CountedSoFar, Answered
      <4>2. doing' # "failed" => Behind' = Behind
        BY <1>1, <1>2, <1>4, <2>1, <2>2 DEF Behind
      <4> QED
        BY <1>1, <1>4, <2>1, <2>2, <4>1, <4>2
    <3>3. ASSUME failures' = 0, doing' # "failed", NEW n \in Requests', n <= at', doing' = "ask" => n # at'
          PROVE  n \in succeeded'
      <4>1. n # at'
        BY <1>2, <2>2, <3>3
      <4>2. n <= at /\ n \in Requests /\ failures = 0
        BY <1>1, <1>2, <1>4, <2>1, <3>3, <4>1
      <4> QED
        BY <1>1, <4>2 DEF BatchInv, CountedSoFar
    <3> QED
      BY <2>2, <3>1, <3>2, <3>3 DEF CountedSoFar
  <2> QED
    BY <2>3, <2>4, <2>5 DEF BatchInv
<1> QED
  BY <1>3, <1>4 DEF Scan, ScanFails, Exits, BatchInv, BatchTypes

LEMMA BatchAsks == ASSUME BatchInv, AskPlane PROVE BatchInv'
<1>1. PICK ok \in BOOLEAN :
        /\ reply' = [line |-> at, ok |-> ok]
        /\ CountsFailure(ok)
        /\ succeeded' = IF ok THEN succeeded \cup {at} ELSE succeeded
  BY DEF AskPlane
<1>2. doing = "ask" /\ doing' = "write" /\ UNCHANGED <<input, stopOnError, at, moduleUp, turns, stopped, output>>
  BY DEF AskPlane
<1>3. /\ at \in Nat /\ at \in Requests /\ at \notin succeeded /\ Requests' = Requests /\ Requests \subseteq 1..Len(input)
      /\ Len(input) \in Nat /\ failures \in Nat
  BY <1>2 DEF BatchInv, BatchTypes, AtHand, Requests
<1>4. BatchTypes'
  BY <1>1, <1>2, <1>3 DEF BatchInv, BatchTypes, Replies, CountsFailure
<1>5. InOrder' /\ AtHand'
  <2>1. \A k \in DOMAIN output : output[k].line \in succeeded' <=> output[k].line \in succeeded
    BY <1>1, <1>2 DEF BatchInv, InOrder
  <2> QED
    BY <1>1, <1>2, <1>3, <2>1 DEF BatchInv, InOrder, AtHand
<1>6. CountedSoFar'
  <2>1. Answered' = Answered /\ Behind' = Behind
    BY <1>2, <1>3 DEF Answered, Behind
  <2>2. failures' = 0 => failures = 0 /\ ok
    BY <1>1, <1>3 DEF CountsFailure
  <2> QED
    BY <1>1, <1>2, <1>3, <2>1, <2>2 DEF BatchInv, CountedSoFar
<1> QED
  BY <1>4, <1>5, <1>6 DEF BatchInv

LEMMA BatchWrites == ASSUME BatchInv, Write PROVE BatchInv'
<1>1. doing = "write" /\ UNCHANGED <<input, stopOnError, at, moduleUp, turns, stopped, reply, failures, succeeded>>
  BY DEF Write
<1>2. /\ at \in Nat /\ at \in Requests /\ reply.line = at /\ (reply.ok <=> at \in succeeded)
      /\ Requests' = Requests /\ Requests \subseteq 1..Len(input) /\ Len(input) \in Nat
      /\ output \in Seq(Replies) /\ reply \in Replies
  BY <1>1 DEF BatchInv, BatchTypes, AtHand, Requests
<1>3. CASE doing' = "failed" /\ UNCHANGED output
  BY <1>1, <1>2, <1>3 DEF BatchInv, BatchTypes, InOrder, AtHand, CountedSoFar
<1>4. CASE output' = Append(output, reply) /\ doing' \in {"failed", "scan"}
  <2>1. /\ output' \in Seq(Replies) /\ Len(output') = Len(output) + 1 /\ Len(output) \in Nat
        /\ output'[Len(output) + 1] = reply /\ \A k \in 1..Len(output) : output'[k] = output[k]
        /\ DOMAIN output' = 1..Len(output) + 1 /\ DOMAIN output = 1..Len(output)
    BY <1>2, <1>4
  <2>2. BatchTypes'
    BY <1>1, <1>4, <2>1 DEF BatchInv, BatchTypes
  <2>3. InOrder'
    <3>0. \A k \in DOMAIN output : output[k].line \in Nat
      <4>1. \A k \in DOMAIN output : output[k] \in Replies
        BY <1>2
      <4> QED
        BY <4>1 DEF Replies
    <3>1. \A k \in DOMAIN output : /\ output[k].line \in Nat /\ output[k].line <= at /\ output[k].line # at
                                   /\ output[k].ok <=> output[k].line \in succeeded
                                   /\ k > 1 => output[k - 1].line < output[k].line
      BY <1>1, <3>0 DEF BatchInv, InOrder
    <3> QED
      BY <1>1, <1>2, <1>4, <2>1, <3>1 DEF InOrder
  <2>4. AtHand'
    BY <1>4 DEF AtHand
  <2>5. CountedSoFar'
    <3>1. Answered' = Answered \cup {at}
      <4>1. Answered' = {output'[k].line : k \in 1..Len(output)} \cup {output'[Len(output) + 1].line}
        BY <2>1 DEF Answered
      <4>2. {output'[k].line : k \in 1..Len(output)} = Answered
        BY <2>1 DEF Answered
      <4> QED
        BY <1>2, <2>1, <4>1, <4>2
    <3>2. Behind' = Behind \cup {at}
      BY <1>1, <1>2, <1>4 DEF Behind
    <3>3. Answered = Behind /\ \A n \in 1..at : input[n] # "nonsense"
      BY <1>1 DEF BatchInv, CountedSoFar
    <3> QED
      BY <1>1, <1>2, <1>4, <3>1, <3>2, <3>3 DEF BatchInv, CountedSoFar
  <2> QED
    BY <2>2, <2>3, <2>4, <2>5 DEF BatchInv
<1> QED
  BY <1>3, <1>4 DEF Write, Exits

\* Whatever the module does meanwhile, what was answered and what succeeded follow the lines.
THEOREM BatchInvariant == BatchSpec => []BatchInv
<1>1. ASSUME BatchInv, UNCHANGED <<input, stopOnError, at, doing, reply, output, failures, succeeded>>
      PROVE  BatchInv'
  BY <1>1 DEF BatchInv, BatchTypes, InOrder, AtHand, CountedSoFar, Answered, Behind, Requests
<1>2. ASSUME BatchInv, [BatchNext]_batchVars
      PROVE  BatchInv'
  BY <1>1, <1>2, BatchScans, BatchAsks, BatchWrites DEF BatchNext, batchVars, Interrupt, ModuleTurns
<1> QED
  BY <1>2, BatchInitially, PTL DEF BatchSpec

\* The status of a batch is zero only if each request was served and answered in order, and a reply
\* says what became of its own line (batch.go:77-79).
THEOREM BatchesHonest == BatchSpec => []BatchHonest
<1>1. ASSUME BatchInv
      PROVE  BatchHonest
  <2>1. \A n \in Requests : n \in 1..Len(input)
    BY <1>1 DEF BatchInv, BatchTypes, Requests
  <2>2. doing = "ok" => Behind = Requests /\ succeeded = Requests
    BY <1>1, <2>1 DEF BatchInv, CountedSoFar, Behind
  <2>3. DOMAIN input = 1..Len(input)
    BY <1>1 DEF BatchInv, BatchTypes
  <2> QED
    BY <1>1, <2>2, <2>3 DEF BatchInv, InOrder, CountedSoFar, Answered, BatchHonest
<1> QED
  BY <1>1, BatchInvariant, PTL


-----------------------------------------------------------------------------
(* Doctor.  How far it has come is how many checks it has ticked.          *)

DoctorSpec == DoctorInit /\ [][DoctorNext]_doctorVars

Marks == [check : {"config", "token", "bus", "reply", "authorize"}, ok : BOOLEAN]

\* The checks that are behind where it looks.
Ticked ==
    CASE looking = "config" -> 0 [] looking = "token" -> 1 [] looking = "bus" -> 2 [] looking = "reply" -> 3
      [] OTHER -> 5

Observed ==
    /\ holds \subseteq heldOnce /\ ChainLinks \ holds \subseteq brokenOnce
    /\ looking \in {"config", "token", "bus", "reply", "modules", "passed", "failed"}
    /\ marks \in Seq(Marks)

\* What the answer to the request says of the links, when it came.
AnswerMeans ==
    /\ answered \in {"nothing", "failed", "refused", "timeout", "error", "contract"}
    /\ answered = "failed" => "accepts" \in brokenOnce
    /\ answered = "refused" => "grant" \in brokenOnce
    /\ answered = "timeout" => "core" \in brokenOnce
    /\ answered \in {"error", "contract"} => {"accepts", "grant", "core"} \subseteq heldOnce
    /\ answered = "error" => {"allows", "healthy"} \cap brokenOnce # {}
    /\ answered = "contract" => {"allows", "healthy"} \subseteq heldOnce

TickedWell ==
    /\ \A n \in DOMAIN marks :
        /\ n <= 5 /\ marks[n].check = Chain[n]
        /\ marks[n].ok => LinksOf[Chain[n]] \subseteq heldOnce
        /\ ~marks[n].ok => n = Len(marks) /\ LinksOf[Chain[n]] \cap brokenOnce # {}
    /\ looking # "failed" => Len(marks) = Ticked /\ \A n \in DOMAIN marks : marks[n].ok

DoctorInv == Observed /\ AnswerMeans /\ TickedWell

LEMMA ChainIs ==
  /\ Chain[1] = "config" /\ Chain[2] = "token" /\ Chain[3] = "bus" /\ Chain[4] = "reply" /\ Chain[5] = "authorize"
  /\ Len(Chain) = 5
BY DEF Chain

LEMMA LinksAre ==
  /\ LinksOf["config"] = {"settings", "creds"} /\ LinksOf["token"] = {"login", "roles"}
  /\ LinksOf["bus"] = {"accepts"} /\ LinksOf["reply"] = {"accepts", "grant", "core"}
  /\ LinksOf["authorize"] = {"allows", "healthy"}
  /\ ChainLinks = {"settings", "creds", "login", "roles", "accepts", "grant", "core", "allows", "healthy"}
<1>1. /\ LinksOf["config"] = {"settings", "creds"} /\ LinksOf["token"] = {"login", "roles"}
      /\ LinksOf["bus"] = {"accepts"} /\ LinksOf["reply"] = {"accepts", "grant", "core"}
      /\ LinksOf["authorize"] = {"allows", "healthy"}
  BY DEF LinksOf
<1>2. DOMAIN Chain = 1..5
  BY DEF Chain
<1>3. ChainLinks = LinksOf[Chain[1]] \cup LinksOf[Chain[2]] \cup LinksOf[Chain[3]] \cup LinksOf[Chain[4]]
                   \cup LinksOf[Chain[5]]
  BY <1>2 DEF ChainLinks
<1> QED
  BY <1>1, <1>3, ChainIs

\* One more check is ticked: the next of the chain.
LEMMA DoctorTicks ==
  ASSUME DoctorInv, NEW n \in 1..5, Len(marks) = n - 1, looking # "failed", NEW ok \in BOOLEAN,
         marks' = Append(marks, [check |-> Chain[n], ok |-> ok]), Outside,
         ok => LinksOf[Chain[n]] \subseteq heldOnce, ~ok => LinksOf[Chain[n]] \cap brokenOnce # {}
  PROVE  /\ marks' \in Seq(Marks) /\ Len(marks') = n
         /\ \A k \in DOMAIN marks' :
                /\ k <= 5 /\ marks'[k].check = Chain[k]
                /\ marks'[k].ok => LinksOf[Chain[k]] \subseteq heldOnce'
                /\ ~marks'[k].ok => k = Len(marks') /\ LinksOf[Chain[k]] \cap brokenOnce' # {}
         /\ ok => \A k \in DOMAIN marks' : marks'[k].ok
<1> DEFINE mark == [check |-> Chain[n], ok |-> ok]
<1>1. mark \in Marks /\ mark.check = Chain[n] /\ mark.ok = ok
  BY ChainIs DEF Marks
<1>2. marks \in Seq(Marks)
  BY DEF DoctorInv, Observed
<1> HIDE DEF mark
<1>3. /\ marks' \in Seq(Marks) /\ Len(marks') = n /\ DOMAIN marks' = 1..n /\ DOMAIN marks = 1..(n - 1)
      /\ marks'[n] = mark /\ \A k \in 1..(n - 1) : marks'[k] = marks[k]
  <2>1. marks' = Append(marks, mark)
    BY DEF mark
  <2> QED
    BY <1>1, <1>2, <2>1
<1>4. heldOnce' = heldOnce /\ brokenOnce' = brokenOnce
  BY DEF Outside
<1>5. \A k \in 1..(n - 1) : /\ k <= 5 /\ marks[k].check = Chain[k] /\ marks[k].ok
                            /\ LinksOf[Chain[k]] \subseteq heldOnce
  BY <1>3 DEF DoctorInv, TickedWell
<1> QED
  BY <1>1, <1>3, <1>4, <1>5

LEMMA DoctorLooks ==
  ASSUME DoctorInv, ConfigCheck \/ TokenCheck \/ BusCheck
  PROVE  DoctorInv'
<1>1. PICK n \in 1..3 : Looks(Chain[n], CASE n = 1 -> "token" [] n = 2 -> "bus" [] OTHER -> "reply")
  <2>1. ConfigCheck => Looks(Chain[1], "token")
    BY ChainIs DEF ConfigCheck
  <2>2. TokenCheck => Looks(Chain[2], "bus")
    BY ChainIs DEF TokenCheck
  <2>3. BusCheck => Looks(Chain[3], "reply")
    BY ChainIs DEF BusCheck
  <2> QED
    BY <2>1, <2>2, <2>3
<1> DEFINE ok == LinksOf[Chain[n]] \subseteq holds
           next == CASE n = 1 -> "token" [] n = 2 -> "bus" [] OTHER -> "reply"
<1>2. /\ looking = Chain[n] /\ marks' = Append(marks, [check |-> Chain[n], ok |-> ok])
      /\ looking' = (IF ok THEN next ELSE "failed")
      /\ Outside /\ answered' = answered /\ n \in 1..5 /\ ok \in BOOLEAN
  BY <1>1 DEF Looks, Ticks
<1>3. Len(marks) = n - 1 /\ looking # "failed"
  BY <1>1, <1>2, ChainIs DEF DoctorInv, TickedWell, Ticked
<1>4. LinksOf[Chain[n]] \subseteq ChainLinks
  BY ChainIs, LinksAre
<1>5. (ok => LinksOf[Chain[n]] \subseteq heldOnce) /\ (~ok => LinksOf[Chain[n]] \cap brokenOnce # {})
  BY <1>4 DEF DoctorInv, Observed
<1> HIDE DEF ok
<1>6. /\ marks' \in Seq(Marks) /\ Len(marks') = n
      /\ \A k \in DOMAIN marks' :
             /\ k <= 5 /\ marks'[k].check = Chain[k]
             /\ marks'[k].ok => LinksOf[Chain[k]] \subseteq heldOnce'
             /\ ~marks'[k].ok => k = Len(marks') /\ LinksOf[Chain[k]] \cap brokenOnce' # {}
      /\ ok => \A k \in DOMAIN marks' : marks'[k].ok
  BY <1>2, <1>3, <1>5, DoctorTicks
<1>7. looking' \in {"token", "bus", "reply", "failed"} /\ (looking' # "failed" => ok /\ Ticked' = n)
  BY <1>1, <1>2 DEF Ticked
<1> QED
  BY <1>2, <1>6, <1>7 DEF DoctorInv, Observed, AnswerMeans, TickedWell, Outside

LEMMA DoctorDescribes == ASSUME DoctorInv, Describe PROVE DoctorInv'
<1>1. Outside /\ UNCHANGED <<looking, marks>>
  BY DEF Describe
<1>2. Observed' /\ TickedWell'
  BY <1>1 DEF DoctorInv, Observed, TickedWell, Ticked, Outside
<1>3. AnswerMeans'
  <2>1. \A l \in ChainLinks : (l \in holds => l \in heldOnce) /\ (l \notin holds => l \in brokenOnce)
    BY DEF DoctorInv, Observed
  <2> QED
    BY <1>1, <2>1, LinksAre DEF Describe, AnswerMeans, Outside
<1> QED
  BY <1>2, <1>3 DEF DoctorInv

LEMMA DoctorReplies == ASSUME DoctorInv, ReplyCheck PROVE DoctorInv'
<1>1. looking = "reply" /\ answered # "nothing" /\ answered' = answered /\ Outside /\ Len(marks) = 3 /\ marks \in Seq(Marks)
  BY DEF ReplyCheck, DoctorInv, TickedWell, Ticked, Observed
<1>2. AnswerMeans /\ AnswerMeans'
  BY <1>1 DEF DoctorInv, AnswerMeans, Outside
<1>3. \A k \in 1..3 : marks[k].check = Chain[k] /\ marks[k].ok /\ LinksOf[Chain[k]] \subseteq heldOnce /\ marks[k] \in Marks
  BY <1>1 DEF DoctorInv, TickedWell
<1>4. CASE answered \in CoreReplied
  <2> DEFINE ok == answered = "contract"
             fourth == [check |-> "reply", ok |-> TRUE]
             fifth == [check |-> "authorize", ok |-> ok]
  <2>1. marks' = marks \o <<fourth, fifth>> /\ looking' = (IF ok THEN "modules" ELSE "failed")
    BY <1>4 DEF ReplyCheck
  <2>2. fourth \in Marks /\ fifth \in Marks /\ fourth.check = "reply" /\ fourth.ok /\ fifth.check = "authorize" /\ (fifth.ok <=> ok)
    BY DEF Marks
  <2> HIDE DEF fourth, fifth
  <2>3. /\ marks' \in Seq(Marks) /\ Len(marks') = 5 /\ DOMAIN marks' = 1..5 /\ marks'[4] = fourth /\ marks'[5] = fifth
        /\ \A k \in 1..3 : marks'[k] = marks[k]
    <3> DEFINE two == <<fourth, fifth>>
    <3>1. two \in Seq(Marks) /\ Len(two) = 2 /\ two[1] = fourth /\ two[2] = fifth
      BY <2>2
    <3> HIDE DEF two
    <3>2. marks' = marks \o two
      BY <2>1 DEF two
    <3>3. /\ marks \o two \in Seq(Marks) /\ Len(marks \o two) = Len(marks) + Len(two)
          /\ \A k \in 1..(Len(marks) + Len(two)) :
                 (marks \o two)[k] = IF k <= Len(marks) THEN marks[k] ELSE two[k - Len(marks)]
      <4>1. marks \in Seq(Marks) /\ two \in Seq(Marks)
        BY <1>1, <3>1
      <4> QED
        BY <4>1, ConcatProperties
    <3>4. /\ marks' \in Seq(Marks) /\ Len(marks') = 5
          /\ \A k \in 1..5 : marks'[k] = IF k <= 3 THEN marks[k] ELSE two[k - 3]
      BY <1>1, <3>1, <3>2, <3>3
    <3> QED
      BY <3>1, <3>4
  <2>4. /\ LinksOf[Chain[4]] \subseteq heldOnce /\ (ok => LinksOf[Chain[5]] \subseteq heldOnce)
        /\ ~ok => LinksOf[Chain[5]] \cap brokenOnce # {}
    BY <1>2, <1>4, ChainIs, LinksAre DEF AnswerMeans, CoreReplied
  <2>5. \A k \in 1..5 : /\ marks'[k].check = Chain[k]
                        /\ marks'[k].ok => LinksOf[Chain[k]] \subseteq heldOnce
                        /\ ~marks'[k].ok => k = 5 /\ LinksOf[Chain[k]] \cap brokenOnce # {}
                        /\ ok => marks'[k].ok
    BY <1>3, <2>2, <2>3, <2>4, ChainIs
  <2> QED
    BY <1>1, <1>2, <2>1, <2>3, <2>5 DEF DoctorInv, Observed, TickedWell, Ticked, Outside
<1>5. CASE answered \notin CoreReplied
  <2>1. marks' = Append(marks, [check |-> Chain[4], ok |-> FALSE]) /\ looking' = "failed"
    BY <1>5, ChainIs DEF ReplyCheck, Ticks
  <2>2. LinksOf[Chain[4]] \cap brokenOnce # {}
    BY <1>1, <1>2, <1>5, ChainIs, LinksAre DEF AnswerMeans, CoreReplied
  <2>3. FALSE \in BOOLEAN /\ 4 \in 1..5 /\ Len(marks) = 4 - 1 /\ looking # "failed"
    BY <1>1
  <2>4. /\ marks' \in Seq(Marks) /\ Len(marks') = 4
        /\ \A k \in DOMAIN marks' :
             /\ k <= 5 /\ marks'[k].check = Chain[k]
             /\ marks'[k].ok => LinksOf[Chain[k]] \subseteq heldOnce'
             /\ ~marks'[k].ok => k = Len(marks') /\ LinksOf[Chain[k]] \cap brokenOnce' # {}
    BY <1>1, <2>1, <2>2, <2>3, DoctorTicks
  <2> QED
    BY <1>1, <1>2, <2>1, <2>4 DEF DoctorInv, Observed, TickedWell, Outside
<1> QED
  BY <1>4, <1>5

LEMMA LinksTurn == ASSUME DoctorInv, NEW l \in ChainLinks, LinkTurns(l) PROVE DoctorInv'
<1>1. /\ heldOnce' = heldOnce \cup holds' /\ brokenOnce' = brokenOnce \cup (ChainLinks \ holds')
      /\ UNCHANGED <<looking, answered, marks, module, line>>
  BY DEF LinkTurns
<1>2. Observed'
  BY <1>1 DEF DoctorInv, Observed
<1>3. AnswerMeans'
  BY <1>1 DEF DoctorInv, AnswerMeans
<1>4. TickedWell'
  BY <1>1 DEF DoctorInv, TickedWell, Ticked
<1> QED
  BY <1>2, <1>3, <1>4 DEF DoctorInv

\* However the links break and are mended, each tick is of a link that held, and a cross of one that
\* was broken, while the doctor ran.
THEOREM DoctorInvariant == DoctorSpec => []DoctorInv
<1>1. DoctorInit => DoctorInv
  BY DEF DoctorInit, DoctorInv, Observed, AnswerMeans, TickedWell, Ticked
<1>2. ASSUME DoctorInv, PrintModules \/ UNCHANGED doctorVars
      PROVE  DoctorInv'
  BY <1>2 DEF PrintModules, doctorVars, DoctorInv, Observed, AnswerMeans, TickedWell, Ticked, Outside
<1>3. ASSUME DoctorInv, [DoctorNext]_doctorVars
      PROVE  DoctorInv'
  BY <1>2, <1>3, DoctorLooks, DoctorDescribes, DoctorReplies, LinksTurn DEF DoctorNext
<1> QED
  BY <1>1, <1>3, PTL DEF DoctorSpec

\* `jiku doctor` prints its checks in causal order, ticks one only if its links held, stops at one
\* that had a broken link, and its status is zero only if all five were ticked (doctor.go:44).
THEOREM DoctorsHonest == DoctorSpec => []DoctorHonest
<1>1. ASSUME DoctorInv
      PROVE  DoctorHonest
  <2>1. looking = "passed" => Len(marks) = 5 /\ \A n \in DOMAIN marks : marks[n].ok
    BY <1>1 DEF DoctorInv, TickedWell, Ticked
  <2> QED
    BY <1>1, <2>1, ChainIs DEF DoctorInv, TickedWell, DoctorHonest
<1> QED
  BY <1>1, DoctorInvariant, PTL

-----------------------------------------------------------------------------
(* Settings.  What is in force is what the last layer read so far says.     *)

SettingsSpec == SettingsInit /\ [][SettingsNext]_settingVars

TheLayers == {"file", "env", "flags"}
Said == {"absent", "clears", "bad", "good"}

SettingTypes ==
    /\ purpose \in {"sync", "connect"} /\ identity \in {"nobody", "person", "service"}
    /\ says \in [TheLayers -> [Fields -> Said]]
    /\ layerAt \in TheLayers \cup {"identify", "ready", "refused"}

LayersAhead ==
    CASE layerAt = "file" -> TheLayers [] layerAt = "env" -> {"env", "flags"}
      [] layerAt = "flags" -> {"flags"} [] OTHER -> {}

ReadSoFar ==
    /\ \A l \in LayersAhead, f \in Fields : says[l][f] = "absent"
    /\ layerAt # "refused" =>
        /\ \A f \in Fields : inForce[f] = Topmost(says, f)
        /\ purpose = "sync" => \A l \in TheLayers, f \in Fields : says[l][f] # "bad"
    /\ layerAt = "refused" =>
        \/ \E l \in TheLayers, f \in Fields : says[l][f] = "bad"
        \/ purpose = "connect" /\ \E f \in {"creds", "keyFile"} \cap Fields : Topmost(says, f) = "default"

Identified ==
    /\ identity # "nobody" => layerAt \in {"ready", "refused"}
    /\ layerAt = "identify" => purpose = "connect"
    /\ identity = "person" /\ "keyFile" \in Fields => Topmost(says, "keyFile") = "default"

SettingsInv == SettingTypes /\ ReadSoFar /\ Identified

LEMMA TheLayersAre == ToSet(Layers) = TheLayers /\ DOMAIN Layers = 1..3
BY DEF ToSet, Layers, TheLayers

\* The flags' word counts before the environment's, and that before the file's.
LEMMA TopmostIs ==
  ASSUME NEW told, NEW f
  PROVE  LET any(l) == told[l][f] \in {"good", "clears"}
             of(l) == IF told[l][f] = "clears" THEN "none" ELSE l
         IN Topmost(told, f) =
              IF any("flags") THEN of("flags") ELSE IF any("env") THEN of("env")
              ELSE IF any("file") THEN of("file") ELSE "default"
<1> DEFINE who == {n \in DOMAIN Layers : told[Layers[n]][f] \in {"good", "clears"}}
           top == CHOOSE n \in who : \A m \in who : m <= n
<1>1. who = {n \in 1..3 : told[Layers[n]][f] \in {"good", "clears"}}
  BY TheLayersAre
<1>2. Topmost(told, f) = IF who = {} THEN "default" ELSE IF told[Layers[top]][f] = "clears" THEN "none" ELSE Layers[top]
  BY DEF Topmost
<1>3. Layers[1] = "file" /\ Layers[2] = "env" /\ Layers[3] = "flags"
  BY DEF Layers
<1> HIDE DEF who
<1>4. 3 \in who => top = 3
  BY <1>1
<1>5. 3 \notin who /\ 2 \in who => top = 2
  BY <1>1
<1>6. 3 \notin who /\ 2 \notin who /\ 1 \in who => top = 1
  BY <1>1
<1>7. who # {} => 1 \in who \/ 2 \in who \/ 3 \in who
  BY <1>1
<1>8. (3 \in who <=> told["flags"][f] \in {"good", "clears"}) /\ (2 \in who <=> told["env"][f] \in {"good", "clears"})
      /\ (1 \in who <=> told["file"][f] \in {"good", "clears"})
  BY <1>1, <1>3
<1> HIDE DEF top
<1> QED
  BY <1>2, <1>3, <1>4, <1>5, <1>6, <1>7, <1>8

LEMMA LayerRead ==
  ASSUME SettingsInv, NEW layer \in TheLayers, ReadLayer(layer)
  PROVE  SettingsInv'
<1>1. PICK said \in WholeLayer(layer) :
        /\ says' = [says EXCEPT ![layer] = said]
        /\ IF Wrong(layer, said) THEN layerAt' = "refused" /\ UNCHANGED inForce
           ELSE layerAt' = After(layer) /\ inForce' = [f \in Fields |-> Override(f, layer, said)]
  BY DEF ReadLayer
<1>2. layerAt = layer /\ purpose' = purpose /\ identity' = identity /\ identity = "nobody" /\ Fields' = Fields
  BY DEF ReadLayer, SettingsInv, Identified, TheLayers, Fields
<1>3. said \in [Fields -> Said] /\ \A f \in Fields : said[f] \in Sayings(layer, f)
  BY DEF WholeLayer, Said
<1>4. says' \in [TheLayers -> [Fields -> Said]] /\ says'[layer] = said /\ \A l \in TheLayers : l # layer => says'[l] = says[l]
  BY <1>1, <1>3 DEF SettingsInv, SettingTypes
<1>5. layerAt' \in TheLayers \cup {"identify", "ready", "refused"}
  BY <1>1 DEF After, TheLayers
<1>6. SettingTypes'
  BY <1>2, <1>4, <1>5 DEF SettingsInv, SettingTypes
<1>7. Identified'
  BY <1>1, <1>2 DEF Identified, After, SettingsInv, SettingTypes
<1>8. LayersAhead' \subseteq LayersAhead \ {layer} /\ LayersAhead \subseteq TheLayers
  BY <1>1, <1>2 DEF LayersAhead, After, TheLayers
<1>9. \A l \in LayersAhead', f \in Fields : says'[l][f] = "absent"
  BY <1>4, <1>8 DEF SettingsInv, ReadSoFar
<1>10. CASE Wrong(layer, said)
  <2>1. \E f \in Fields : says'[layer][f] = "bad"
    BY <1>4, <1>10 DEF Wrong
  <2> QED
    BY <1>1, <1>2, <1>6, <1>7, <1>9, <1>10, <2>1 DEF SettingsInv, ReadSoFar
<1>11. CASE ~Wrong(layer, said)
  <2>1. layerAt' = After(layer) /\ layerAt' # "refused" /\ inForce' = [f \in Fields |-> Override(f, layer, said)]
    BY <1>1, <1>11 DEF After
  <2>2. ASSUME NEW f \in Fields
        PROVE  inForce'[f] = Topmost(says', f)
    <3>1. \A l \in LayersAhead : says[l][f] = "absent"
      BY DEF SettingsInv, ReadSoFar
    <3>2. inForce[f] = Topmost(says, f)
      BY <1>2 DEF SettingsInv, ReadSoFar, TheLayers
    <3>3. inForce'[f] = IF said[f] = "good" THEN layer ELSE IF said[f] = "clears" THEN "none" ELSE Topmost(says, f)
      BY <2>1, <3>2 DEF Override
    <3>4. CASE layer = "file"
      BY <1>2, <1>4, <3>1, <3>3, <3>4, TopmostIs DEF LayersAhead, TheLayers
    <3>5. CASE layer = "env"
      BY <1>2, <1>4, <3>1, <3>3, <3>5, TopmostIs DEF LayersAhead, TheLayers
    <3>6. CASE layer = "flags"
      BY <1>2, <1>4, <3>1, <3>3, <3>6, TopmostIs DEF LayersAhead, TheLayers
    <3> QED
      BY <3>4, <3>5, <3>6 DEF TheLayers
  <2>3. purpose = "sync" => \A l \in TheLayers, f \in Fields : says'[l][f] # "bad"
    BY <1>2, <1>4, <1>11 DEF Wrong, SettingsInv, ReadSoFar, TheLayers
  <2> QED
    BY <1>2, <1>6, <1>7, <1>9, <2>1, <2>2, <2>3 DEF SettingsInv, ReadSoFar
<1> QED
  BY <1>10, <1>11

LEMMA LayersIdentify == ASSUME SettingsInv, Identify PROVE SettingsInv'
<1>1. /\ layerAt = "identify" /\ identity' = TokenSource /\ purpose' = purpose /\ says' = says /\ inForce' = inForce
      /\ layerAt' = IF identity' = "nobody" \/ ("creds" \in Fields /\ ~Given("creds")) THEN "refused" ELSE "ready"
  BY DEF Identify
<1>2. Fields' = Fields /\ \A f \in Fields : inForce[f] = Topmost(says, f)
  BY <1>1 DEF Fields, SettingsInv, ReadSoFar
<1>3. SettingTypes'
  BY <1>1, <1>2 DEF SettingsInv, SettingTypes, TokenSource
<1>4. Identified'
  BY <1>1, <1>2 DEF Identified, TokenSource, Given
<1>5. identity' = "nobody" => "keyFile" \in Fields /\ Topmost(says, "keyFile") = "default"
  BY <1>1, <1>2, SettingsAssumption DEF SettingsInv, Identified, Fields, TokenSource, Given
<1>6. layerAt' = "refused" => \E f \in {"creds", "keyFile"} \cap Fields : Topmost(says, f) = "default"
  <2>1. CASE identity' = "nobody"
    BY <1>5, <2>1
  <2>2. CASE "creds" \in Fields /\ ~Given("creds")
    BY <1>2, <2>2 DEF Given
  <2> QED
    BY <1>1, <2>1, <2>2
<1>7. layerAt' \in {"ready", "refused"} /\ purpose = "connect" /\ LayersAhead' = {}
  BY <1>1 DEF SettingsInv, Identified, LayersAhead, TheLayers
<1>8. ReadSoFar'
  BY <1>1, <1>2, <1>6, <1>7 DEF SettingsInv, ReadSoFar
<1> QED
  BY <1>3, <1>4, <1>8 DEF SettingsInv

\* However many layers say how much, what is in force is what the last of those read says.
THEOREM SettingsInvariant == SettingsSpec => []SettingsInv
<1>1. SettingsInit => SettingsInv
  <2> SUFFICES ASSUME SettingsInit PROVE SettingsInv
    OBVIOUS
  <2>1. says = [l \in TheLayers |-> [f \in Fields |-> "absent"]] /\ layerAt = "file" /\ identity = "nobody"
        /\ inForce = [f \in Fields |-> "default"] /\ purpose \in {"sync", "connect"}
    BY TheLayersAre DEF SettingsInit
  <2>2. SettingTypes
    BY <2>1 DEF SettingTypes, Said, TheLayers
  <2>3. \A l \in TheLayers, f \in Fields : says[l][f] = "absent"
    BY <2>1
  <2>4. \A f \in Fields : Topmost(says, f) = "default"
    BY <2>3, TopmostIs DEF TheLayers
  <2>5. ReadSoFar /\ Identified
    BY <2>1, <2>3, <2>4 DEF ReadSoFar, Identified, LayersAhead
  <2> QED
    BY <2>2, <2>5 DEF SettingsInv
<1>2. ASSUME SettingsInv, [SettingsNext]_settingVars
      PROVE  SettingsInv'
  <2>1. CASE UNCHANGED settingVars
    <3>1. purpose' = purpose /\ says' = says /\ layerAt' = layerAt /\ inForce' = inForce /\ identity' = identity
      BY <2>1 DEF settingVars
    <3>2. Fields' = Fields /\ LayersAhead' = LayersAhead
      BY <3>1 DEF Fields, LayersAhead
    <3>3. SettingTypes'
      BY <1>2, <3>1, <3>2 DEF SettingsInv, SettingTypes
    <3>4. ReadSoFar'
      BY <1>2, <3>1, <3>2 DEF SettingsInv, ReadSoFar
    <3>5. Identified'
      BY <1>2, <3>1, <3>2 DEF SettingsInv, Identified
    <3> QED
      BY <3>3, <3>4, <3>5 DEF SettingsInv
  <2> QED
    BY <1>2, <2>1, LayerRead, LayersIdentify, TheLayersAre DEF SettingsNext
<1> QED
  BY <1>1, <1>2, PTL DEF SettingsSpec

\* File < environment < flags for every field (docs_sync.go:119, config.go:89), a wrong value ends
\* the daemon (settings.go:44-45), and a command that was given a key file is not a person's.
THEOREM SettingsLayered == SettingsSpec => []LayersHold
<1>1. ASSUME SettingsInv
      PROVE  LayersHold
  <2>1. ToSet(Layers) = TheLayers
    BY TheLayersAre
  <2>2. layerAt = "ready" => \A f \in Fields : inForce[f] = Topmost(says, f)
    BY <1>1 DEF SettingsInv, ReadSoFar
  <2>3. ASSUME layerAt = "ready", ListFields \subseteq Fields, NEW inc, NEW exc
        PROVE  InScope(inc, exc) <=> /\ Topmost(says, "exclude") \notin exc
                                     /\ Topmost(says, "include") \in {"default", "none"} \cup inc
    BY <2>2, <2>3 DEF InScope, ListFields
  <2>4. identity = "person" /\ "keyFile" \in Fields => \A l \in TheLayers : says[l]["keyFile"] # "good"
    BY <1>1, TopmostIs DEF SettingsInv, Identified, TheLayers
  <2>5. ReadSoFar
    BY <1>1 DEF SettingsInv
  <2> QED
    BY <2>1, <2>2, <2>3, <2>4, <2>5 DEF ReadSoFar, LayersHold
<1> QED
  BY <1>1, SettingsInvariant, PTL

-----------------------------------------------------------------------------
(* Links.  What was granted is not taken back, but by a revocation; a reply *)
(* is of the request that its caller waits for.                             *)

LinksSpec == LinksInit /\ [][LinksNext]_linkVars

Ids1 == 1..MaxIds
LinkKinds == {"request-upload", "confirm", "share", "revoke"}
LinkRequests == [c : Callers, kind : LinkKinds, id : 1..linkIds, version : Nat]

LinkTypes ==
    /\ linkIds \in 0..MaxIds /\ latest \in Nat
    /\ linkStep \in [Callers -> {"free", "uploads", "waits"}]
    /\ made \in [Callers -> [id : 0..linkIds, what : {"none", "attach", "share", "revoke"}, version : Nat]]
    /\ waitsFor \in [Callers -> LinkRequests \cup {NoLinkRequest}]
    /\ mailbox \in [Callers -> {"none", "done", "refused"}]
    /\ onTheWire \subseteq LinkRequests
    /\ attachments \in [Ids1 -> {"none", "pending", "ready"}]
    /\ shares \in [Ids1 -> {"none", "live", "revoked"}] /\ shows \in [Ids1 -> Nat]

\* A caller that waits does so for a request of its own, about the id of its command.
Waiting ==
    \A c \in Callers :
        /\ linkStep[c] = "waits" =>
            waitsFor[c] \in LinkRequests /\ waitsFor[c].c = c /\ waitsFor[c].id = made[c].id
        /\ linkStep[c] = "uploads" => made[c].id # 0

LiveLinks == \A i \in Ids1 : shares[i] = "live" => i <= linkIds /\ shows[i] <= latest

\* What the module has done when it replies to a request that it has.
Granted(m) ==
    /\ m.kind = "confirm" => attachments[m.id] = "ready" /\ m.id \in uploaded
    /\ m.kind = "share" => shares[m.id] # "none"
    /\ m.kind = "revoke" => shares[m.id] = "revoked"

Replied == \A c \in Callers : linkStep[c] = "waits" /\ mailbox[c] = "done" => Granted(waitsFor[c])

UploadsKept ==
    /\ \A i \in printed : i \in 1..linkIds /\ ((attachments[i] = "ready" /\ i \in uploaded) \/ shares[i] # "none")
    /\ \A i \in revokedFor : i \in 1..linkIds /\ shares[i] = "revoked"

LinksInv == LinkTypes /\ Waiting /\ LiveLinks /\ Replied /\ UploadsKept

\* What is never taken back.
Lasting ==
    /\ linkIds <= linkIds' /\ linkIds' \in 0..MaxIds /\ latest <= latest' /\ latest' \in Nat /\ uploaded \subseteq uploaded'
    /\ \A i \in Ids1 :
        /\ attachments[i] = "ready" => attachments'[i] = "ready"
        /\ shares[i] # "none" => shares'[i] # "none"
        /\ shares[i] = "revoked" => shares'[i] = "revoked"

\* A step of one caller: those of the others are left alone, and the module's state with it.
CallerStep(c) ==
    /\ linkStep' \in [Callers -> {"free", "uploads", "waits"}]
    /\ made' \in [Callers -> [id : 0..linkIds', what : {"none", "attach", "share", "revoke"}, version : Nat]]
    /\ waitsFor' \in [Callers -> LinkRequests' \cup {NoLinkRequest}]
    /\ mailbox' \in [Callers -> {"none", "done", "refused"}]
    /\ \A d \in Callers \ {c} :
        linkStep'[d] = linkStep[d] /\ made'[d] = made[d] /\ waitsFor'[d] = waitsFor[d] /\ mailbox'[d] = mailbox[d]
    /\ mailbox'[c] = "none" /\ onTheWire' \subseteq LinkRequests'
    /\ linkStep'[c] = "waits" =>
        waitsFor'[c] \in LinkRequests' /\ waitsFor'[c].c = c /\ waitsFor'[c].id = made'[c].id
    /\ linkStep'[c] = "uploads" => made'[c].id # 0
    /\ UNCHANGED <<attachments, shares, shows, latest>> /\ linkIds' \in 0..MaxIds /\ linkIds <= linkIds'
    /\ uploaded \subseteq uploaded'

LEMMA MoreIds ==
  ASSUME LinkTypes, linkIds' \in 0..MaxIds, linkIds <= linkIds'
  PROVE  /\ LinkRequests \subseteq LinkRequests'
         /\ \A i \in 0..linkIds : i \in 0..linkIds'
         /\ \A i \in 1..linkIds : i \in 1..linkIds'
<1>1. \A i \in 0..linkIds : i \in 0..linkIds'
  BY LinkAssumption DEF LinkTypes
<1>2. \A i \in 1..linkIds : i \in 1..linkIds'
  BY LinkAssumption DEF LinkTypes
<1>3. LinkRequests \subseteq LinkRequests'
  BY <1>2 DEF LinkRequests
<1> QED
  BY <1>1, <1>2, <1>3

LEMMA CallerStepKeeps ==
  ASSUME LinksInv, NEW c \in Callers, CallerStep(c)
  PROVE  LinkTypes' /\ Waiting' /\ LiveLinks' /\ Replied' /\ Lasting
<1>1. LinkTypes /\ Waiting /\ LiveLinks /\ Replied
  BY DEF LinksInv
<1>2. /\ UNCHANGED <<attachments, shares, shows, latest>> /\ linkIds' \in 0..MaxIds /\ linkIds <= linkIds'
      /\ uploaded \subseteq uploaded' /\ latest \in Nat /\ linkIds \in 0..MaxIds
  BY <1>1 DEF CallerStep, LinkTypes
<1>3. LinkRequests \subseteq LinkRequests'
  BY <1>1, <1>2, MoreIds
<1>4. LinkTypes'
  BY <1>1, <1>2 DEF CallerStep, LinkTypes
<1>5. \A d \in Callers \ {c} :
        linkStep'[d] = linkStep[d] /\ made'[d] = made[d] /\ waitsFor'[d] = waitsFor[d] /\ mailbox'[d] = mailbox[d]
  BY DEF CallerStep
<1>6. Waiting'
  <2>1. /\ linkStep'[c] = "waits" =>
             waitsFor'[c] \in LinkRequests' /\ waitsFor'[c].c = c /\ waitsFor'[c].id = made'[c].id
        /\ linkStep'[c] = "uploads" => made'[c].id # 0
    BY DEF CallerStep
  <2> QED
    BY <1>1, <1>3, <1>5, <2>1 DEF Waiting
<1>7. LiveLinks'
  BY <1>1, <1>2, LinkAssumption DEF LiveLinks, Ids1
<1>8. Replied'
  <2>1. ASSUME NEW d \in Callers, linkStep'[d] = "waits", mailbox'[d] = "done"
        PROVE  Granted(waitsFor[d]) /\ waitsFor'[d] = waitsFor[d]
    BY <1>1, <1>5, <2>1 DEF CallerStep, Replied
  <2> QED
    BY <1>2, <2>1 DEF Replied, Granted
<1>9. Lasting
  BY <1>2 DEF Lasting
<1> QED
  BY <1>4, <1>6, <1>7, <1>8, <1>9

LEMMA KeptOn ==
  ASSUME LinksInv, Lasting,
         \A i \in printed' \ printed :
             i \in 1..linkIds /\ ((attachments[i] = "ready" /\ i \in uploaded) \/ shares[i] # "none"),
         \A i \in revokedFor' \ revokedFor : i \in 1..linkIds /\ shares[i] = "revoked"
  PROVE  UploadsKept'
<1>1. linkIds \in 0..MaxIds /\ linkIds' \in 0..MaxIds /\ linkIds <= linkIds'
  BY DEF LinksInv, LinkTypes, Lasting
<1>2. \A i \in 1..linkIds : i \in 1..linkIds' /\ i \in Ids1
  BY <1>1, LinkAssumption DEF Ids1
<1>3. ASSUME NEW i \in printed'
      PROVE  i \in 1..linkIds' /\ ((attachments'[i] = "ready" /\ i \in uploaded') \/ shares'[i] # "none")
  <2>1. i \in 1..linkIds /\ ((attachments[i] = "ready" /\ i \in uploaded) \/ shares[i] # "none")
    BY <1>3 DEF LinksInv, UploadsKept
  <2> QED
    BY <1>2, <2>1 DEF Lasting
<1>4. ASSUME NEW i \in revokedFor'
      PROVE  i \in 1..linkIds' /\ shares'[i] = "revoked"
  <2>1. i \in 1..linkIds /\ shares[i] = "revoked"
    BY <1>4 DEF LinksInv, UploadsKept
  <2> QED
    BY <1>2, <2>1 DEF Lasting
<1> QED
  BY <1>3, <1>4 DEF UploadsKept

LEMMA Sends ==
  ASSUME LinksInv, NEW c \in Callers, NEW kind \in LinkKinds, SendsLink(c, kind),
         linkIds' \in 0..MaxIds, linkIds <= linkIds', UNCHANGED <<attachments, shares, shows, latest>>,
         uploaded \subseteq uploaded',
         NEW new \in [id : 1..linkIds', what : {"none", "attach", "share", "revoke"}, version : Nat],
         made' = [made EXCEPT ![c] = new]
  PROVE  CallerStep(c)
<1> DEFINE m == [c |-> c, kind |-> kind, id |-> new.id, version |-> new.version]
<1>1. LinkTypes /\ LinkRequests \subseteq LinkRequests' /\ \A i \in 0..linkIds : i \in 0..linkIds'
  BY MoreIds DEF LinksInv
<1>2. /\ linkStep \in [Callers -> {"free", "uploads", "waits"}]
      /\ made \in [Callers -> [id : 0..linkIds, what : {"none", "attach", "share", "revoke"}, version : Nat]]
      /\ waitsFor \in [Callers -> LinkRequests \cup {NoLinkRequest}]
      /\ mailbox \in [Callers -> {"none", "done", "refused"}] /\ onTheWire \subseteq LinkRequests
  BY <1>1 DEF LinkTypes
<1>3. made'[c] = new
  BY <1>2
<1>4. m \in LinkRequests' /\ m.c = c /\ m.id = new.id
  BY DEF LinkRequests
<1>5. /\ waitsFor' = [waitsFor EXCEPT ![c] = m] /\ onTheWire' = onTheWire \cup {m}
      /\ mailbox' = [mailbox EXCEPT ![c] = "none"] /\ linkStep' = [linkStep EXCEPT ![c] = "waits"]
  BY <1>3 DEF SendsLink
<1> HIDE DEF m
<1>6. waitsFor' \in [Callers -> LinkRequests' \cup {NoLinkRequest}] /\ onTheWire' \subseteq LinkRequests'
  BY <1>1, <1>2, <1>4, <1>5
<1>7. made' \in [Callers -> [id : 0..linkIds', what : {"none", "attach", "share", "revoke"}, version : Nat]]
  <2> DEFINE New == [id : 0..linkIds', what : {"none", "attach", "share", "revoke"}, version : Nat]
  <2>1. new \in New
    OBVIOUS
  <2>2. made \in [Callers -> New]
    BY <1>1, <1>2
  <2> HIDE DEF New
  <2>3. made' \in [Callers -> New]
    BY <2>1, <2>2
  <2> QED
    BY <2>3 DEF New
<1>8. new.id # 0
  OBVIOUS
<1>9. /\ linkStep' \in [Callers -> {"free", "uploads", "waits"}] /\ mailbox' \in [Callers -> {"none", "done", "refused"}]
      /\ linkStep'[c] = "waits" /\ mailbox'[c] = "none" /\ waitsFor'[c] = m
      /\ \A d \in Callers \ {c} :
            linkStep'[d] = linkStep[d] /\ made'[d] = made[d] /\ waitsFor'[d] = waitsFor[d] /\ mailbox'[d] = mailbox[d]
  BY <1>2, <1>5
<1> QED
  BY <1>3, <1>4, <1>5, <1>6, <1>7, <1>8, <1>9 DEF CallerStep

\* A caller that is done, or that goes on to upload.
LEMMA Settles ==
  ASSUME LinksInv, NEW c \in Callers, NEW step \in {"free", "uploads"}, step = "uploads" => made[c].id # 0,
         linkStep' = [linkStep EXCEPT ![c] = step], waitsFor' = [waitsFor EXCEPT ![c] = NoLinkRequest],
         mailbox' = [mailbox EXCEPT ![c] = "none"],
         UNCHANGED <<made, onTheWire, linkIds, attachments, shares, shows, latest>>, uploaded \subseteq uploaded'
  PROVE  CallerStep(c)
<1>1. LinkTypes /\ LinkRequests' = LinkRequests
  BY DEF LinksInv, LinkRequests
<1>2. /\ linkStep \in [Callers -> {"free", "uploads", "waits"}]
      /\ made \in [Callers -> [id : 0..linkIds, what : {"none", "attach", "share", "revoke"}, version : Nat]]
      /\ waitsFor \in [Callers -> LinkRequests \cup {NoLinkRequest}]
      /\ mailbox \in [Callers -> {"none", "done", "refused"}] /\ onTheWire \subseteq LinkRequests
      /\ linkIds \in 0..MaxIds
  BY <1>1 DEF LinkTypes
<1>3. made' \in [Callers -> [id : 0..linkIds', what : {"none", "attach", "share", "revoke"}, version : Nat]]
  BY <1>2
<1>4. /\ linkStep' \in [Callers -> {"free", "uploads", "waits"}] /\ mailbox' \in [Callers -> {"none", "done", "refused"}]
      /\ linkStep'[c] = step /\ mailbox'[c] = "none"
      /\ \A d \in Callers \ {c} :
            linkStep'[d] = linkStep[d] /\ made'[d] = made[d] /\ waitsFor'[d] = waitsFor[d] /\ mailbox'[d] = mailbox[d]
  BY <1>2
<1>5. waitsFor' \in [Callers -> LinkRequests' \cup {NoLinkRequest}] /\ onTheWire' \subseteq LinkRequests'
  BY <1>1, <1>2
<1>6. linkIds' \in 0..MaxIds /\ linkIds <= linkIds' /\ made'[c] = made[c]
  BY <1>2, LinkAssumption
<1> QED
  BY <1>3, <1>4, <1>5, <1>6 DEF CallerStep

LEMMA LinkCommands ==
  ASSUME LinksInv, NEW c \in Callers, AttachCmd(c) \/ ShareCmd(c) \/ RevokeCmd(c) \/ AgainWithId(c)
  PROVE  CallerStep(c) /\ UNCHANGED linkHistory
<1>1. LinkTypes /\ linkIds \in 0..MaxIds /\ latest \in Nat
  BY DEF LinksInv, LinkTypes
<1>2. made[c] \in [id : 0..linkIds, what : {"none", "attach", "share", "revoke"}, version : Nat]
  BY <1>1 DEF LinkTypes
<1>3. PICK what \in {"none", "attach", "share", "revoke"}, id \in 1..linkIds', version \in Nat :
        RunsLink(c, what, id, version) /\ linkIds' \in 0..MaxIds /\ linkIds <= linkIds'
  <2>1. CASE AttachCmd(c)
    BY <1>1, <2>1, LinkAssumption DEF AttachCmd, NewLink
  <2>2. CASE ShareCmd(c)
    <3>1. PICK v \in {0} \cup {v \in 1..latest : Has(v)} : RunsLink(c, "share", linkIds + 1, v)
      BY <2>2 DEF ShareCmd
    <3>2. v \in Nat
      BY <1>1
    <3>3. linkIds' = linkIds + 1 /\ linkIds < MaxIds
      BY <2>2 DEF ShareCmd, NewLink
    <3> QED
      BY <1>1, <3>1, <3>2, <3>3, LinkAssumption
  <2>3. CASE RevokeCmd(c)
    <3>1. PICK i \in 1..linkIds : RunsLink(c, "revoke", i, 0) /\ UNCHANGED linkIds
      BY <2>3 DEF RevokeCmd
    <3> QED
      BY <1>1, <3>1, LinkAssumption
  <2>4. CASE AgainWithId(c)
    <3>1. made[c].id # 0 /\ RunsLink(c, made[c].what, made[c].id, made[c].version) /\ UNCHANGED linkIds
      BY <2>4 DEF AgainWithId
    <3>2. made[c].id \in 1..linkIds /\ made[c].version \in Nat /\ made[c].what \in {"none", "attach", "share", "revoke"}
      BY <1>1, <1>2, <3>1, LinkAssumption
    <3> QED
      BY <1>1, <3>1, <3>2, LinkAssumption
  <2> QED
    BY <2>1, <2>2, <2>3, <2>4
<1> DEFINE new == [id |-> id, what |-> what, version |-> version]
<1>4. made' = [made EXCEPT ![c] = new] /\ SendsLink(c, FirstRequest(what)) /\ UNCHANGED <<linkServer, linkHistory>>
  BY <1>3 DEF RunsLink
<1>5. new \in [id : 1..linkIds', what : {"none", "attach", "share", "revoke"}, version : Nat]
  OBVIOUS
<1>6. FirstRequest(what) \in LinkKinds
  BY DEF FirstRequest, LinkKinds
<1>7. UNCHANGED <<attachments, shares, shows, latest, uploaded>>
  BY <1>4 DEF linkServer
<1> HIDE DEF new
<1> QED
  BY <1>3, <1>4, <1>5, <1>6, <1>7, Sends

LEMMA LinkUploads ==
  ASSUME LinksInv, NEW c \in Callers, UploadsFile(c)
  PROVE  CallerStep(c) /\ UNCHANGED linkHistory
<1>1. linkStep[c] = "uploads" /\ made' = made /\ UNCHANGED <<attachments, shares, shows, latest, linkIds, linkHistory>>
      /\ uploaded \subseteq uploaded'
  BY DEF UploadsFile
<1>2. LinkTypes /\ linkIds' \in 0..MaxIds /\ linkIds <= linkIds' /\ linkIds' = linkIds
  BY <1>1, LinkAssumption DEF LinksInv, LinkTypes
<1>3. made[c] \in [id : 0..linkIds, what : {"none", "attach", "share", "revoke"}, version : Nat]
  BY <1>2 DEF LinkTypes
<1>4. made[c].id # 0
  BY <1>1 DEF LinksInv, Waiting
<1>5. CASE SendsLink(c, "confirm")
  <2>1. made[c] \in [id : 1..linkIds', what : {"none", "attach", "share", "revoke"}, version : Nat]
    BY <1>2, <1>3, <1>4, LinkAssumption
  <2>2. made' = [made EXCEPT ![c] = made[c]]
    BY <1>1, <1>2 DEF LinkTypes
  <2>3. "confirm" \in LinkKinds
    BY DEF LinkKinds
  <2> QED
    BY <1>1, <1>2, <1>5, <2>1, <2>2, <2>3, Sends
<1>6. CASE LinkEnds(c)
  BY <1>1, <1>6, Settles DEF LinkEnds
<1> QED
  BY <1>5, <1>6 DEF UploadsFile

LEMMA LinkEnding ==
  ASSUME LinksInv, NEW c \in Callers, LinkReply(c) \/ LinkGivesUp(c)
  PROVE  CallerStep(c)
<1>1. linkStep[c] = "waits" /\ UNCHANGED <<made, linkIds, attachments, shares, shows, latest, uploaded>>
  BY DEF LinkReply, LinkGivesUp, linkServer
<1>2. LinkEnds(c) \/ ToUpload(c)
  BY DEF LinkReply, LinkGivesUp, PrintsLink, UploadFirst
<1>3. made[c].id # 0
  <2>1. waitsFor[c] \in LinkRequests /\ waitsFor[c].id = made[c].id
    BY <1>1 DEF LinksInv, Waiting
  <2>2. waitsFor[c].id \in 1..linkIds
    BY <2>1 DEF LinkRequests
  <2>3. linkIds \in Nat
    BY LinkAssumption DEF LinksInv, LinkTypes
  <2> QED
    BY <2>1, <2>2, <2>3
<1>4. UNCHANGED onTheWire
  BY <1>2 DEF LinkEnds, ToUpload
<1> QED
  BY <1>1, <1>2, <1>3, <1>4, Settles DEF LinkEnds, ToUpload

\* What a command prints was granted by the reply it read.
LEMMA LinkReported ==
  ASSUME LinksInv, NEW c \in Callers, LinkReply(c)
  PROVE  /\ \A i \in printed' \ printed :
               i \in 1..linkIds /\ ((attachments[i] = "ready" /\ i \in uploaded) \/ shares[i] # "none")
         /\ \A i \in revokedFor' \ revokedFor : i \in 1..linkIds /\ shares[i] = "revoked"
<1>1. linkStep[c] = "waits" /\ mailbox[c] # "none" /\ mailbox[c] \in {"none", "done", "refused"}
  BY DEF LinkReply, LinksInv, LinkTypes
<1>2. waitsFor[c] \in LinkRequests /\ waitsFor[c].id = made[c].id
  BY <1>1 DEF LinksInv, Waiting
<1>3. waitsFor[c].kind \in LinkKinds /\ made[c].id \in 1..linkIds
  BY <1>2 DEF LinkRequests
<1>4. mailbox[c] = "done" => Granted(waitsFor[c])
  BY <1>1 DEF LinksInv, Replied
<1>5. \/ UNCHANGED linkHistory
      \/ /\ mailbox[c] = "done" /\ waitsFor[c].kind \in {"confirm", "share"}
         /\ printed' = printed \cup {made[c].id} /\ revokedFor' = revokedFor
      \/ /\ mailbox[c] = "done" /\ waitsFor[c].kind = "revoke"
         /\ revokedFor' = revokedFor \cup {made[c].id} /\ printed' = printed
  BY <1>1, <1>3 DEF LinkReply, LinkKinds, PrintsLink, UploadFirst, ToUpload
<1> QED
  BY <1>2, <1>3, <1>4, <1>5 DEF Granted, linkHistory

\* The module serves a request: what it replies to is what it has done.
LEMMA LinkIsServed ==
  ASSUME LinksInv, NEW m \in onTheWire, ServeLink(m)
  PROVE  LinkTypes' /\ Waiting' /\ LiveLinks' /\ Replied' /\ Lasting
<1>1. /\ LinkTypes /\ Waiting /\ LiveLinks /\ Replied /\ LinkServed(m) /\ onTheWire' = onTheWire \ {m}
      /\ UNCHANGED <<linkStep, made, waitsFor, uploaded, latest, linkIds>>
  BY DEF LinksInv, ServeLink
<1>2. m \in LinkRequests /\ linkIds \in 0..MaxIds /\ latest \in Nat /\ linkIds <= linkIds
  BY <1>1, LinkAssumption DEF LinkTypes
<1>3. m.id \in 1..linkIds /\ m.kind \in LinkKinds /\ m.version \in Nat /\ m.c \in Callers
  BY <1>2 DEF LinkRequests
<1>4. m.id \in Ids1
  BY <1>2, <1>3, LinkAssumption DEF Ids1
<1>5. LinkRequests' = LinkRequests
  BY <1>1 DEF LinkRequests
<1>6. /\ attachments \in [Ids1 -> {"none", "pending", "ready"}]
      /\ shares \in [Ids1 -> {"none", "live", "revoked"}] /\ shows \in [Ids1 -> Nat]
      /\ mailbox \in [Callers -> {"none", "done", "refused"}]
  BY <1>1 DEF LinkTypes
<1>7. PICK how \in {"done", "refused"} :
        /\ LinkReplies(m, how)
        /\ attachments' \in [Ids1 -> {"none", "pending", "ready"}]
        /\ shares' \in [Ids1 -> {"none", "live", "revoked"}] /\ shows' \in [Ids1 -> Nat]
        /\ \A i \in Ids1 :
             /\ attachments[i] = "ready" => attachments'[i] = "ready"
             /\ shares[i] # "none" => shares'[i] # "none"
             /\ shares[i] = "revoked" => shares'[i] = "revoked"
             /\ shares'[i] = "live" => (shares[i] = "live" /\ shows'[i] = shows[i]) \/ (i = m.id /\ shows'[i] <= latest)
        /\ how = "done" => Granted(m)'
  <2>1. CASE m.kind = "request-upload"
    <3>1. /\ attachments' = [attachments EXCEPT ![m.id] = IF @ = "none" THEN "pending" ELSE @]
          /\ LinkReplies(m, "done") /\ UNCHANGED <<shares, shows>>
      BY <1>1, <2>1 DEF LinkServed
    <3>2. Granted(m)'
      BY <2>1 DEF Granted
    <3> QED
      BY <1>4, <1>6, <3>1, <3>2
  <2>2. CASE m.kind = "confirm"
    <3>1. /\ attachments' = IF m.id \in uploaded THEN [attachments EXCEPT ![m.id] = "ready"] ELSE attachments
          /\ LinkReplies(m, IF m.id \in uploaded THEN "done" ELSE "refused") /\ UNCHANGED <<shares, shows>>
      BY <1>1, <2>2 DEF LinkServed
    <3>2. m.id \in uploaded => Granted(m)'
      BY <1>1, <1>4, <1>6, <2>2, <3>1 DEF Granted
    <3> QED
      BY <1>4, <1>6, <3>1, <3>2
  <2>3. CASE m.kind = "share"
    <3>1. /\ IF shares[m.id] = "none" /\ Has(m.version)
               THEN shares' = [shares EXCEPT ![m.id] = "live"] /\ shows' = [shows EXCEPT ![m.id] = m.version]
               ELSE UNCHANGED <<shares, shows>>
          /\ \E how \in IF shares[m.id] = "live" THEN {"done", "refused"} ELSE {"refused"} :
                LinkReplies(m, IF shares[m.id] = "none" /\ Has(m.version) THEN "done" ELSE how)
          /\ UNCHANGED attachments
      BY <1>1, <2>3 DEF LinkServed
    <3>2. CASE shares[m.id] = "none" /\ Has(m.version)
      <4>1. /\ shares' = [shares EXCEPT ![m.id] = "live"] /\ shows' = [shows EXCEPT ![m.id] = m.version]
            /\ LinkReplies(m, "done") /\ attachments' = attachments
        BY <3>1, <3>2
      <4>2. m.version <= latest
        BY <3>2 DEF Has
      <4>3. Granted(m)'
        BY <1>4, <1>6, <2>3, <4>1 DEF Granted
      <4> QED
        BY <1>3, <1>4, <1>6, <3>2, <4>1, <4>2, <4>3
    <3>3. CASE ~(shares[m.id] = "none" /\ Has(m.version))
      <4>1. PICK how \in IF shares[m.id] = "live" THEN {"done", "refused"} ELSE {"refused"} : LinkReplies(m, how)
        BY <3>1, <3>3
      <4>2. UNCHANGED <<shares, shows, attachments>>
        BY <3>1, <3>3
      <4>3. how = "done" => Granted(m)'
        BY <2>3, <4>1, <4>2 DEF Granted
      <4> QED
        BY <1>6, <4>1, <4>2, <4>3
    <3> QED
      BY <3>2, <3>3
  <2>4. CASE m.kind = "revoke"
    <3>1. /\ shares' = [shares EXCEPT ![m.id] = "revoked"]
          /\ LinkReplies(m, "done") /\ UNCHANGED <<attachments, shows>>
      BY <1>1, <2>4 DEF LinkServed
    <3>2. Granted(m)'
      BY <1>4, <1>6, <2>4, <3>1 DEF Granted
    <3> QED
      BY <1>4, <1>6, <3>1, <3>2
  <2> QED
    BY <1>3, <2>1, <2>2, <2>3, <2>4 DEF LinkKinds
<1>8. mailbox' = IF waitsFor[m.c] = m THEN [mailbox EXCEPT ![m.c] = how] ELSE mailbox
  BY <1>7 DEF LinkReplies
<1>9. LinkTypes'
  BY <1>1, <1>2, <1>3, <1>5, <1>6, <1>7, <1>8 DEF LinkTypes
<1>10. Waiting'
  BY <1>1, <1>5 DEF Waiting
<1>11. LiveLinks'
  BY <1>1, <1>3, <1>7 DEF LiveLinks
<1>12. Replied'
  <2> SUFFICES ASSUME NEW c \in Callers, linkStep[c] = "waits", mailbox'[c] = "done"
               PROVE  Granted(waitsFor[c])'
    BY <1>1 DEF Replied
  <2>1. CASE waitsFor[c] = m /\ c = m.c
    BY <1>1, <1>3, <1>6, <1>7, <1>8, <2>1 DEF Granted
  <2>2. CASE ~(waitsFor[c] = m /\ c = m.c)
    <3>1. mailbox[c] = "done"
      BY <1>3, <1>6, <1>8, <2>2
    <3>2. Granted(waitsFor[c]) /\ waitsFor[c] \in LinkRequests
      BY <1>1, <3>1 DEF Replied, Waiting
    <3>3. waitsFor[c].id \in Ids1
      BY <1>2, <3>2, LinkAssumption DEF LinkRequests, Ids1
    <3> QED
      BY <1>1, <1>7, <3>2, <3>3 DEF Granted
  <2> QED
    BY <2>1, <2>2
<1>13. Lasting
  BY <1>1, <1>2, <1>7 DEF Lasting
<1> QED
  BY <1>9, <1>10, <1>11, <1>12, <1>13

LEMMA LinksAlone ==
  ASSUME LinksInv,
         \/ \E m \in onTheWire : LosesRequest(m)
         \/ DocumentSaved \/ HistoryCompacts \/ UNCHANGED linkVars
  PROVE  LinkTypes' /\ Waiting' /\ LiveLinks' /\ Replied' /\ Lasting /\ UNCHANGED linkHistory
<1>1. LinkTypes /\ Waiting /\ LiveLinks /\ Replied /\ latest \in Nat /\ linkIds \in 0..MaxIds
  BY DEF LinksInv, LinkTypes
<1>2. /\ UNCHANGED <<linkStep, made, waitsFor, mailbox, attachments, uploaded, shares, shows, linkIds, linkHistory>>
      /\ onTheWire' \subseteq onTheWire /\ latest' \in {latest, latest + 1}
  BY DEF LosesRequest, DocumentSaved, HistoryCompacts, linkVars, linkServer, linkHistory
<1>3. LinkRequests' = LinkRequests
  BY <1>2 DEF LinkRequests
<1>4. latest' \in Nat /\ latest <= latest'
  BY <1>1, <1>2
<1>5. LinkTypes'
  BY <1>1, <1>2, <1>3, <1>4 DEF LinkTypes
<1>6. Waiting' /\ Replied'
  BY <1>1, <1>2, <1>3 DEF Waiting, Replied, Granted
<1>7. LiveLinks'
  BY <1>1, <1>2, <1>4 DEF LiveLinks, LinkTypes
<1>8. Lasting
  BY <1>1, <1>2, <1>4, LinkAssumption DEF Lasting
<1> QED
  BY <1>2, <1>5, <1>6, <1>7, <1>8

\* However requests are retried, lost or served late, a reply is of what the module has done.
THEOREM LinksInvariant == LinksSpec => []LinksInv
<1>1. LinksInit => LinksInv
  <2> SUFFICES ASSUME LinksInit PROVE LinksInv
    OBVIOUS
  <2>1. LinkTypes
    BY LinkAssumption DEF LinksInit, LinkTypes, Ids1, LinkRequests
  <2>2. Waiting /\ LiveLinks /\ Replied /\ UploadsKept
    BY DEF LinksInit, Waiting, LiveLinks, Replied, UploadsKept, Ids1
  <2> QED
    BY <2>1, <2>2 DEF LinksInv
<1>2. ASSUME LinksInv, [LinksNext]_linkVars
      PROVE  LinksInv'
  <2>1. ASSUME NEW c \in Callers,
               \/ AttachCmd(c) \/ ShareCmd(c) \/ RevokeCmd(c) \/ AgainWithId(c)
               \/ UploadsFile(c) \/ LinkReply(c) \/ LinkGivesUp(c)
        PROVE  LinksInv'
    <3>1. CallerStep(c)
      BY <1>2, <2>1, LinkCommands, LinkUploads, LinkEnding
    <3>2. LinkTypes' /\ Waiting' /\ LiveLinks' /\ Replied' /\ Lasting
      BY <1>2, <3>1, CallerStepKeeps
    <3>3. UNCHANGED linkHistory \/ LinkReply(c)
      BY <1>2, <2>1, LinkCommands, LinkUploads DEF LinkGivesUp
    <3>4. /\ \A i \in printed' \ printed :
                i \in 1..linkIds /\ ((attachments[i] = "ready" /\ i \in uploaded) \/ shares[i] # "none")
          /\ \A i \in revokedFor' \ revokedFor : i \in 1..linkIds /\ shares[i] = "revoked"
      BY <1>2, <3>3, LinkReported DEF linkHistory
    <3>5. UploadsKept'
      BY <1>2, <3>2, <3>4, KeptOn
    <3> QED
      BY <3>2, <3>5 DEF LinksInv
  <2>2. ASSUME NEW m \in onTheWire, ServeLink(m)
        PROVE  LinksInv'
    <3>1. LinkTypes' /\ Waiting' /\ LiveLinks' /\ Replied' /\ Lasting
      BY <1>2, <2>2, LinkIsServed
    <3>2. UNCHANGED <<printed, revokedFor>>
      BY <2>2 DEF ServeLink, linkHistory
    <3>3. UploadsKept'
      BY <1>2, <3>1, <3>2, KeptOn
    <3> QED
      BY <3>1, <3>3 DEF LinksInv
  <2>3. CASE \/ \E m \in onTheWire : LosesRequest(m)
             \/ DocumentSaved \/ HistoryCompacts \/ UNCHANGED linkVars
    <3>1. LinkTypes' /\ Waiting' /\ LiveLinks' /\ Replied' /\ Lasting /\ UNCHANGED <<printed, revokedFor>>
      BY <1>2, <2>3, LinksAlone DEF linkHistory
    <3>2. UploadsKept'
      BY <1>2, <3>1, KeptOn
    <3> QED
      BY <3>1, <3>2 DEF LinksInv
  <2> QED
    BY <1>2, <2>1, <2>2, <2>3 DEF LinksNext
<1> QED
  BY <1>1, <1>2, PTL DEF LinksSpec

\* A link that was printed opens: its bytes were confirmed (attach.go:33-34), or the version it shows
\* is still there; and a link that was reported as revoked stays revoked.
THEOREM LinksStayOpen == LinksSpec => []LinksOpen
<1>1. ASSUME LinksInv
      PROVE  LinksOpen
  <2>1. linkIds \in 0..MaxIds /\ shares \in [Ids1 -> {"none", "live", "revoked"}]
    BY <1>1 DEF LinksInv, LinkTypes
  <2>2. \A i \in 1..linkIds : i \in Ids1
    BY <2>1, LinkAssumption DEF Ids1
  <2>3. ASSUME NEW i \in 1..linkIds, shares[i] = "live"
        PROVE  Has(shows[i])
    <3>1. shows[i] <= latest
      BY <1>1, <2>2, <2>3 DEF LinksInv, LiveLinks
    <3> QED
      BY <2>3, <3>1 DEF Has
  <2>4. ASSUME NEW i \in printed
        PROVE  \/ attachments[i] = "ready" /\ i \in uploaded
               \/ shares[i] = "live" /\ Has(shows[i])
               \/ shares[i] = "revoked"
    <3>1. i \in 1..linkIds /\ ((attachments[i] = "ready" /\ i \in uploaded) \/ shares[i] # "none")
      BY <1>1, <2>4 DEF LinksInv, UploadsKept
    <3>2. shares[i] \in {"none", "live", "revoked"}
      BY <2>1, <2>2, <3>1
    <3> QED
      BY <2>3, <3>1, <3>2
  <2>5. \A i \in revokedFor : shares[i] = "revoked"
    BY <1>1 DEF LinksInv, UploadsKept
  <2> QED
    BY <2>4, <2>5 DEF LinksOpen
<1> QED
  BY <1>1, LinksInvariant, PTL

-----------------------------------------------------------------------------
(* Paging.  A row that was there all along was yielded, is left of the page *)
(* at hand, or is behind the cursor.                                        *)

PagingSpec == PagingInit /\ [][PagingNext]_pagingVars

Left == {items[k] : k \in (pos + 1)..Len(items)}

PagingTypes ==
    /\ table \subseteq Rows /\ stayed \subseteq table
    /\ items \in Seq(Nat) /\ yielded \in Seq(Nat) /\ pos \in 0..Len(items)
    /\ cursor \in Nat \cup {NoCursor} /\ started \in BOOLEAN

\* What is yielded, what is left of the page and what the cursor hides come in this order.
Ascending ==
    /\ \A i, j \in DOMAIN yielded : i < j => yielded[i] < yielded[j]
    /\ \A k, l \in DOMAIN items : k < l => items[k] < items[l]
    /\ \A i \in DOMAIN yielded, k \in (pos + 1)..Len(items) : yielded[i] < items[k]
    /\ cursor # NoCursor =>
        /\ \A i \in DOMAIN yielded : yielded[i] <= cursor
        /\ \A k \in DOMAIN items : items[k] <= cursor

Swept ==
    /\ ~started => items = <<>> /\ yielded = <<>> /\ cursor = NoCursor
    /\ started => \A r \in stayed : r \in ToSet(yielded) \cup Left \/ (cursor # NoCursor /\ r > cursor)
    /\ done \/ shown = "whole" => started /\ cursor = NoCursor

PagingInv == PagingTypes /\ Ascending /\ Swept

LEMMA RowYields == ASSUME PagingInv, Yield PROVE PagingInv'
<1>1. /\ pos < Len(items) /\ pos' = pos + 1 /\ yielded' = Append(yielded, items[pos + 1])
      /\ UNCHANGED <<table, items, cursor, started, done, stayed, shown>>
  BY DEF Yield, Walking
<1>2. items \in Seq(Nat) /\ yielded \in Seq(Nat) /\ pos \in Nat /\ Len(items) \in Nat /\ pos + 1 \in DOMAIN items
  BY <1>1 DEF PagingInv, PagingTypes
<1>3. items[pos + 1] \in Nat
  BY <1>2
<1>4. /\ yielded' \in Seq(Nat) /\ DOMAIN yielded' = 1..(Len(yielded) + 1) /\ DOMAIN yielded = 1..Len(yielded)
      /\ yielded'[Len(yielded) + 1] = items[pos + 1] /\ \A i \in DOMAIN yielded : yielded'[i] = yielded[i]
      /\ Len(yielded) \in Nat
  BY <1>1, <1>2, <1>3
<1>5. \A k \in DOMAIN items : items[k] \in Nat
  BY <1>2
<1>6. PagingTypes'
  BY <1>1, <1>2, <1>4 DEF PagingInv, PagingTypes
<1>7. Ascending'
  <2>1. Ascending /\ DOMAIN items = 1..Len(items) /\ \A i \in DOMAIN yielded : yielded[i] \in Nat
    BY <1>2 DEF PagingInv
  <2>2. \A i, j \in DOMAIN yielded' : i < j => yielded'[i] < yielded'[j]
    <3> SUFFICES ASSUME NEW i \in DOMAIN yielded', NEW j \in DOMAIN yielded', i < j
                 PROVE  yielded'[i] < yielded'[j]
      OBVIOUS
    <3>1. i \in DOMAIN yielded /\ i \in Nat /\ j \in Nat /\ (j \in DOMAIN yielded \/ j = Len(yielded) + 1)
      BY <1>4
    <3>2. yielded'[i] = yielded[i]
      BY <1>4, <3>1
    <3>3. CASE j \in DOMAIN yielded
      BY <1>4, <2>1, <3>1, <3>2, <3>3 DEF Ascending
    <3>4. CASE j = Len(yielded) + 1
      <4>1. pos + 1 \in (pos + 1)..Len(items)
        BY <1>1, <1>2
      <4>2. yielded[i] < items[pos + 1]
        BY <2>1, <3>1, <4>1 DEF Ascending
      <4> QED
        BY <1>4, <3>2, <3>4, <4>2
    <3> QED
      BY <3>1, <3>3, <3>4
  <2>3. \A i \in DOMAIN yielded', k \in (pos' + 1)..Len(items) : yielded'[i] < items[k]
    <3> SUFFICES ASSUME NEW i \in DOMAIN yielded', NEW k \in (pos + 2)..Len(items)
                 PROVE  yielded'[i] < items[k]
      BY <1>1, <1>2
    <3>1. k \in (pos + 1)..Len(items) /\ pos + 1 < k /\ k \in DOMAIN items /\ k \in Nat
      BY <1>2
    <3>2. CASE i \in DOMAIN yielded
      BY <1>4, <2>1, <3>1, <3>2 DEF Ascending
    <3>3. CASE i = Len(yielded) + 1
      <4>1. items[pos + 1] < items[k]
        BY <1>2, <2>1, <3>1 DEF Ascending
      <4> QED
        BY <1>4, <3>3, <4>1
    <3> QED
      BY <1>4, <3>2, <3>3
  <2>4. cursor # NoCursor => \A i \in DOMAIN yielded' : yielded'[i] <= cursor
    <3> SUFFICES ASSUME cursor # NoCursor, NEW i \in DOMAIN yielded'
                 PROVE  yielded'[i] <= cursor
      OBVIOUS
    <3>1. CASE i \in DOMAIN yielded
      BY <1>4, <2>1, <3>1 DEF Ascending
    <3>2. CASE i = Len(yielded) + 1
      BY <1>2, <1>4, <2>1, <3>2 DEF Ascending
    <3> QED
      BY <1>4, <3>1, <3>2
  <2> QED
    BY <1>1, <2>1, <2>2, <2>3, <2>4 DEF Ascending
<1>8. ToSet(yielded) \cup Left \subseteq ToSet(yielded') \cup Left'
  <2>1. ASSUME NEW k \in (pos + 1)..Len(items)
        PROVE  items[k] \in ToSet(yielded') \cup Left'
    <3>1. CASE k = pos + 1
      BY <1>4, <3>1 DEF ToSet
    <3>2. CASE k # pos + 1
      BY <1>1, <1>2, <3>2 DEF Left
    <3> QED
      BY <3>1, <3>2
  <2>2. ToSet(yielded) \subseteq ToSet(yielded')
    BY <1>4 DEF ToSet
  <2> QED
    BY <2>1, <2>2 DEF Left
<1>9. Swept'
  <2>1. started
    BY <1>1, <1>2 DEF PagingInv, Swept
  <2> QED
    BY <1>1, <1>8, <2>1 DEF PagingInv, Swept
<1> QED
  BY <1>6, <1>7, <1>9 DEF PagingInv

LEMMA PageFetched == ASSUME PagingInv, Fetch PROVE PagingInv'
<1> DEFINE rest == {r \in table : r > From}
           next(page) == IF rest \subseteq ToSet(page) THEN NoCursor ELSE IF page = <<>> THEN From ELSE Last(page)
<1>1. PICK page \in SeqOf(rest, PageLimit) :
        /\ IsPage(page, rest) /\ items' = page /\ cursor' = next(page) /\ done' = LastPage(page, next(page))
  BY DEF Fetch
<1>2. /\ pos = Len(items) /\ (started => cursor # NoCursor) /\ pos' = 0 /\ started' = TRUE
      /\ stayed' = (IF started THEN stayed ELSE table) /\ UNCHANGED <<shown, table, yielded>>
  BY DEF Fetch
<1>3. /\ table \subseteq Nat \ {0} /\ stayed \subseteq table /\ yielded \in Seq(Nat) /\ items \in Seq(Nat)
      /\ From \in Nat /\ (started => From = cursor) /\ (~started => From = 0)
  BY <1>2, PagingAssumption DEF PagingInv, PagingTypes, From
<1>4. /\ page \in Seq(rest) /\ DOMAIN page = 1..Len(page) /\ Len(page) \in Nat /\ (page = <<>> <=> Len(page) = 0)
      /\ \A k \in DOMAIN page : page[k] \in rest
  <2>1. PICK n \in 0..PageLimit : page \in [1..n -> rest]
    BY DEF SeqOf
  <2>2. n \in Nat
    BY PagingAssumption
  <2> QED
    BY <2>1, <2>2
<1>5. rest \subseteq Nat /\ \A r \in rest : r > From
  BY <1>3
<1>6. ToSet(page) = {page[k] : k \in 1..Len(page)} /\ Left' = ToSet(page)
  BY <1>1, <1>2, <1>4 DEF ToSet, Left
<1>7. \A k, l \in DOMAIN page : k < l => page[k] < page[l]
  BY <1>1 DEF IsPage
<1>8. page # <<>> => Last(page) = page[Len(page)] /\ Len(page) \in DOMAIN page
  BY <1>4 DEF Last
<1>9. /\ cursor' \in Nat \cup {NoCursor}
      /\ cursor' # NoCursor => cursor' >= From /\ \A k \in DOMAIN page : page[k] <= cursor'
      /\ \A r \in rest : r \in ToSet(page) \/ (cursor' # NoCursor /\ r > cursor')
  <2>1. CASE rest \subseteq ToSet(page)
    BY <1>1, <2>1
  <2>2. CASE ~(rest \subseteq ToSet(page)) /\ page = <<>>
    <3>1. cursor' = From /\ From # NoCursor
      BY <1>1, <1>3, <2>2 DEF NoCursor
    <3> QED
      BY <1>3, <1>4, <1>5, <2>2, <3>1
  <2>3. CASE ~(rest \subseteq ToSet(page)) /\ page # <<>>
    <3>1. cursor' = page[Len(page)] /\ page[Len(page)] \in rest
      BY <1>1, <1>4, <1>8, <2>3
    <3>2. page[Len(page)] \in Nat /\ page[Len(page)] > From /\ page[Len(page)] # NoCursor
      BY <1>3, <1>5, <3>1 DEF NoCursor
    <3>3. \A k \in DOMAIN page : page[k] <= page[Len(page)]
      <4>1. ASSUME NEW k \in DOMAIN page, k # Len(page)
            PROVE  page[k] < page[Len(page)]
        BY <1>4, <1>7, <1>8, <2>3, <4>1
      <4> QED
        BY <1>4, <1>5, <3>2, <4>1
    <3>4. \A r \in rest \ ToSet(page) : r > page[Len(page)]
      BY <1>1, <1>3, <1>5, <1>8, <2>3, <3>2 DEF IsPage
    <3> QED
      BY <1>3, <3>1, <3>2, <3>3, <3>4
  <2> QED
    BY <2>1, <2>2, <2>3
<1>10. items' \in Seq(Nat) /\ pos' \in 0..Len(items')
  BY <1>1, <1>2, <1>4, <1>5
<1>11. PagingTypes'
  BY <1>2, <1>3, <1>9, <1>10 DEF PagingInv, PagingTypes
<1>12. \A i \in DOMAIN yielded : yielded[i] <= From /\ yielded[i] \in Nat
  BY <1>2, <1>3 DEF PagingInv, Ascending, Swept
<1>13. Ascending'
  <2>1. \A i \in DOMAIN yielded, k \in DOMAIN page : yielded[i] < page[k]
    BY <1>3, <1>4, <1>5, <1>12
  <2>2. cursor' # NoCursor => \A i \in DOMAIN yielded : yielded[i] <= cursor'
    BY <1>3, <1>9, <1>12 DEF NoCursor
  <2>3. \A i, j \in DOMAIN yielded : i < j => yielded[i] < yielded[j]
    BY DEF PagingInv, Ascending
  <2>4. \A k \in (pos' + 1)..Len(items') : k \in DOMAIN page
    BY <1>1, <1>2, <1>4
  <2> QED
    BY <1>1, <1>2, <1>7, <1>9, <2>1, <2>2, <2>3, <2>4 DEF Ascending
<1>14. \A r \in stayed' : r \in ToSet(yielded) \cup rest
  <2>1. CASE started
    <3>1. Left = {}
      BY <1>2, <1>3 DEF Left
    <3> QED
      BY <1>2, <1>3, <2>1, <3>1 DEF PagingInv, Swept
  <2>2. CASE ~started
    BY <1>2, <1>3, <2>2
  <2> QED
    BY <2>1, <2>2
<1>15. \A r \in stayed' : r \in ToSet(yielded') \cup Left' \/ (cursor' # NoCursor /\ r > cursor')
  BY <1>2, <1>6, <1>9, <1>14
<1>16. done' => cursor' = NoCursor
  BY <1>1 DEF LastPage
<1>17. shown # "whole"
  BY <1>2 DEF PagingInv, Swept
<1>18. Swept'
  BY <1>2, <1>15, <1>16, <1>17 DEF Swept
<1> QED
  BY <1>11, <1>13, <1>18 DEF PagingInv

LEMMA PagingRests ==
  ASSUME PagingInv,
         \/ WalkEnds \/ FetchFails \/ QueryAll \/ ListVersions \/ HistoryCmd \/ OnePage
         \/ \E r \in Rows : InsertRow(r) \/ DeleteRow(r)
         \/ UNCHANGED pagingVars
  PROVE  PagingInv'
<1>1. UNCHANGED <<items, pos, cursor, started, yielded>>
  BY DEF WalkEnds, FetchFails, QueryAll, ListVersions, HistoryCmd, OnePage, InsertRow, DeleteRow, Prints, OrTheError,
         iterator, pagingVars
<1>2. table' \subseteq Rows /\ stayed' \subseteq table' /\ stayed' \subseteq stayed
  BY DEF WalkEnds, FetchFails, QueryAll, ListVersions, HistoryCmd, OnePage, InsertRow, DeleteRow, Prints, OrTheError,
         iterator, pagingVars, PagingInv, PagingTypes
<1>3. done' => started /\ cursor = NoCursor
  BY DEF WalkEnds, FetchFails, QueryAll, ListVersions, HistoryCmd, OnePage, InsertRow, DeleteRow, Prints, OrTheError,
         iterator, pagingVars, PagingInv, Swept
<1>4. shown' = "whole" => started /\ cursor = NoCursor
  BY DEF WalkEnds, FetchFails, QueryAll, ListVersions, HistoryCmd, OnePage, InsertRow, DeleteRow, Prints, OrTheError,
         iterator, pagingVars, PagingInv, Swept, Walking, Ended
<1>5. Left' = Left /\ PagingTypes'
  BY <1>1, <1>2 DEF Left, PagingInv, PagingTypes
<1>6. Ascending'
  BY <1>1 DEF PagingInv, Ascending
<1>7. Swept'
  BY <1>1, <1>2, <1>3, <1>4, <1>5 DEF PagingInv, Swept
<1> QED
  BY <1>5, <1>6, <1>7 DEF PagingInv

\* Whatever is inserted, deleted and cut short while the walk goes on, no row gets behind it.
THEOREM PagingInvariant == PagingSpec => []PagingInv
<1>1. PagingInit => PagingInv
  <2> SUFFICES ASSUME PagingInit PROVE PagingInv
    OBVIOUS
  <2>1. items = <<>> /\ yielded = <<>> /\ DOMAIN items = {} /\ DOMAIN yielded = {} /\ Len(items) = 0 /\ pos = 0
    BY DEF PagingInit
  <2>2. PagingTypes
    <3>1. table \subseteq Rows /\ stayed = table /\ cursor = NoCursor /\ started = FALSE
      BY DEF PagingInit
    <3>2. <<>> \in Seq(Nat) /\ 0 \in 0..0
      OBVIOUS
    <3> QED
      BY <2>1, <3>1, <3>2 DEF PagingTypes
  <2>3. Ascending
    BY <2>1 DEF PagingInit, Ascending
  <2>4. Swept
    BY <2>1 DEF PagingInit, Swept
  <2> QED
    BY <2>2, <2>3, <2>4 DEF PagingInv
<1>2. ASSUME PagingInv, [PagingNext]_pagingVars
      PROVE  PagingInv'
  BY <1>2, RowYields, PageFetched, PagingRests DEF PagingNext
<1> QED
  BY <1>1, <1>2, PTL DEF PagingSpec

\* No row is skipped or repeated (iter.go:20-22): the whole list is whole.
THEOREM SweepsComplete == PagingSpec => []SweepComplete
<1>1. ASSUME PagingInv
      PROVE  SweepComplete
  <2> DEFINE tail == SubSeq(items, pos + 1, Len(items))
  <2>1. items \in Seq(Nat) /\ yielded \in Seq(Nat) /\ pos \in 0..Len(items)
    BY <1>1 DEF PagingInv, PagingTypes
  <2>2. /\ tail \in Seq(Nat) /\ Len(tail) = Len(items) - pos
        /\ \A k \in 1..(Len(items) - pos) : tail[k] = items[pos + k]
    BY <2>1
  <2>3. /\ yielded \o tail \in Seq(Nat) /\ Len(yielded \o tail) = Len(yielded) + Len(tail)
        /\ \A k \in 1..(Len(yielded) + Len(tail)) :
               (yielded \o tail)[k] = IF k <= Len(yielded) THEN yielded[k] ELSE tail[k - Len(yielded)]
    <3>1. tail \in Seq(Nat)
      BY <2>2
    <3> HIDE DEF tail
    <3> QED
      BY <2>1, <3>1, ConcatProperties
  <2> HIDE DEF tail
  <2>4. ToSet(yielded) \cup Left \subseteq ToSet(yielded \o tail)
    <3>1. ASSUME NEW i \in DOMAIN yielded
          PROVE  yielded[i] \in ToSet(yielded \o tail)
      <4>1. i \in 1..(Len(yielded) + Len(tail)) /\ i <= Len(yielded)
        BY <2>1, <2>2
      <4>2. (yielded \o tail)[i] = yielded[i] /\ i \in DOMAIN (yielded \o tail)
        BY <2>3, <4>1
      <4> QED
        BY <4>2 DEF ToSet
    <3>2. ASSUME NEW k \in (pos + 1)..Len(items)
          PROVE  items[k] \in ToSet(yielded \o tail)
      <4>1. k - pos \in 1..(Len(items) - pos) /\ tail[k - pos] = items[k]
        BY <2>1, <2>2
      <4> DEFINE n == Len(yielded) + (k - pos)
      <4>2. n \in 1..(Len(yielded) + Len(tail)) /\ ~(n <= Len(yielded)) /\ n - Len(yielded) = k - pos
        BY <2>1, <2>2, <4>1
      <4> HIDE DEF n
      <4>3. (yielded \o tail)[n] = items[k] /\ n \in DOMAIN (yielded \o tail)
        BY <2>3, <4>1, <4>2
      <4> QED
        BY <4>3 DEF ToSet
    <3> QED
      BY <3>1, <3>2 DEF ToSet, Left
  <2>5. shown = "whole" => stayed \subseteq ToSet(yielded) \cup Left
    BY <1>1 DEF PagingInv, Swept
  <2>6. \A i, j \in DOMAIN yielded : i < j => yielded[i] < yielded[j]
    BY <1>1 DEF PagingInv, Ascending
  <2> QED
    BY <2>4, <2>5, <2>6 DEF SweepComplete, tail
<1> QED
  BY <1>1, PagingInvariant, PTL

-----------------------------------------------------------------------------
(* Device login.  A poll is due no later than the interval after the last   *)
(* one that may have missed the authorisation, and no sooner than the       *)
(* provider wants it.                                                       *)

DeviceSpec == DeviceInit /\ [][DeviceNext]_deviceVars

Asks == [at : Nat, wanted : Nat]

DeviceTypes ==
    /\ clock \in Nat \ {0} /\ interval \in Nat /\ deadline \in Nat /\ wakes \in Nat /\ wanted \in Nat
    /\ authorised \in 0..clock /\ asks \in Seq(Asks)

\* The flow waits as long as the provider wants, and is late by no more than Latency.
Timed ==
    /\ login \in {"sleeping", "asking"} => wanted = interval
    /\ login = "starting" => asks = <<>> /\ authorised = 0
    /\ login = "sleeping" =>
        /\ clock <= wakes + Latency
        /\ asks # <<>> => wakes >= asks[Len(asks)].at + wanted
        /\ authorised = 0 => wakes <= clock + interval
        /\ authorised # 0 => wakes <= authorised + Latency + interval
    /\ login = "asking" => asks # <<>> /\ asks[Len(asks)].at <= clock /\ clock <= asks[Len(asks)].at + Latency

DeviceInv == DeviceTypes /\ Timed /\ LoginHeard

LEMMA DeviceTimes == DeviceInv => /\ Latency \in Nat /\ BackOff \in Nat /\ clock \in Nat \ {0} /\ interval \in Nat
                                  /\ deadline \in Nat /\ wakes \in Nat /\ wanted \in Nat /\ authorised \in Nat
                                  /\ authorised <= clock /\ asks \in Seq(Asks)
BY DeviceAssumption DEF DeviceInv, DeviceTypes

LEMMA DeviceStarts ==
  ASSUME DeviceInv, NEW i \in Intervals, NEW l \in Lifetimes, Authorize(i, l)
  PROVE  DeviceInv'
<1>1. /\ login = "starting" /\ interval' = Supplied(i, DefaultInterval) /\ wanted' = interval'
      /\ deadline' = clock + Supplied(l, DefaultLifetime) /\ login' = "sleeping" /\ wakes' = clock + interval'
      /\ UNCHANGED <<clock, asks, authorised>>
  BY DEF Authorize, Sleep
<1>2. Supplied(i, DefaultInterval) \in Nat /\ Supplied(l, DefaultLifetime) \in Nat
  BY DeviceAssumption DEF Supplied
<1>3. asks = <<>> /\ authorised = 0
  BY <1>1 DEF DeviceInv, Timed
<1>4. DeviceTypes'
  BY <1>1, <1>2, <1>3, DeviceTimes DEF DeviceInv, DeviceTypes
<1>5. Timed'
  BY <1>1, <1>2, <1>3, DeviceTimes DEF Timed
<1>6. LoginHeard'
  BY <1>1, <1>3 DEF LoginHeard, BacksOff
<1> QED
  BY <1>4, <1>5, <1>6 DEF DeviceInv

LEMMA DeviceWakes == ASSUME DeviceInv, Wakes PROVE DeviceInv'
<1>1. /\ login = "sleeping" /\ clock >= wakes /\ UNCHANGED <<clock, interval, deadline, wakes, wanted, authorised>>
      /\ IF clock > deadline THEN login' = "expired" /\ UNCHANGED asks
         ELSE login' = "asking" /\ asks' = Append(asks, [at |-> clock, wanted |-> wanted])
  BY DEF Wakes
<1>2. /\ clock <= wakes + Latency /\ wanted = interval /\ (asks # <<>> => wakes >= asks[Len(asks)].at + wanted)
      /\ (authorised # 0 => wakes <= authorised + Latency + interval)
  BY <1>1 DEF DeviceInv, Timed
<1>3. CASE clock > deadline
  <2>1. login' = "expired" /\ asks' = asks
    BY <1>1, <1>3
  <2>2. authorised # 0 => deadline < authorised + interval + 2 * Latency
    BY <1>2, <1>3, DeviceTimes
  <2>3. DeviceTypes' /\ Timed'
    BY <1>1, <2>1 DEF DeviceInv, DeviceTypes, Timed
  <2>4. LoginHeard'
    BY <1>1, <2>1, <2>2 DEF DeviceInv, LoginHeard, BacksOff
  <2> QED
    BY <2>3, <2>4 DEF DeviceInv
<1>4. CASE ~(clock > deadline)
  <2> DEFINE ask == [at |-> clock, wanted |-> wanted]
  <2>1. login' = "asking" /\ asks' = Append(asks, ask)
    BY <1>1, <1>4
  <2>2. ask \in Asks /\ ask.at = clock /\ ask.wanted = wanted
    BY DeviceTimes DEF Asks
  <2> HIDE DEF ask
  <2>3. /\ asks' \in Seq(Asks) /\ Len(asks') = Len(asks) + 1 /\ Len(asks) \in Nat /\ asks'[Len(asks) + 1] = ask
        /\ \A n \in 1..Len(asks) : asks'[n] = asks[n]
    BY <2>1, <2>2, DeviceTimes
  <2>4. DeviceTypes'
    BY <1>1, <2>3 DEF DeviceInv, DeviceTypes
  <2>5. Timed'
    <3>1. asks' # <<>> /\ asks'[Len(asks')].at = clock
      BY <2>2, <2>3
    <3> QED
      BY <1>1, <1>2, <2>1, <3>1, DeviceTimes DEF Timed
  <2>6. BacksOff'
    <3> SUFFICES ASSUME NEW n \in 2..Len(asks')
                 PROVE  asks'[n].at >= asks'[n - 1].at + asks'[n].wanted
      BY DEF BacksOff
    <3>1. CASE n \in 2..Len(asks)
      <4>1. n - 1 \in 1..Len(asks) /\ n \in 1..Len(asks)
        BY <2>3, <3>1
      <4> QED
        BY <2>3, <3>1, <4>1 DEF DeviceInv, LoginHeard, BacksOff
    <3>2. CASE n = Len(asks) + 1
      <4>1. asks # <<>> /\ n - 1 = Len(asks) /\ Len(asks) \in 1..Len(asks)
        BY <2>3, <3>2
      <4>2. asks[Len(asks)].at \in Nat
        <5>1. asks[Len(asks)] \in Asks
          BY <4>1, DeviceTimes
        <5> QED
          BY <5>1 DEF Asks
      <4> QED
        BY <1>1, <1>2, <2>2, <2>3, <3>2, <4>1, <4>2, DeviceTimes
    <3> QED
      BY <2>3, <3>1, <3>2
  <2> QED
    BY <2>1, <2>4, <2>5, <2>6 DEF DeviceInv, LoginHeard
<1> QED
  BY <1>3, <1>4

LEMMA DevicePolled == ASSUME DeviceInv, Polled PROVE DeviceInv'
<1>1. login = "asking" /\ UNCHANGED <<clock, deadline, asks, authorised>>
  BY DEF Polled
<1>2. /\ asks # <<>> /\ asks[Len(asks)].at <= clock /\ clock <= asks[Len(asks)].at + Latency /\ wanted = interval
      /\ asks[Len(asks)].at \in Nat
  <2>1. asks # <<>>
    BY <1>1 DEF DeviceInv, Timed
  <2>2. asks[Len(asks)] \in Asks
    BY <2>1, DeviceTimes
  <2> QED
    BY <1>1, <2>2 DEF DeviceInv, Timed, Asks
<1>3. CASE login' \in {"tokens", "denied", "failed"} /\ UNCHANGED <<interval, wakes, wanted>>
  BY <1>1, <1>3 DEF DeviceInv, DeviceTypes, Timed, LoginHeard, BacksOff
<1>4. CASE /\ authorised = 0 \/ authorised >= Last(asks).at
           /\ interval' \in {interval, interval + BackOff} /\ wanted' = interval' /\ Sleep(clock, interval')
  <2>1. login' = "sleeping" /\ wakes' = clock + interval' /\ interval' \in Nat /\ interval' >= 0
    BY <1>4, DeviceTimes DEF Sleep
  <2>2. authorised = 0 \/ authorised >= asks[Len(asks)].at
    BY <1>4 DEF Last
  <2>3. DeviceTypes'
    <3>1. wakes' \in Nat /\ wanted' \in Nat
      BY <1>4, <2>1, DeviceTimes
    <3> QED
      BY <1>1, <2>1, <3>1 DEF DeviceInv, DeviceTypes
  <2>4. Timed'
    <3> DEFINE last == asks[Len(asks)].at
    <3>1. wanted' = interval' /\ login' = "sleeping" /\ asks' = asks /\ clock' = clock /\ authorised' = authorised
      BY <1>1, <1>4, <2>1
    <3>2. last \in Nat /\ last <= clock /\ clock <= last + Latency /\ (authorised = 0 \/ authorised >= last)
      BY <1>2, <2>2
    <3> HIDE DEF last
    <3>3. clock <= wakes' + Latency /\ wakes' >= last + wanted' /\ wakes' <= clock + interval'
      BY <2>1, <3>1, <3>2, DeviceTimes
    <3>4. authorised # 0 => wakes' <= authorised + Latency + interval'
      BY <2>1, <3>2, DeviceTimes
    <3> QED
      BY <3>1, <3>3, <3>4 DEF Timed, last
  <2>5. LoginHeard'
    BY <1>1, <2>1 DEF DeviceInv, LoginHeard, BacksOff
  <2> QED
    BY <2>3, <2>4, <2>5 DEF DeviceInv
<1> QED
  BY <1>2, <1>3, <1>4 DEF Polled, LongerInterval

LEMMA DeviceAnswers == ASSUME DeviceInv, PersonAnswers PROVE DeviceInv'
<1>1. /\ login \in {"sleeping", "asking"} /\ authorised = 0 /\ authorised' \in {0, clock}
      /\ UNCHANGED <<clock, login, interval, deadline, wakes, wanted, asks>>
  BY DEF PersonAnswers
<1>2. DeviceTypes'
  BY <1>1, DeviceTimes DEF DeviceInv, DeviceTypes
<1>3. Timed'
  BY <1>1, DeviceTimes DEF DeviceInv, Timed
<1>4. LoginHeard'
  BY <1>1 DEF DeviceInv, LoginHeard, BacksOff
<1> QED
  BY <1>2, <1>3, <1>4 DEF DeviceInv

LEMMA DeviceTicks == ASSUME DeviceInv, ClockTicks PROVE DeviceInv'
<1>1. /\ login \in {"sleeping", "asking"} /\ clock < Due + Latency /\ clock' = clock + 1
      /\ UNCHANGED <<login, interval, deadline, wakes, wanted, asks, authorised>>
  BY DEF ClockTicks, Polling
<1>2. DeviceTypes'
  BY <1>1, DeviceTimes DEF DeviceInv, DeviceTypes
<1>3. LoginHeard'
  BY <1>1 DEF DeviceInv, LoginHeard, BacksOff
<1>4. CASE login = "sleeping"
  BY <1>1, <1>2, <1>3, <1>4, DeviceTimes DEF DeviceInv, Timed, Due
<1>5. CASE login = "asking"
  <2>1. asks # <<>> /\ clock < asks[Len(asks)].at + Latency
    BY <1>1, <1>5 DEF DeviceInv, Timed, Due, Last
  <2>2. asks[Len(asks)] \in Asks
    BY <2>1, DeviceTimes
  <2>3. asks[Len(asks)].at \in Nat
    BY <2>2 DEF Asks
  <2>4. Timed'
    BY <1>1, <1>5, <2>1, <2>3, DeviceTimes DEF DeviceInv, Timed
  <2> QED
    BY <1>2, <1>3, <2>4 DEF DeviceInv
<1> QED
  BY <1>1, <1>4, <1>5

\* A login that hears nothing waits no longer, and no shorter, than it was told to.
THEOREM DeviceInvariant == DeviceSpec => []DeviceInv
<1>1. DeviceInit => DeviceInv
  BY DEF DeviceInit, DeviceInv, DeviceTypes, Timed, LoginHeard, BacksOff
<1>2. ASSUME DeviceInv, CannotStart \/ LoginInterrupted \/ UNCHANGED deviceVars
      PROVE  DeviceInv'
  <2>1. /\ UNCHANGED <<clock, interval, deadline, wakes, wanted, asks, authorised>>
        /\ login' = login \/ login' \in {"failed", "interrupted"}
    BY <1>2 DEF CannotStart, LoginInterrupted, deviceVars
  <2> QED
    BY <1>2, <2>1 DEF DeviceInv, DeviceTypes, Timed, LoginHeard, BacksOff
<1>3. ASSUME DeviceInv, [DeviceNext]_deviceVars
      PROVE  DeviceInv'
  BY <1>2, <1>3, DeviceStarts, DeviceWakes, DevicePolled, DeviceAnswers, DeviceTicks DEF DeviceNext
<1> QED
  BY <1>1, <1>3, PTL DEF DeviceSpec

\* No poll comes sooner than the provider has asked for (device.go:277-278), and a login that is told
\* nobody authorised it was authorised less than an interval and two late answers before its end.
THEOREM LoginsHeard == DeviceSpec => []LoginHeard
<1>1. DeviceInv => LoginHeard
  BY DEF DeviceInv
<1> QED
  BY <1>1, DeviceInvariant, PTL

-----------------------------------------------------------------------------
(* Contract.  The two maps hold the conditions read so far, and no two that *)
(* could not both apply, but for an equality and a range of one name.       *)

QuerySpec == QueryInit /\ [][QueryNext]_queryVars

NamesOf(es) == {e.name : e \in es}
ConditionsOf(es, n) == {Condition(e) : e \in {x \in es : x.name = n}}
FilterOf(es) == [n \in NamesOf(es) |-> ConditionsOf(es, n)]

Equalities == {e \in ToSet(typed) : e.op \notin RangeOps}
Bounds == {e \in ToSet(typed) : e.op \in RangeOps}

ReadWell ==
    /\ \A e \in ToSet(typed) : WellFormed(e)
    /\ \A i, j \in DOMAIN typed :
        i # j /\ typed[i].name = typed[j].name
            => (typed[i].op \in RangeOps \/ typed[j].op \in RangeOps) /\ typed[i].op # typed[j].op
    /\ out = FilterOf(Equalities) /\ ranges = FilterOf(Bounds)

QueryInv ==
    /\ typed \in Seq(Typed)
    /\ verdict = "fetching" => typed = <<>> /\ out = NoNames /\ ranges = NoNames
    /\ verdict = "reading" => ReadWell
    /\ FilterMeansIt

\* A condition joins the filter of those before it.
LEMMA Joins == ASSUME NEW es, NEW e PROVE With(FilterOf(es), e) = FilterOf(es \cup {e})
<1> DEFINE map == FilterOf(es)
<1>1. DOMAIN map = NamesOf(es) /\ \A n \in NamesOf(es) : map[n] = ConditionsOf(es, n)
  BY DEF FilterOf
<1>2. \A n : n \notin NamesOf(es) => ConditionsOf(es, n) = {}
  BY DEF NamesOf, ConditionsOf
<1> HIDE DEF map
<1>3. \A n : Of(map, n) = ConditionsOf(es, n)
  BY <1>1, <1>2 DEF Of
<1>4. NamesOf(es) \cup {e.name} = NamesOf(es \cup {e})
  BY DEF NamesOf
<1>5. ASSUME NEW n
      PROVE  ConditionsOf(es, n) \cup (IF n = e.name THEN {Condition(e)} ELSE {}) = ConditionsOf(es \cup {e}, n)
  BY DEF ConditionsOf
<1>6. With(map, e) = [n \in NamesOf(es \cup {e}) |-> Of(map, n) \cup IF n = e.name THEN {Condition(e)} ELSE {}]
  BY <1>1, <1>4 DEF With
<1>7. With(map, e) = [n \in NamesOf(es \cup {e}) |-> ConditionsOf(es \cup {e}, n)]
  BY <1>3, <1>5, <1>6
<1> QED
  BY <1>7 DEF map, FilterOf

LEMMA TypedMore ==
  ASSUME typed \in Seq(Typed), NEW e \in Typed, typed' = Append(typed, e)
  PROVE  /\ typed' \in Seq(Typed) /\ ToSet(typed') = ToSet(typed) \cup {e} /\ Len(typed) \in Nat
         /\ DOMAIN typed = 1..Len(typed) /\ DOMAIN typed' = 1..(Len(typed) + 1)
         /\ typed'[Len(typed) + 1] = e /\ \A i \in DOMAIN typed : typed'[i] = typed[i]
<1>1. /\ typed' \in Seq(Typed) /\ Len(typed) \in Nat
      /\ DOMAIN typed = 1..Len(typed) /\ DOMAIN typed' = 1..(Len(typed) + 1)
      /\ typed'[Len(typed) + 1] = e /\ \A i \in DOMAIN typed : typed'[i] = typed[i]
  OBVIOUS
<1>2. ToSet(typed') = ToSet(typed) \cup {e}
  <2>1. ASSUME NEW x \in ToSet(typed')
        PROVE  x \in ToSet(typed) \cup {e}
    <3>1. PICK i \in DOMAIN typed' : x = typed'[i]
      BY <2>1 DEF ToSet
    <3>2. i \in DOMAIN typed \/ i = Len(typed) + 1
      BY <1>1
    <3> QED
      BY <1>1, <3>1, <3>2 DEF ToSet
  <2>2. ASSUME NEW x \in ToSet(typed)
        PROVE  x \in ToSet(typed')
    <3>1. PICK i \in DOMAIN typed : x = typed[i]
      BY <2>2 DEF ToSet
    <3>2. i \in DOMAIN typed' /\ typed'[i] = x
      BY <1>1, <3>1
    <3> QED
      BY <3>2 DEF ToSet
  <2>3. e \in ToSet(typed')
    <3>1. Len(typed) + 1 \in DOMAIN typed' /\ typed'[Len(typed) + 1] = e
      BY <1>1
    <3> QED
      BY <3>1 DEF ToSet
  <2> QED
    BY <2>1, <2>2, <2>3
<1> QED
  BY <1>1, <1>2

LEMMA QueryReads == ASSUME QueryInv, NEW e \in Typed, ReadsExpr(e) PROVE QueryInv'
<1>1. verdict = "reading" /\ typed' = Append(typed, e) /\ resource' = resource /\ ReadWell /\ typed \in Seq(Typed)
  BY DEF ReadsExpr, QueryInv
<1>2. /\ typed' \in Seq(Typed) /\ ToSet(typed') = ToSet(typed) \cup {e} /\ Len(typed) \in Nat
      /\ DOMAIN typed = 1..Len(typed) /\ DOMAIN typed' = 1..(Len(typed) + 1)
      /\ typed'[Len(typed) + 1] = e /\ \A i \in DOMAIN typed : typed'[i] = typed[i]
  BY <1>1, TypedMore
<1>3. \A x : WellFormed(x)' <=> WellFormed(x)
  BY <1>1 DEF WellFormed
<1>4. Twice(e) <=> \E i \in DOMAIN typed :
                     /\ typed[i].name = e.name
                     /\ IF e.op \in RangeOps THEN typed[i].op = e.op ELSE typed[i].op \notin RangeOps
  <2>1. \A n : Of(ranges, n) = ConditionsOf(Bounds, n)
    BY <1>1 DEF ReadWell, Of, FilterOf, NamesOf, ConditionsOf
  <2>2. DOMAIN out = NamesOf(Equalities)
    BY <1>1 DEF ReadWell, FilterOf
  <2>3. ASSUME e.op \in RangeOps
        PROVE  Twice(e) <=> \E x \in ToSet(typed) : x.name = e.name /\ x.op = e.op
    <3>1. Twice(e) <=> \E b \in ConditionsOf(Bounds, e.name) : b.op = e.op
      BY <2>1, <2>3 DEF Twice
    <3>2. (\E b \in ConditionsOf(Bounds, e.name) : b.op = e.op) <=> \E x \in Bounds : x.name = e.name /\ x.op = e.op
      <4>1. \A x : Condition(x).op = x.op
        BY DEF Condition
      <4>2. \A b : b \in ConditionsOf(Bounds, e.name) <=> \E x \in Bounds : x.name = e.name /\ b = Condition(x)
        BY DEF ConditionsOf
      <4> QED
        BY <4>1, <4>2
    <3> QED
      BY <2>3, <3>1, <3>2 DEF Bounds
  <2>4. ASSUME e.op \notin RangeOps
        PROVE  Twice(e) <=> \E x \in ToSet(typed) : x.name = e.name /\ x.op \notin RangeOps
    BY <2>2, <2>4 DEF Twice, NamesOf, Equalities
  <2> QED
    BY <2>3, <2>4 DEF ToSet
<1>5. CASE ~WellFormed(e) \/ Twice(e)
  <2>1. verdict' = "malformed"
    BY <1>5 DEF ReadsExpr
  <2>2. Twice(e) => ~Mergeable'
    <3> SUFFICES ASSUME Twice(e) PROVE ~Mergeable'
      OBVIOUS
    <3>1. PICK i \in DOMAIN typed :
                /\ typed[i].name = e.name
                /\ IF e.op \in RangeOps THEN typed[i].op = e.op ELSE typed[i].op \notin RangeOps
      BY <1>4
    <3>2. /\ i \in DOMAIN typed' /\ Len(typed) + 1 \in DOMAIN typed' /\ i # Len(typed) + 1
          /\ typed'[i] = typed[i] /\ typed'[Len(typed) + 1] = e
      BY <1>2
    <3> QED
      BY <3>1, <3>2 DEF Mergeable
  <2>3. e \in ToSet(typed')
    BY <1>2
  <2>4. FilterMeansIt'
    BY <1>3, <1>5, <2>1, <2>2, <2>3 DEF FilterMeansIt
  <2> QED
    BY <1>2, <2>1, <2>4 DEF QueryInv
<1>6. CASE WellFormed(e) /\ ~Twice(e)
  <2>1. /\ verdict' = "reading"
        /\ IF e.op \in RangeOps THEN ranges' = With(ranges, e) /\ UNCHANGED out
           ELSE out' = With(out, e) /\ UNCHANGED ranges
    BY <1>1, <1>6 DEF ReadsExpr
  <2>2. \A x \in ToSet(typed') : WellFormed(x)'
    BY <1>1, <1>2, <1>3, <1>6 DEF ReadWell
  <2>3. ASSUME NEW i \in DOMAIN typed', NEW j \in DOMAIN typed', i # j, typed'[i].name = typed'[j].name
        PROVE  (typed'[i].op \in RangeOps \/ typed'[j].op \in RangeOps) /\ typed'[i].op # typed'[j].op
    <3>1. \A k \in DOMAIN typed : typed[k].name = e.name =>
              (typed[k].op \in RangeOps \/ e.op \in RangeOps) /\ typed[k].op # e.op
      BY <1>4, <1>6
    <3>2. CASE i \in DOMAIN typed /\ j \in DOMAIN typed
      BY <1>1, <1>2, <2>3, <3>2 DEF ReadWell
    <3>3. CASE i = Len(typed) + 1 /\ j \in DOMAIN typed
      BY <1>2, <2>3, <3>1, <3>3
    <3>4. CASE j = Len(typed) + 1 /\ i \in DOMAIN typed
      BY <1>2, <2>3, <3>1, <3>4
    <3> QED
      BY <1>2, <2>3, <3>2, <3>3, <3>4
  <2>4. out' = FilterOf(Equalities') /\ ranges' = FilterOf(Bounds')
    <3>1. CASE e.op \in RangeOps
      <4>1. Equalities' = Equalities /\ Bounds' = Bounds \cup {e}
        BY <1>2, <3>1 DEF Equalities, Bounds, RangeOps
      <4> QED
        BY <1>1, <2>1, <3>1, <4>1, Joins DEF ReadWell
    <3>2. CASE e.op \notin RangeOps
      <4>1. Bounds' = Bounds /\ Equalities' = Equalities \cup {e}
        BY <1>2, <3>2 DEF Equalities, Bounds, RangeOps
      <4> QED
        BY <1>1, <2>1, <3>2, <4>1, Joins DEF ReadWell
    <3> QED
      BY <3>1, <3>2
  <2>5. ReadWell'
    BY <2>2, <2>3, <2>4 DEF ReadWell
  <2> QED
    BY <1>2, <2>1, <2>5 DEF QueryInv, FilterMeansIt
<1> QED
  BY <1>5, <1>6

LEMMA QueryAllRead == ASSUME QueryInv, AllRead PROVE QueryInv'
<1>1. /\ verdict = "reading" /\ ReadWell /\ typed \in Seq(Typed) /\ UNCHANGED <<resource, typed>>
      /\ IF Conflict THEN verdict' = "malformed" /\ UNCHANGED out
         ELSE /\ verdict' = "filter"
              /\ out' = [n \in DOMAIN out \cup DOMAIN ranges |-> IF n \in DOMAIN ranges THEN ranges[n] ELSE out[n]]
  BY DEF AllRead, QueryInv
<1>2. /\ DOMAIN out = NamesOf(Equalities) /\ DOMAIN ranges = NamesOf(Bounds)
      /\ \A n \in NamesOf(Equalities) : out[n] = ConditionsOf(Equalities, n)
      /\ \A n \in NamesOf(Bounds) : ranges[n] = ConditionsOf(Bounds, n)
  BY <1>1 DEF ReadWell, FilterOf
<1>3. \A x \in ToSet(typed) : \E i \in DOMAIN typed : typed[i] = x
  BY DEF ToSet
<1>4. CASE Conflict
  <2>1. PICK x \in Equalities, y \in Bounds : x.name = y.name
    BY <1>2, <1>4 DEF Conflict, NamesOf
  <2>2. PICK i \in DOMAIN typed, j \in DOMAIN typed : typed[i] = x /\ typed[j] = y
    BY <1>3 DEF Equalities, Bounds
  <2>3. i # j /\ typed[i].op \notin RangeOps
    BY <2>2 DEF Equalities, Bounds
  <2>4. ~Mergeable'
    BY <1>1, <2>1, <2>2, <2>3 DEF Mergeable
  <2> QED
    BY <1>1, <1>4, <2>4 DEF QueryInv, FilterMeansIt
<1>5. CASE ~Conflict
  <2>1. /\ verdict' = "filter"
        /\ out' = [n \in NamesOf(Equalities) \cup NamesOf(Bounds) |->
                      IF n \in NamesOf(Bounds) THEN ConditionsOf(Bounds, n) ELSE ConditionsOf(Equalities, n)]
    BY <1>1, <1>2, <1>5
  <2>2. NamesOf(Equalities) \cap NamesOf(Bounds) = {}
    BY <1>2, <1>5 DEF Conflict
  <2>3. NamesOf(Equalities) \cup NamesOf(Bounds) = NamesOf(ToSet(typed))
    BY DEF NamesOf, Equalities, Bounds
  <2>4. ASSUME NEW n \in NamesOf(ToSet(typed))
        PROVE  ConditionsOf(ToSet(typed), n)
                 = IF n \in NamesOf(Bounds) THEN ConditionsOf(Bounds, n) ELSE ConditionsOf(Equalities, n)
    <3>1. ConditionsOf(ToSet(typed), n) = ConditionsOf(Bounds, n) \cup ConditionsOf(Equalities, n)
      BY DEF ConditionsOf, Equalities, Bounds
    <3>2. n \notin NamesOf(Bounds) => ConditionsOf(Bounds, n) = {}
      BY DEF ConditionsOf, NamesOf
    <3>3. n \notin NamesOf(Equalities) => ConditionsOf(Equalities, n) = {}
      BY DEF ConditionsOf, NamesOf
    <3> QED
      BY <2>2, <3>1, <3>2, <3>3
  <2>5. out' = [n \in NamesOf(ToSet(typed)) |-> ConditionsOf(ToSet(typed), n)]
    BY <2>1, <2>3, <2>4
  <2>6. Mergeable'
    <3> SUFFICES ASSUME NEW i \in DOMAIN typed, NEW j \in DOMAIN typed, i # j, typed[i].name = typed[j].name
                 PROVE  typed[i].op \in RangeOps /\ typed[j].op \in RangeOps /\ typed[i].op # typed[j].op
      BY <1>1 DEF Mergeable
    <3>1. (typed[i].op \in RangeOps \/ typed[j].op \in RangeOps) /\ typed[i].op # typed[j].op
      BY <1>1 DEF ReadWell
    <3>2. typed[i] \in ToSet(typed) /\ typed[j] \in ToSet(typed)
      BY DEF ToSet
    <3>3. typed[i].op \in RangeOps <=> typed[j].op \in RangeOps
      BY <2>2, <3>2 DEF NamesOf, Equalities, Bounds
    <3> QED
      BY <3>1, <3>3
  <2>7. \A x \in ToSet(typed') : WellFormed(x)'
    BY <1>1 DEF ReadWell, WellFormed
  <2> QED
    BY <1>1, <2>1, <2>5, <2>6, <2>7 DEF QueryInv, FilterMeansIt, NamesOf, ConditionsOf
<1> QED
  BY <1>4, <1>5

LEMMA QueryFetches ==
  ASSUME QueryInv, NEW plane, NEW entity, FetchContract(plane, entity)
  PROVE  QueryInv'
<1>1. /\ verdict = "fetching" /\ verdict' \in {"reading", "unknown"} /\ UNCHANGED <<typed, out, ranges>>
      /\ typed = <<>> /\ out = NoNames /\ ranges = NoNames
  BY DEF FetchContract, Unchecked, UnknownResource, Starts, QueryInv
<1>2. ToSet(typed) = {} /\ DOMAIN typed = {}
  BY <1>1 DEF ToSet
<1>3. Equalities' = {} /\ Bounds' = {} /\ ToSet(typed') = {} /\ DOMAIN typed' = {}
  BY <1>1, <1>2 DEF Equalities, Bounds
<1>4. FilterOf({}) = NoNames
  BY DEF FilterOf, NamesOf, NoNames
<1>5. ReadWell'
  BY <1>1, <1>3, <1>4 DEF ReadWell
<1> QED
  BY <1>1, <1>5 DEF QueryInv, FilterMeansIt

LEMMA QueryRests == ASSUME QueryInv, Checks \/ UNCHANGED queryVars PROVE QueryInv'
<1>1. CASE Checks
  <2>1. verdict = "filter" /\ verdict' \in {"refused", "sent"} /\ UNCHANGED <<resource, typed, out, ranges>>
    BY <1>1 DEF Checks
  <2>2. FilterMeansIt'
    BY <2>1 DEF QueryInv, FilterMeansIt, Mergeable, WellFormed
  <2> QED
    BY <2>1, <2>2 DEF QueryInv
<1>2. CASE UNCHANGED queryVars
  <2>1. UNCHANGED <<checked, resource, typed, out, ranges, verdict>>
    BY <1>2 DEF queryVars
  <2>2. FilterMeansIt'
    BY <2>1 DEF QueryInv, FilterMeansIt, Mergeable, WellFormed
  <2>3. verdict' = "reading" => ReadWell'
    BY <2>1 DEF QueryInv, ReadWell, WellFormed, Equalities, Bounds
  <2> QED
    BY <2>1, <2>2, <2>3 DEF QueryInv
<1> QED
  BY <1>1, <1>2

\* Whatever is typed, in whatever order, the two maps hold what was read.
THEOREM QueryInvariant == QuerySpec => []QueryInv
<1>1. QueryInit => QueryInv
  BY DEF QueryInit, QueryInv, FilterMeansIt
<1>2. ASSUME QueryInv, [QueryNext]_queryVars
      PROVE  QueryInv'
  BY <1>2, QueryReads, QueryAllRead, QueryFetches, QueryRests DEF QueryNext
<1> QED
  BY <1>1, <1>2, PTL DEF QuerySpec

\* Every condition typed is in the filter and nothing else is (filter.go:28), and a command line is
\* refused as malformed only if it is.
THEOREM FiltersMeanIt == QuerySpec => []FilterMeansIt
<1>1. QueryInv => FilterMeansIt
  BY DEF QueryInv
<1> QED
  BY <1>1, QueryInvariant, PTL

-----------------------------------------------------------------------------
(* Folders.  What was listed are the lists of the folders that were opened; *)
(* that they lead everywhere is shown of the least folder they do not.      *)

FoldersSpec == FoldersInit /\ [][FoldersNext]_folderVars

\* What the module answers whom is settled before anything is listed.
Rights ==
    /\ caller \in {"admin", "older", "person"}
    /\ placed \in [Filed -> AllFolders] /\ mayRead \subseteq Filed /\ mayList \subseteq Exists
    /\ caller = "admin" => mayRead = Filed /\ mayList = Exists
    /\ caller = "older" => Root \notin mayList /\ mayRead = {d \in Filed : placed[d] \in mayList}
    /\ caller = "person" => mayList = {}

FoldersInv == Rights /\ opened \subseteq AllFolders /\ entries = UNION {Ls(f) : f \in opened}

Less == {p \in Nat \X Nat : p[1] < p[2]}

\* A set of numbers has a least one.
LEMMA LeastNumber == ASSUME NEW T \in SUBSET Nat, T # {} PROVE \E x \in T : \A y \in T : x <= y
<1>1. IsWellFoundedOn(Less, Nat)
  BY NatLessThanWellFounded DEF OpToRel, Less
<1>2. PICK x \in T : \A y \in T : ~(<<y, x>> \in Less)
  BY <1>1, WFMin
<1>3. ASSUME NEW y \in T
      PROVE  x <= y
  <2>1. y \in Nat /\ x \in Nat /\ <<y, x>> \notin Less
    BY <1>2
  <2>2. ~(y < x)
    BY <2>1 DEF Less
  <2> QED
    BY <2>1, <2>2
<1> QED
  BY <1>3

\* The folder so many names down a path.
Up(p, n) == SubSeq(p, 1, n)

LEMMA FolderPaths == \A p : p \in AllFolders <=> p \in Seq(FolderNames) /\ Len(p) <= Depth
<1>1. ASSUME NEW p \in AllFolders
      PROVE  p \in Seq(FolderNames) /\ Len(p) <= Depth
  <2>1. PICK m \in 0..Depth : p \in [1..m -> FolderNames]
    BY DEF AllFolders, SeqOf
  <2> QED
    BY <2>1, FolderAssumption
<1>2. ASSUME NEW p \in Seq(FolderNames), Len(p) <= Depth
      PROVE  p \in AllFolders
  <2>1. p \in [1..Len(p) -> FolderNames] /\ Len(p) \in 0..Depth
    BY <1>2, FolderAssumption
  <2> QED
    BY <2>1 DEF AllFolders, SeqOf
<1> QED
  BY <1>1, <1>2

LEMMA PathsUp ==
  ASSUME NEW p \in AllFolders, NEW n \in 0..Len(p)
  PROVE  /\ Up(p, n) \in AllFolders /\ Len(Up(p, n)) = n /\ Up(p, Len(p)) = p /\ (Up(p, n) = Root <=> n = 0)
         /\ IsPrefix(Up(p, n), p) /\ \A m \in 0..n : Up(Up(p, n), m) = Up(p, m)
<1>1. p \in Seq(FolderNames) /\ Len(p) \in Nat /\ Len(p) <= Depth
  BY FolderPaths
<1>2. /\ Up(p, n) \in Seq(FolderNames) /\ Len(Up(p, n)) = n /\ \A i \in 1..n : Up(p, n)[i] = p[i]
  BY <1>1 DEF Up
<1>3. Up(p, n) \in AllFolders
  BY <1>1, <1>2, FolderPaths, FolderAssumption
<1>4. Up(p, Len(p)) = p
  BY <1>1 DEF Up
<1>5. \A m \in 0..n : Up(Up(p, n), m) = Up(p, m)
  <2> SUFFICES ASSUME NEW m \in 0..n
               PROVE  Up(Up(p, n), m) = Up(p, m)
    OBVIOUS
  <2>1. /\ Up(p, m) \in Seq(FolderNames) /\ Len(Up(p, m)) = m /\ \A i \in 1..m : Up(p, m)[i] = p[i]
    BY <1>1 DEF Up
  <2> DEFINE u == Up(p, n)
  <2>2. u \in Seq(FolderNames) /\ Len(u) = n /\ \A i \in 1..n : u[i] = p[i]
    BY <1>2
  <2> HIDE DEF u
  <2>3. /\ Up(u, m) \in Seq(FolderNames) /\ Len(Up(u, m)) = m /\ \A i \in 1..m : Up(u, m)[i] = u[i]
    BY <2>2 DEF Up
  <2>4. \A i \in 1..m : Up(u, m)[i] = Up(p, m)[i]
    BY <2>1, <2>2, <2>3
  <2>5. Up(u, m) = Up(p, m)
    BY <2>1, <2>3, <2>4
  <2> QED
    BY <2>5 DEF u
<1>6. Up(p, n) = Root <=> n = 0
  BY <1>2 DEF Root
<1>7. IsPrefix(Up(p, n), p)
  BY <1>1, <1>2, <1>5 DEF IsPrefix, Up
<1> QED
  BY <1>2, <1>3, <1>4, <1>5, <1>6, <1>7

LEMMA PrefixIsUp ==
  ASSUME NEW f \in AllFolders, NEW p \in AllFolders, IsPrefix(f, p)
  PROVE  Len(f) \in 0..Len(p) /\ f = Up(p, Len(f))
<1>1. f \in Seq(FolderNames) /\ p \in Seq(FolderNames)
  BY FolderPaths
<1>2. Len(f) <= Len(p) /\ SubSeq(f, 1, Len(f)) = SubSeq(p, 1, Len(f))
  BY DEF IsPrefix
<1>3. SubSeq(f, 1, Len(f)) = f
  BY <1>1
<1> QED
  BY <1>1, <1>2, <1>3 DEF Up

LEMMA ParentIsUp ==
  ASSUME NEW f \in AllFolders, f # Root
  PROVE  Len(f) - 1 \in 0..Len(f) /\ Parent(f) = Up(f, Len(f) - 1)
<1>1. f \in Seq(FolderNames) /\ f # <<>>
  BY FolderPaths DEF Root
<1> QED
  BY <1>1 DEF Parent, Front, Up

LEMMA RootExists == ASSUME Rights PROVE Root \in Exists
<1>1. <<>> \in Seq(FolderNames) /\ Len(<<>>) <= Depth
  BY FolderAssumption
<1> QED
  BY <1>1, FolderPaths DEF Exists, Root

LEMMA HolderExists ==
  ASSUME Rights, NEW d \in Filed, NEW n \in 0..Len(placed[d])
  PROVE  placed[d] \in AllFolders /\ Up(placed[d], n) \in Exists
<1>1. placed[d] \in AllFolders
  BY DEF Rights
<1> QED
  BY <1>1, PathsUp DEF Exists

\* A folder has its parent.
LEMMA ParentExists ==
  ASSUME Rights, NEW g \in Exists, g # Root
  PROVE  Parent(g) \in Exists /\ Len(Parent(g)) = Len(g) - 1 /\ Len(g) \in Nat \ {0}
<1>1. g \in AllFolders
  BY DEF Exists
<1>2. PICK d \in Filed : IsPrefix(g, placed[d])
  BY DEF Exists
<1>3. placed[d] \in AllFolders
  BY DEF Rights
<1>4. Len(g) \in 0..Len(placed[d]) /\ g = Up(placed[d], Len(g))
  BY <1>1, <1>2, <1>3, PrefixIsUp
<1>5. Len(g) - 1 \in 0..Len(g) /\ Parent(g) = Up(g, Len(g) - 1) /\ Len(placed[d]) \in Nat
  BY <1>1, <1>3, ParentIsUp, FolderPaths
<1> DEFINE n == Len(g)
<1>6. n \in 0..Len(placed[d]) /\ n - 1 \in 0..n /\ n - 1 \in 0..Len(placed[d])
  BY <1>4, <1>5
<1>7. Up(Up(placed[d], n), n - 1) = Up(placed[d], n - 1) /\ Len(Up(placed[d], n - 1)) = n - 1
  BY <1>3, <1>6, PathsUp
<1>8. Parent(g) = Up(placed[d], n - 1)
  BY <1>4, <1>5, <1>7
<1>9. n \in Nat \ {0}
  BY <1>6
<1> QED
  BY <1>6, <1>7, <1>8, <1>9, HolderExists

\* What a list shows.
Folder(g) == [at |-> g, doc |-> NoDocument]

LEMMA Entry ==
  /\ \A fs, e : e \in FolderEntries(fs) <=> \E g \in fs : e = Folder(g)
  /\ \A ds, e : e \in DocumentEntries(ds) <=> \E d \in ds : e = [at |-> placed[d], doc |-> d]
  /\ \A g : Folder(g).at = g /\ Folder(g).doc = NoDocument
BY DEF FolderEntries, DocumentEntries, Folder

LEMMA LsSound ==
  ASSUME Rights, NEW f \in AllFolders, NEW e \in Ls(f)
  PROVE  \/ e.doc = NoDocument /\ e.at \in Exists
         \/ e.doc \in mayRead /\ e.doc # NoDocument
<1>1. \A d \in mayRead : d \in Filed /\ d # NoDocument /\ d \in Nat
  BY FolderAssumption DEF Rights, NoDocument
<1>2. mayList \subseteq Exists
  BY DEF Rights
<1>3. PICK fs, ds : e \in FolderEntries(fs) \cup DocumentEntries(ds) /\ fs \subseteq Exists /\ ds \subseteq mayRead
  <2>1. CASE FoldersRefused
    <3> DEFINE fs == {SubSeq(placed[d], 1, Len(f) + 1) : d \in {d \in Under(f) : placed[d] # f}}
               ds == {d \in Under(f) : placed[d] = f}
    <3>1. e \in FolderEntries(fs) \cup DocumentEntries(ds)
      BY <2>1 DEF Ls, EntriesUnder
    <3>2. ds \subseteq mayRead
      BY DEF Under
    <3>3. ASSUME NEW d \in Under(f), placed[d] # f
          PROVE  SubSeq(placed[d], 1, Len(f) + 1) \in Exists
      <4>1. d \in Filed /\ IsPrefix(f, placed[d]) /\ placed[d] \in AllFolders
        BY <1>1 DEF Under, Rights
      <4>2. Len(f) \in 0..Len(placed[d]) /\ f = Up(placed[d], Len(f))
        BY <4>1, PrefixIsUp
      <4>3. Len(placed[d]) \in Nat /\ Up(placed[d], Len(placed[d])) = placed[d]
        BY <4>1, FolderPaths, PathsUp
      <4>4. Len(f) # Len(placed[d])
        BY <3>3, <4>2, <4>3
      <4>5. Len(f) + 1 \in 0..Len(placed[d])
        BY <4>2, <4>3, <4>4
      <4> QED
        BY <4>1, <4>5, HolderExists DEF Up
    <3>4. fs \subseteq Exists
      BY <3>3
    <3> QED
      BY <3>1, <3>2, <3>4
  <2>2. CASE ~FoldersRefused /\ ResolveFolder(f) # {}
    <3>1. e \in FolderEntries({g \in mayList \ {Root} : Parent(g) = f}) \cup DocumentEntries({d \in mayRead : placed[d] = f})
      BY <2>2 DEF Ls, Children
    <3> QED
      BY <1>2, <3>1
  <2>3. CASE ~FoldersRefused /\ ResolveFolder(f) = {}
    <3>1. e \in FolderEntries(TopmostFolders(mayList))
      BY <2>3 DEF Ls
    <3>2. TopmostFolders(mayList) \subseteq Exists
      BY <1>2 DEF TopmostFolders
    <3> QED
      BY <3>1, <3>2
  <2> QED
    BY <2>1, <2>2, <2>3
<1>4. CASE e \in FolderEntries(fs)
  BY <1>3, <1>4, Entry
<1>5. CASE e \in DocumentEntries(ds)
  <2>1. PICK d \in ds : e = [at |-> placed[d], doc |-> d]
    BY <1>5, Entry
  <2> QED
    BY <1>1, <1>3, <2>1
<1> QED
  BY <1>3, <1>4, <1>5

\* A folder that is listed is shown by its parent, or is among the topmost.
LEMMA ListedShown ==
  ASSUME Rights, caller # "person", NEW g \in mayList, g # Root
  PROVE  /\ Parent(g) \in mayList => Folder(g) \in Ls(Parent(g))
         /\ Parent(g) \notin mayList => caller = "older" /\ Folder(g) \in Ls(Root)
<1>1. ~FoldersRefused /\ g \in Exists
  BY DEF FoldersRefused, Rights
<1>2. ASSUME Parent(g) \in mayList
      PROVE  Folder(g) \in Ls(Parent(g))
  <2>1. ResolveFolder(Parent(g)) # {}
    BY <1>2 DEF ResolveFolder
  <2>2. Ls(Parent(g)) = Children(Parent(g))
    BY <1>1, <2>1 DEF Ls
  <2> QED
    BY <2>2, Entry DEF Children
<1>3. ASSUME Parent(g) \notin mayList
      PROVE  caller = "older" /\ Folder(g) \in Ls(Root)
  <2>1. caller = "older"
    BY <1>1, <1>3, ParentExists DEF Rights
  <2>2. ResolveFolder(Root) = {}
    BY <2>1 DEF ResolveFolder, Rights
  <2>3. Ls(Root) = FolderEntries(TopmostFolders(mayList))
    BY <1>1, <2>2 DEF Ls
  <2> QED
    BY <1>3, <2>1, <2>3, Entry DEF TopmostFolders
<1> QED
  BY <1>2, <1>3

\* A document is shown in its own folder, and the way to it in each folder above.
LEMMA WayShown ==
  ASSUME Rights, caller = "person", NEW d \in mayRead, NEW n \in 0..(Len(placed[d]) - 1)
  PROVE  Folder(Up(placed[d], n + 1)) \in Ls(Up(placed[d], n))
<1>1. d \in Filed /\ placed[d] \in AllFolders
  BY DEF Rights
<1>2. Len(placed[d]) \in Nat
  BY <1>1, FolderPaths
<1>3. n \in 0..Len(placed[d]) /\ n # Len(placed[d])
  BY <1>2
<1> DEFINE u == Up(placed[d], n)
<1>4. Len(u) = n /\ IsPrefix(u, placed[d]) /\ u # placed[d]
  BY <1>1, <1>3, PathsUp
<1> HIDE DEF u
<1>5. d \in {x \in Under(u) : placed[x] # u}
  BY <1>4 DEF Under
<1>6. SubSeq(placed[d], 1, Len(u) + 1) = Up(placed[d], n + 1)
  BY <1>4 DEF Up
<1>7. Folder(Up(placed[d], n + 1)) \in EntriesUnder(u)
  BY <1>5, <1>6, Entry DEF EntriesUnder
<1>8. Ls(u) = EntriesUnder(u)
  BY DEF Ls, FoldersRefused
<1> QED
  BY <1>7, <1>8 DEF u

LEMMA DocumentShown ==
  ASSUME Rights, NEW d \in mayRead
  PROVE  \E e \in Ls(placed[d]) : e.doc = d /\ d # NoDocument
<1>1. d \in Filed /\ placed[d] \in AllFolders /\ d # NoDocument
  BY FolderAssumption DEF Rights, NoDocument
<1>2. Len(placed[d]) \in Nat
  BY <1>1, FolderPaths
<1>3. IsPrefix(placed[d], placed[d]) /\ placed[d] \in Exists
  <2>1. Len(placed[d]) \in 0..Len(placed[d])
    BY <1>2
  <2>2. Up(placed[d], Len(placed[d])) = placed[d] /\ IsPrefix(Up(placed[d], Len(placed[d])), placed[d])
    BY <1>1, <2>1, PathsUp
  <2> QED
    BY <1>1, <2>1, <2>2, HolderExists
<1> DEFINE e == [at |-> placed[d], doc |-> d]
<1>4. CASE FoldersRefused
  <2>1. d \in {x \in Under(placed[d]) : placed[x] = placed[d]}
    BY <1>3 DEF Under
  <2>2. e \in EntriesUnder(placed[d])
    BY <2>1, Entry DEF EntriesUnder
  <2> QED
    BY <1>1, <1>4, <2>2 DEF Ls
<1>5. CASE ~FoldersRefused
  <2>1. placed[d] \in mayList
    BY <1>3, <1>5 DEF Rights, FoldersRefused
  <2>2. Ls(placed[d]) = Children(placed[d])
    BY <1>5, <2>1 DEF Ls, ResolveFolder
  <2>3. e \in Children(placed[d])
    BY Entry DEF Children
  <2> QED
    BY <1>1, <2>2, <2>3
<1> QED
  BY <1>4, <1>5

\* Whoever has opened every folder that was shown has opened every one that holds what they read.
LEMMA AllOpened ==
  ASSUME FoldersInv, {Root} \cup ShownFolders \subseteq opened, NEW d \in mayRead
  PROVE  placed[d] \in opened
<1>1. Rights /\ Root \in opened /\ opened \subseteq AllFolders
  BY DEF FoldersInv
<1>2. d \in Filed /\ placed[d] \in AllFolders
  BY <1>1 DEF Rights
<1>3. ASSUME NEW f \in opened, NEW g, Folder(g) \in Ls(f)
      PROVE  g \in opened
  <2>1. Folder(g) \in entries
    BY <1>3 DEF FoldersInv
  <2>2. g \in ShownFolders
    BY <2>1, Entry DEF ShownFolders
  <2> QED
    BY <2>2
<1>4. CASE caller # "person"
  <2> DEFINE T == {Len(g) : g \in mayList \ opened}
  <2>1. mayList \subseteq opened
    <3> SUFFICES ASSUME mayList \ opened # {} PROVE FALSE
      OBVIOUS
    <3>1. mayList \subseteq Exists /\ Exists \subseteq AllFolders
      BY <1>1 DEF Rights, Exists
    <3>2. \A g \in mayList : Len(g) \in Nat
      BY <3>1, FolderPaths
    <3>3. T \in SUBSET Nat /\ T # {}
      BY <3>2
    <3> HIDE DEF T
    <3>4. PICK n \in T : \A m \in T : n <= m
      BY <3>3, LeastNumber
    <3>5. PICK g \in mayList \ opened : Len(g) = n
      BY DEF T
    <3>6. g # Root /\ g \in Exists
      BY <1>1, <3>1, <3>5
    <3>7. Len(Parent(g)) = Len(g) - 1 /\ Len(g) \in Nat
      BY <1>1, <3>6, ParentExists
    <3>8. CASE Parent(g) \in mayList
      <4>1. Parent(g) \in opened
        BY <3>4, <3>5, <3>7, <3>8 DEF T
      <4>2. Folder(g) \in Ls(Parent(g))
        BY <1>1, <1>4, <3>5, <3>6, <3>8, ListedShown
      <4> QED
        BY <1>3, <3>5, <4>1, <4>2
    <3>9. CASE Parent(g) \notin mayList
      <4>1. Folder(g) \in Ls(Root)
        BY <1>1, <1>4, <3>5, <3>6, <3>9, ListedShown
      <4> QED
        BY <1>1, <1>3, <3>5, <4>1
    <3> QED
      BY <3>8, <3>9
  <2>2. placed[d] \in mayList
    <3>1. Len(placed[d]) \in 0..Len(placed[d]) /\ Up(placed[d], Len(placed[d])) = placed[d]
      <4>1. Len(placed[d]) \in Nat
        BY <1>2, FolderPaths
      <4>2. Len(placed[d]) \in 0..Len(placed[d])
        BY <4>1
      <4> QED
        BY <1>2, <4>2, PathsUp
    <3>2. placed[d] \in Exists
      BY <1>1, <1>2, <3>1, HolderExists
    <3> QED
      BY <1>1, <1>4, <3>2 DEF Rights
  <2> QED
    BY <2>1, <2>2
<1>5. CASE caller = "person"
  <2> DEFINE p == placed[d]
             T == {n \in 0..Len(p) : Up(p, n) \notin opened}
  <2>1. Len(p) \in Nat
    BY <1>2, FolderPaths
  <2>2. T = {}
    <3> SUFFICES ASSUME T # {} PROVE FALSE
      OBVIOUS
    <3>1. T \in SUBSET Nat
      BY <2>1
    <3> HIDE DEF T
    <3>2. PICK n \in T : \A m \in T : n <= m
      BY <3>1, LeastNumber
    <3>3. n \in 0..Len(p) /\ Up(p, n) \notin opened
      BY DEF T
    <3>4. n # 0
      BY <1>1, <1>2, <3>3, PathsUp
    <3>5. n - 1 \in 0..(Len(p) - 1) /\ n - 1 \in 0..Len(p) /\ n - 1 + 1 = n /\ n - 1 \notin T
      BY <2>1, <3>2, <3>3, <3>4
    <3>6. Up(p, n - 1) \in opened
      BY <3>5 DEF T
    <3>7. Folder(Up(p, n - 1 + 1)) \in Ls(Up(p, n - 1))
      BY <1>1, <1>5, <3>5, WayShown
    <3> QED
      BY <1>3, <3>3, <3>5, <3>6, <3>7
  <2>3. Up(p, Len(p)) = p /\ Len(p) \in 0..Len(p)
    BY <1>2, <2>1, PathsUp
  <2> QED
    BY <2>2, <2>3
<1> QED
  BY <1>4, <1>5

\* What is listed are the lists of what was opened.
THEOREM FoldersInvariant == FoldersSpec => []FoldersInv
<1>1. FoldersInit => FoldersInv
  BY DEF FoldersInit, FoldersInv, Rights
<1>2. ASSUME FoldersInv, [FoldersNext]_folderVars
      PROVE  FoldersInv'
  <2>1. UNCHANGED <<caller, placed, mayRead, mayList>>
    BY <1>2 DEF FoldersNext, LsCmd, folderVars
  <2>2. Exists' = Exists /\ \A f : Ls(f)' = Ls(f)
    BY <2>1 DEF Exists, Ls, EntriesUnder, Under, DocumentEntries, Children, ResolveFolder, FoldersRefused
  <2>3. Rights'
    BY <1>2, <2>1, <2>2 DEF FoldersInv, Rights
  <2>4. CASE UNCHANGED folderVars
    <3>1. opened' = opened /\ entries' = entries
      BY <2>4 DEF folderVars
    <3> QED
      BY <1>2, <2>2, <2>3, <3>1 DEF FoldersInv
  <2>5. ASSUME NEW f \in AllFolders, LsCmd(f)
        PROVE  FoldersInv'
    <3>1. opened' = opened \cup {f} /\ entries' = entries \cup Ls(f)
      BY <2>5 DEF LsCmd
    <3>2. entries' = UNION {Ls(g) : g \in opened'}
      BY <1>2, <3>1 DEF FoldersInv
    <3> QED
      BY <1>2, <2>2, <2>3, <3>1, <3>2 DEF FoldersInv
  <2> QED
    BY <1>2, <2>4, <2>5 DEF FoldersNext
<1> QED
  BY <1>1, <1>2, PTL DEF FoldersSpec

\* Whoever opens every folder that ls lists has seen every document they can read (docs.go:659-660),
\* however deep it is, and none they cannot.
THEOREM FoldersComplete == FoldersSpec => []LsComplete
<1>1. ASSUME FoldersInv
      PROVE  LsComplete
  <2>1. Rights /\ opened \subseteq AllFolders /\ entries = UNION {Ls(f) : f \in opened}
    BY <1>1 DEF FoldersInv
  <2>2. \A e \in entries : \/ e.doc = NoDocument /\ e.at \in Exists
                           \/ e.doc \in mayRead /\ e.doc # NoDocument
    BY <2>1, LsSound
  <2>3. ShownDocuments \subseteq mayRead /\ ShownFolders \subseteq Exists
    BY <2>2 DEF ShownDocuments, ShownFolders
  <2>4. ASSUME {Root} \cup ShownFolders \subseteq opened, NEW d \in mayRead
        PROVE  d \in ShownDocuments
    <3>1. placed[d] \in opened
      BY <1>1, <2>4, AllOpened
    <3>2. PICK e \in Ls(placed[d]) : e.doc = d /\ d # NoDocument
      BY <2>1, DocumentShown
    <3>3. e \in entries
      BY <2>1, <3>1
    <3> QED
      BY <3>2, <3>3 DEF ShownDocuments
  <2>5. ASSUME NEW d \in mayRead, placed[d] # Root
        PROVE  ResolveFolderID(placed[d]) = {placed[d]}
    <3>1. d \in Filed /\ placed[d] \in AllFolders
      BY <2>1 DEF Rights
    <3>2. Len(placed[d]) \in 0..Len(placed[d])
      BY <3>1, FolderPaths
    <3>3. Up(placed[d], Len(placed[d])) = placed[d] /\ IsPrefix(Up(placed[d], Len(placed[d])), placed[d])
          /\ Up(placed[d], Len(placed[d])) \in Exists
      BY <2>1, <3>1, <3>2, PathsUp, HolderExists
    <3>4. CASE FoldersRefused
      <4>1. d \in {x \in Under(placed[d]) : placed[x] = placed[d] /\ placed[d] # Root}
        BY <2>5, <3>3 DEF Under
      <4> QED
        BY <3>4, <4>1 DEF ResolveFolderID
    <3>5. CASE ~FoldersRefused
      BY <2>1, <3>3, <3>5 DEF ResolveFolderID, ResolveFolder, FoldersRefused, Rights
    <3> QED
      BY <3>4, <3>5
  <2> QED
    BY <2>3, <2>4, <2>5 DEF LsComplete
<1> QED
  BY <1>1, FoldersInvariant, PTL


-----------------------------------------------------------------------------
(* Frontmatter.  Values are added one after the other: by induction on how *)
(* many were looked at, with the least number of values that would fail.   *)

FrontSpec == FrontInit /\ [][FrontNext]_frontVars

\* One turn of addToSeq's loop, and the lists it has after each turn.
Turn(list, vals, g, n) ==
    IF n = 0 THEN list
    ELSE IF vals[n] \in ToSet(g[n - 1]) THEN g[n - 1] ELSE Append(g[n - 1], vals[n])
Grown(list, vals, m, g) == g = [n \in 0..m |-> Turn(list, vals, g, n)]

\* The loop has a list after each turn.
LEMMA SomeGrown ==
    ASSUME NEW list, NEW vals, NEW m \in Nat PROVE \E g : Grown(list, vals, m, g)
<1> SUFFICES ASSUME NEW T, T = {k \in Nat : ~\E g : Grown(list, vals, k, g)}, T # {} PROVE FALSE
  OBVIOUS
<1>1. PICK k \in T : \A y \in T : k <= y
  BY LeastNumber
<1>2. k \in Nat /\ ~\E g : Grown(list, vals, k, g)
  BY <1>1
<1>3. CASE k = 0
  <2>1. Grown(list, vals, 0, [n \in 0..0 |-> list])
    BY DEF Grown, Turn
  <2> QED
    BY <1>2, <1>3, <2>1
<1>4. CASE k # 0
  <2>1. k - 1 \in Nat /\ k - 1 \notin T
    BY <1>1, <1>2, <1>4
  <2>2. PICK g : Grown(list, vals, k - 1, g)
    BY <2>1
  <2> DEFINE h == [n \in 0..k |-> IF n < k THEN g[n] ELSE Turn(list, vals, g, k)]
  <2>3. \A n \in 0..(k - 1) : g[n] = Turn(list, vals, g, n)
    BY <2>2 DEF Grown
  <2>4. ASSUME NEW n \in 0..k PROVE h[n] = Turn(list, vals, h, n)
    <3>1. h[n] = Turn(list, vals, g, n)
      <4>1. CASE n = k
        BY <1>2, <4>1
      <4>2. CASE n # k
        <5>1. n \in 0..(k - 1) /\ n < k
          BY <1>2, <4>2
        <5> QED
          BY <2>3, <5>1
      <4> QED
        BY <4>1, <4>2
    <3>2. ASSUME n # 0 PROVE h[n - 1] = g[n - 1]
      <4>1. n - 1 \in 0..k /\ n - 1 < k
        BY <1>2, <3>2
      <4> QED
        BY <4>1
    <3> QED
      BY <3>1, <3>2 DEF Turn
  <2>5. h = [n \in 0..k |-> Turn(list, vals, h, n)]
    BY <2>4
  <2>6. Grown(list, vals, k, h)
    BY <2>5 DEF Grown
  <2> QED
    BY <1>2, <2>6
<1> QED
  BY <1>3, <1>4

\* What Missing gives is the list after the last turn.
LEMMA MissingIs ==
    ASSUME NEW list, NEW vals \in Seq(Nat)
    PROVE \E g : Grown(list, vals, Len(vals), g) /\ Missing(list, vals) = g[Len(vals)]
<1> DEFINE have == CHOOSE g : Grown(list, vals, Len(vals), g)
<1>1. Grown(list, vals, Len(vals), have)
  <2>1. Len(vals) \in Nat
    OBVIOUS
  <2> QED
    BY <2>1, SomeGrown
<1>2. Missing(list, vals) = have[Len(vals)]
  BY DEF Missing, Grown, Turn
<1> QED
  BY <1>1, <1>2

\* A list h to which the first n of vals were added, each that was not there, once.
AddedTo(list, vals, n, h) ==
    /\ h \in Seq(Nat) /\ Len(list) <= Len(h) /\ \A i \in 1..Len(list) : h[i] = list[i]
    /\ ToSet(h) = ToSet(list) \cup {vals[i] : i \in 1..n}
    /\ \A i \in (Len(list) + 1)..Len(h) : \A j \in 1..(i - 1) : h[j] # h[i]
    /\ (\A i \in 1..n : vals[i] \in ToSet(list)) => h = list

\* One more value.
LEMMA OneMore ==
    ASSUME NEW list \in Seq(Nat), NEW vals \in Seq(Nat), NEW n \in 1..Len(vals), NEW h,
           AddedTo(list, vals, n - 1, h),
           NEW x, x = IF vals[n] \in ToSet(h) THEN h ELSE Append(h, vals[n])
    PROVE AddedTo(list, vals, n, x)
<1>1. h \in Seq(Nat) /\ n \in Nat /\ vals[n] \in Nat
  BY DEF AddedTo
<1>2. {vals[i] : i \in 1..n} = {vals[i] : i \in 1..(n - 1)} \cup {vals[n]}
  <2>1. 1..n = 1..(n - 1) \cup {n}
    BY <1>1
  <2> QED
    BY <2>1
<1>3. CASE vals[n] \in ToSet(h)
  <2>1. x = h
    BY <1>3
  <2>2. ToSet(h) = ToSet(list) \cup {vals[i] : i \in 1..n}
    BY <1>2, <1>3 DEF AddedTo
  <2>3. (\A i \in 1..n : vals[i] \in ToSet(list)) => h = list
    BY <1>1 DEF AddedTo
  <2> QED
    BY <2>1, <2>2, <2>3 DEF AddedTo
<1>4. CASE vals[n] \notin ToSet(h)
  <2>1. /\ x = Append(h, vals[n]) /\ x \in Seq(Nat) /\ Len(x) = Len(h) + 1
        /\ x[Len(h) + 1] = vals[n] /\ \A i \in 1..Len(h) : x[i] = h[i]
    BY <1>1, <1>4
  <2>2. \A i \in 1..Len(h) : h[i] \in ToSet(h)
    BY <1>1 DEF ToSet
  <2>3. ToSet(x) = ToSet(h) \cup {vals[n]}
    <3>1. 1..Len(x) = 1..Len(h) \cup {Len(h) + 1}
      BY <1>1, <2>1
    <3>2. DOMAIN x = 1..Len(x) /\ DOMAIN h = 1..Len(h)
      BY <1>1, <2>1
    <3>3. ToSet(x) = {x[i] : i \in 1..Len(x)} /\ ToSet(h) = {h[i] : i \in 1..Len(h)}
      BY <3>2 DEF ToSet
    <3>4. ASSUME NEW e \in ToSet(x) PROVE e \in ToSet(h) \cup {vals[n]}
      <4>1. PICK i \in 1..Len(x) : e = x[i]
        BY <3>3
      <4>2. i \in 1..Len(h) \/ i = Len(h) + 1
        BY <3>1
      <4> QED
        BY <2>1, <2>2, <4>1, <4>2
    <3>5. ASSUME NEW e \in ToSet(h) PROVE e \in ToSet(x)
      <4>1. PICK i \in 1..Len(h) : e = h[i]
        BY <3>3
      <4>2. i \in 1..Len(x) /\ e = x[i]
        BY <2>1, <3>1, <4>1
      <4> QED
        BY <3>3, <4>2
    <3>6. vals[n] \in ToSet(x)
      <4>1. Len(h) + 1 \in 1..Len(x)
        BY <3>1
      <4> QED
        BY <2>1, <3>3, <4>1
    <3> QED
      BY <3>4, <3>5, <3>6
  <2>4. ToSet(x) = ToSet(list) \cup {vals[i] : i \in 1..n}
    BY <1>2, <2>3 DEF AddedTo
  <2>5. Len(list) \in Nat /\ Len(h) \in Nat /\ Len(list) <= Len(h)
    BY <1>1 DEF AddedTo
  <2>6. ASSUME NEW i \in (Len(list) + 1)..Len(x), NEW j \in 1..(i - 1) PROVE x[j] # x[i]
    <3>1. CASE i <= Len(h)
      <4>1. i \in (Len(list) + 1)..Len(h) /\ i \in 1..Len(h) /\ j \in 1..Len(h)
        BY <2>5, <3>1
      <4>2. h[j] # h[i]
        BY <4>1 DEF AddedTo
      <4> QED
        BY <2>1, <4>1, <4>2
    <3>2. CASE i = Len(h) + 1
      <4>1. j \in 1..Len(h)
        BY <2>5, <3>2
      <4> QED
        BY <1>4, <2>1, <2>2, <3>2, <4>1
    <3> QED
      BY <2>1, <2>5, <3>1, <3>2
  <2>7. (\A i \in 1..n : vals[i] \in ToSet(list)) => x = list
    <3>1. n \in 1..n /\ ToSet(list) \subseteq ToSet(h)
      BY <1>1 DEF AddedTo
    <3> QED
      BY <1>4, <3>1
  <2>8. Len(list) <= Len(x) /\ \A i \in 1..Len(list) : x[i] = list[i]
    BY <2>1, <2>5 DEF AddedTo
  <2> QED
    BY <2>1, <2>4, <2>6, <2>7, <2>8 DEF AddedTo
<1> QED
  BY <1>3, <1>4

\* Every missing value was added once, and none but those.
LEMMA MissingAdds ==
    ASSUME NEW list \in Seq(Nat), NEW vals \in Seq(Nat)
    PROVE AddedTo(list, vals, Len(vals), Missing(list, vals))
<1>1. PICK g : Grown(list, vals, Len(vals), g) /\ Missing(list, vals) = g[Len(vals)]
  BY MissingIs
<1>2. \A n \in 0..Len(vals) : g[n] = Turn(list, vals, g, n)
  BY <1>1 DEF Grown
<1>3. Len(vals) \in Nat
  OBVIOUS
<1> DEFINE T == {k \in 0..Len(vals) : ~AddedTo(list, vals, k, g[k])}
<1>a. SUFFICES ASSUME T # {} PROVE FALSE
  <2>1. Len(vals) \in 0..Len(vals)
    BY <1>3
  <2>2. T = {} => AddedTo(list, vals, Len(vals), g[Len(vals)])
    BY <2>1
  <2> QED
    BY <1>1, <2>2
<1>4. PICK k \in T : \A y \in T : k <= y
  <2>1. T \in SUBSET Nat
    BY <1>3
  <2> HIDE DEF T
  <2> QED
    BY <1>a, <2>1, LeastNumber
<1>5. k \in 0..Len(vals) /\ ~AddedTo(list, vals, k, g[k])
  BY <1>4
<1>6. CASE k = 0
  <2>1. g[0] = list
    BY <1>2, <1>5, <1>6 DEF Turn
  <2>2. {vals[i] : i \in 1..0} = {}
    OBVIOUS
  <2>3. AddedTo(list, vals, 0, list)
    BY <2>2 DEF AddedTo
  <2> QED
    BY <1>5, <1>6, <2>1, <2>3
<1>7. CASE k # 0
  <2>1. k - 1 \in 0..Len(vals) /\ k - 1 \notin T /\ k \in 1..Len(vals)
    BY <1>3, <1>4, <1>5, <1>7
  <2>2. AddedTo(list, vals, k - 1, g[k - 1])
    BY <2>1
  <2>3. g[k] = IF vals[k] \in ToSet(g[k - 1]) THEN g[k - 1] ELSE Append(g[k - 1], vals[k])
    BY <1>2, <1>5, <1>7 DEF Turn
  <2>4. AddedTo(list, vals, k, g[k])
    BY <2>1, <2>2, <2>3, OneMore
  <2> QED
    BY <1>5, <2>4
<1> QED
  BY <1>6, <1>7

\* What was added to a list is what Kept says: the rest stands, the new ones come once.
LEMMA AddedIsKept ==
    ASSUME NEW list \in Seq(Nat), NEW vals \in Seq(Nat), NEW h, AddedTo(list, vals, Len(vals), h)
    PROVE Kept(list, h, vals)
<1>1. /\ h \in Seq(Nat) /\ Len(list) \in Nat /\ Len(h) \in Nat /\ Len(list) <= Len(h)
      /\ \A i \in 1..Len(list) : h[i] = list[i]
  <2>1. h \in Seq(Nat) /\ Len(list) <= Len(h) /\ \A i \in 1..Len(list) : h[i] = list[i]
    BY DEF AddedTo
  <2>2. Len(list) \in Nat /\ Len(h) \in Nat
    BY <2>1
  <2> QED
    BY <2>1, <2>2
<1>a. \A i \in (Len(list) + 1)..Len(h) : \A j \in 1..(i - 1) : h[j] # h[i]
  BY DEF AddedTo
<1>2. IsPrefix(list, h)
  <2>1. SubSeq(list, 1, Len(list)) \in Seq(Nat) /\ SubSeq(h, 1, Len(list)) \in Seq(Nat)
        /\ Len(SubSeq(list, 1, Len(list))) = Len(list) /\ Len(SubSeq(h, 1, Len(list))) = Len(list)
    BY <1>1
  <2>2. \A i \in 1..Len(list) : SubSeq(list, 1, Len(list))[i] = SubSeq(h, 1, Len(list))[i]
    BY <1>1
  <2>3. SubSeq(list, 1, Len(list)) = SubSeq(h, 1, Len(list))
    BY <2>1, <2>2, SeqEqual
  <2> QED
    BY <1>1, <2>3 DEF IsPrefix
<1> DEFINE more == SubSeq(h, Len(list) + 1, Len(h))
           n == Len(h) - Len(list)
<1>3. n \in Nat /\ more \in [1..n -> Nat] /\ Len(more) = n /\ \A i \in 1..n : more[i] = h[Len(list) + i]
  <2>1. more \in Seq(Nat) /\ Len(more) = n
    BY <1>1
  <2>2. \A i \in 1..n : more[i] = h[Len(list) + i]
    BY <1>1
  <2>3. n \in Nat
    BY <1>1
  <2> HIDE DEF more, n
  <2>4. more \in [1..n -> Nat]
    BY <2>1, LenProperties
  <2> QED
    BY <2>1, <2>2, <2>3, <2>4
<1> HIDE DEF more
<1>4. ToSet(more) = {more[i] : i \in 1..n}
  BY <1>3 DEF ToSet
<1>5. \A i \in 1..n : Len(list) + i \in (Len(list) + 1)..Len(h)
  BY <1>1
<1>6. /\ ToSet(list) = {list[i] : i \in 1..Len(list)} /\ ToSet(h) = {h[i] : i \in 1..Len(h)}
      /\ ToSet(vals) = {vals[i] : i \in 1..Len(vals)}
  <2>1. DOMAIN list = 1..Len(list) /\ DOMAIN h = 1..Len(h) /\ DOMAIN vals = 1..Len(vals)
    BY <1>1
  <2> QED
    BY <2>1 DEF ToSet
<1>7. ToSet(more) = ToSet(vals) \ ToSet(list)
  <2>1. ASSUME NEW x \in ToSet(more) PROVE x \in ToSet(vals) \ ToSet(list)
    <3>1. PICK i \in 1..n : x = h[Len(list) + i]
      BY <1>3, <1>4, <2>1
    <3>2. Len(list) + i \in (Len(list) + 1)..Len(h) /\ Len(list) + i \in 1..Len(h)
      BY <1>1, <1>5
    <3>3. x \in ToSet(h)
      BY <1>6, <3>1, <3>2
    <3>4. ASSUME NEW j \in 1..Len(list) PROVE list[j] # x
      <4>1. j \in 1..(Len(list) + i - 1)
        BY <1>1
      <4>2. h[j] # h[Len(list) + i]
        BY <1>a, <3>2, <4>1
      <4> QED
        BY <1>1, <3>1, <4>2
    <3> QED
      BY <1>6, <3>3, <3>4 DEF AddedTo
  <2>2. ASSUME NEW x \in ToSet(vals), x \notin ToSet(list) PROVE x \in ToSet(more)
    <3>1. x \in ToSet(h)
      BY <1>6, <2>2 DEF AddedTo
    <3>2. PICK j \in 1..Len(h) : x = h[j]
      BY <1>6, <3>1
    <3>3. j \notin 1..Len(list)
      BY <1>1, <1>6, <2>2, <3>2
    <3>4. j - Len(list) \in 1..n /\ Len(list) + (j - Len(list)) = j
      BY <1>1, <3>3
    <3>5. more[j - Len(list)] = x
      BY <1>3, <3>2, <3>4
    <3> QED
      BY <1>4, <3>4, <3>5
  <2> QED
    BY <2>1, <2>2
<1>8. Cardinality(ToSet(more)) = n
  <2>1. more \in [1..n -> ToSet(more)]
    BY <1>3, <1>4
  <2>2. ASSUME NEW i \in 1..n, NEW j \in 1..n, i < j PROVE more[i] # more[j]
    <3>1. Len(list) + j \in (Len(list) + 1)..Len(h) /\ Len(list) + i \in 1..(Len(list) + j - 1)
      BY <1>1, <2>2
    <3>2. h[Len(list) + i] # h[Len(list) + j]
      BY <1>a, <3>1
    <3> QED
      BY <1>3, <3>2
  <2>3. \A i, j \in 1..n : more[i] = more[j] => i = j
    <3> SUFFICES ASSUME NEW i \in 1..n, NEW j \in 1..n, i # j PROVE more[i] # more[j]
      OBVIOUS
    <3>1. i < j \/ j < i
      BY <1>3
    <3> QED
      BY <2>2, <3>1
  <2>4. \A x \in ToSet(more) : \E i \in 1..n : more[i] = x
    BY <1>4
  <2> HIDE DEF n
  <2>5. more \in Bijection(1..n, ToSet(more))
    BY <2>1, <2>3, <2>4 DEF Bijection, Injection, Surjection, IsInjective
  <2> QED
    BY <1>3, <2>5, FS_CountingElements DEF ExistsBijection
<1> QED
  BY <1>2, <1>3, <1>7, <1>8 DEF Kept, more

Values == {v \in [is : {"absent", "other", "list"}, vals : Seq(Nat)] : v.is # "list" => v.vals = <<>>}
Documents ==
    {t \in [front : Mappings \cup Blockless \cup {"broken"}, jiku : {"absent", "other", "mapping"},
            keys : [Keys -> Values]] :
        t.jiku # "mapping" => \A k \in RelationKeys : t.keys[k] = Absent}

\* What was to be added to a document was.
AddedAll(old, new, a) == \A k \in Keys : AddedTo(old.keys[k].vals, a[k], Len(a[k]), new.keys[k].vals)

\* After what Add wrote, a second Add looks through its keys and is not stopped.
Ready(t, a) == ~Nothing(a) /\ t.front = "block" /\ Keyed(t) /\ ~Stops(t, a)

\* How a document comes to be one that does not parse.
Breaks ==
    \/ original.front = "broken"
    \/ original.front \in {"braces", "indented"} /\ original.jiku = "absent"
          /\ original.keys["topics"].is = "absent"

FrontTypes ==
    /\ text \in Documents /\ original \in Documents /\ adding \in [Keys -> Seq(Nat)]
    /\ came \in {"none", "changed", "unchanged", "refused"}
    /\ original.front \notin Mappings => original.jiku = "absent" /\ original.keys = NoKeys

FrontInv ==
    /\ FrontTypes
    /\ came = "none" => text = original
    /\ came = "refused" /\ text.front # "broken" => text = original
    /\ came \in {"changed", "unchanged"} /\ text.front # "broken" => AddedAll(original, text, adding)
    /\ came = "changed" /\ text.front # "broken" => Ready(text, adding)
    /\ came = "changed" /\ text.front = "broken" => ~Nothing(adding)
    /\ text.front = "broken" => Breaks

LEMMA OfList == \A l : ListOf(l).vals = l /\ ListOf(l).is = "list"
  BY DEF ListOf

\* Nothing was added to a list.
LEMMA NoneAdded == ASSUME NEW list \in Seq(Nat) PROVE AddedTo(list, <<>>, 0, list)
<1>1. {<<>>[i] : i \in 1..0} = {}
  OBVIOUS
<1> QED
  BY <1>1 DEF AddedTo

\* A key that Add does not go through has nothing to be added.
LEMMA UntouchedIsEmpty ==
    ASSUME NEW a \in [Keys -> Seq(Nat)], NEW k \in Keys, k \notin Touched(a) PROVE a[k] = <<>>
  BY DEF Touched, Relates, Keys

\* What is written is a document.
LEMMA BlockIs ==
    ASSUME NEW a \in [Keys -> Seq(Nat)], ~Nothing(a)
    PROVE /\ Block(a) \in Documents /\ Ready(Block(a), a)
          /\ \A k \in Keys : AddedTo(<<>>, a[k], Len(a[k]), Block(a).keys[k].vals)
<1>1. ASSUME NEW k \in Keys
      PROVE  /\ Missing(<<>>, a[k]) \in Seq(Nat)
             /\ AddedTo(<<>>, a[k], Len(a[k]), Missing(<<>>, a[k]))
  <2>1. a[k] \in Seq(Nat) /\ <<>> \in Seq(Nat)
    OBVIOUS
  <2>2. AddedTo(<<>>, a[k], Len(a[k]), Missing(<<>>, a[k]))
    BY <2>1, MissingAdds
  <2> QED
    BY <2>2 DEF AddedTo
<1>2. AddedTo(<<>>, <<>>, 0, <<>>) /\ Len(<<>>) = 0 /\ <<>> \in Seq(Nat)
  <2>1. <<>> \in Seq(Nat) /\ Len(<<>>) = 0
    OBVIOUS
  <2> QED
    BY <2>1, NoneAdded
<1>3. /\ Block(a).front = "block" /\ Block(a).jiku = IF Relates(a) THEN "mapping" ELSE "absent"
      /\ Block(a).keys = [k \in Keys |-> IF a[k] = <<>> THEN Absent ELSE ListOf(Missing(<<>>, a[k]))]
  BY DEF Block
<1>4. \A k \in Keys : Block(a).keys[k] = IF a[k] = <<>> THEN Absent ELSE ListOf(Missing(<<>>, a[k]))
  BY <1>3
<1>5. Absent \in Values /\ \A l \in Seq(Nat) : ListOf(l) \in Values
  BY <1>2 DEF Absent, ListOf, Values
<1>6. Block(a).keys \in [Keys -> Values]
  BY <1>1, <1>3, <1>5
<1>7. Block(a).jiku # "mapping" => \A k \in RelationKeys : Block(a).keys[k] = Absent
  BY <1>3, <1>4 DEF Relates, Keys
<1>8. Block(a) \in Documents
  BY <1>3, <1>6, <1>7 DEF Documents, Block, Mappings
<1>9. ASSUME NEW k \in Keys PROVE AddedTo(<<>>, a[k], Len(a[k]), Block(a).keys[k].vals)
  <2>1. CASE a[k] = <<>>
    BY <1>2, <1>4, <2>1 DEF Absent
  <2>2. CASE a[k] # <<>>
    <3>1. Block(a).keys[k] = ListOf(Missing(<<>>, a[k]))
      BY <1>4, <2>2
    <3>2. Block(a).keys[k].vals = Missing(<<>>, a[k])
      BY <3>1, OfList
    <3> QED
      BY <1>1, <3>2
  <2> QED
    BY <2>1, <2>2
<1>10. \A k \in Keys : Block(a).keys[k].is # "other" /\ (a[k] # <<>> => Block(a).keys[k].is = "list")
  <2> SUFFICES ASSUME NEW k \in Keys
               PROVE  Block(a).keys[k].is # "other" /\ (a[k] # <<>> => Block(a).keys[k].is = "list")
    OBVIOUS
  <2>1. CASE a[k] = <<>>
    BY <1>4, <2>1 DEF Absent
  <2>2. CASE a[k] # <<>>
    <3>1. Block(a).keys[k] = ListOf(Missing(<<>>, a[k]))
      BY <1>4, <2>2
    <3> QED
      BY <2>2, <3>1, OfList
  <2> QED
    BY <2>1, <2>2
<1>11. Touched(a) \subseteq Keys
  BY DEF Touched, Keys
<1>12. Keyed(Block(a))
  BY <1>3, <1>10 DEF Keyed, Nothing, Relates, Keys
<1>13. ~Stops(Block(a), a)
  BY <1>3, <1>10, <1>11 DEF Stops
<1> QED
  BY <1>3, <1>8, <1>9, <1>12, <1>13 DEF Ready

\* So is what was added in place.
LEMMA InPlaceIs ==
    ASSUME NEW a \in [Keys -> Seq(Nat)], ~Nothing(a), NEW t \in Documents, ~Stops(t, a), Keyed(t)
    PROVE /\ AddToSeq(t, a) \in Documents /\ Ready(AddToSeq(t, a), a) /\ AddedAll(t, AddToSeq(t, a), a)
<1> DEFINE n == AddToSeq(t, a)
<1>1. /\ t \in [front : Mappings \cup Blockless \cup {"broken"}, jiku : {"absent", "other", "mapping"},
            keys : [Keys -> Values]]
      /\ t.jiku # "mapping" => \A k \in RelationKeys : t.keys[k] = Absent
  BY DEF Documents
<1>2. ASSUME NEW k \in Keys
      PROVE  /\ t.keys[k] \in Values /\ t.keys[k].vals \in Seq(Nat)
             /\ Missing(t.keys[k].vals, a[k]) \in Seq(Nat)
             /\ AddedTo(t.keys[k].vals, a[k], Len(a[k]), Missing(t.keys[k].vals, a[k]))
  <2>1. t.keys[k] \in Values
    BY <1>1
  <2>2. t.keys[k].vals \in Seq(Nat) /\ a[k] \in Seq(Nat)
    BY <2>1 DEF Values
  <2>3. AddedTo(t.keys[k].vals, a[k], Len(a[k]), Missing(t.keys[k].vals, a[k]))
    BY <2>2, MissingAdds
  <2> QED
    BY <2>1, <2>2, <2>3 DEF AddedTo
<1>3. /\ n.front = "block" /\ n.jiku = (IF Relates(a) THEN "mapping" ELSE t.jiku)
      /\ n.keys = [k \in Keys |-> IF k \in Touched(a) THEN ListOf(Missing(t.keys[k].vals, a[k])) ELSE t.keys[k]]
  BY DEF AddToSeq
<1>4. \A k \in Keys : n.keys[k] = IF k \in Touched(a) THEN ListOf(Missing(t.keys[k].vals, a[k])) ELSE t.keys[k]
  BY <1>3
<1>5. \A l \in Seq(Nat) : ListOf(l) \in Values
  BY DEF ListOf, Values
<1>6. n.keys \in [Keys -> Values]
  BY <1>2, <1>3, <1>5
<1>7. n.jiku # "mapping" => \A k \in RelationKeys : n.keys[k] = Absent
  <2>1. n.jiku # "mapping" => ~Relates(a) /\ t.jiku # "mapping"
    BY <1>3
  <2>2. ~Relates(a) => \A k \in RelationKeys : a[k] = <<>>
    BY DEF Relates
  <2>3. ~Relates(a) => Touched(a) \subseteq {k \in {"topics"} : a[k] # <<>>}
    BY DEF Touched
  <2>4. ~Relates(a) => \A k \in RelationKeys : k \notin Touched(a)
    BY <2>2, <2>3
  <2> QED
    BY <1>1, <1>4, <2>1, <2>4 DEF Keys
<1>8. n = [front |-> n.front, jiku |-> n.jiku, keys |-> n.keys]
  BY DEF AddToSeq
<1>9. n.jiku \in {"absent", "other", "mapping"} /\ n.front \in Mappings
  BY <1>1, <1>3 DEF Mappings
<1>10. \A k \in Touched(a) : k \in Keys /\ n.keys[k].is = "list"
  <2> SUFFICES ASSUME NEW k \in Touched(a) PROVE k \in Keys /\ n.keys[k].is = "list"
    OBVIOUS
  <2>1. k \in Keys
    BY DEF Touched, Keys
  <2>2. n.keys[k] = ListOf(Missing(t.keys[k].vals, a[k]))
    BY <1>4, <2>1
  <2> HIDE DEF n
  <2> QED
    BY <2>1, <2>2, OfList
<1>11. Touched(a) # {} /\ (~Relates(a) => "topics" \in Touched(a))
  BY DEF Touched, Relates, Nothing, Keys
<1>12. ASSUME NEW k \in Keys PROVE AddedTo(t.keys[k].vals, a[k], Len(a[k]), n.keys[k].vals)
  <2>1. CASE k \in Touched(a)
    <3>1. n.keys[k] = ListOf(Missing(t.keys[k].vals, a[k]))
      BY <1>4, <2>1
    <3> HIDE DEF n
    <3>2. n.keys[k].vals = Missing(t.keys[k].vals, a[k])
      BY <3>1, OfList
    <3> QED
      BY <1>2, <3>2
  <2>2. CASE k \notin Touched(a)
    <3>1. a[k] = <<>> /\ n.keys[k].vals = t.keys[k].vals /\ Len(<<>>) = 0
      BY <1>4, <2>2, UntouchedIsEmpty
    <3>2. AddedTo(t.keys[k].vals, <<>>, 0, t.keys[k].vals)
      BY <1>2, NoneAdded
    <3> QED
      BY <3>1, <3>2
  <2> QED
    BY <2>1, <2>2
<1> HIDE DEF n
<1>13. n \in Documents
  BY <1>6, <1>7, <1>8, <1>9 DEF Documents
<1>14. Keyed(n) /\ ~Stops(n, a)
  <2>1. ~Relates(a) => Keyed(n)
    BY <1>10, <1>11 DEF Keyed
  <2>2. Relates(a) => Keyed(n) /\ n.jiku # "other"
    BY <1>3 DEF Keyed
  <2> QED
    BY <1>10, <2>1, <2>2 DEF Stops
<1>15. n \in Documents /\ Ready(n, a) /\ AddedAll(t, n, a)
  BY <1>3, <1>12, <1>13, <1>14 DEF Ready, AddedAll
<1> QED
  BY <1>15 DEF n

\* Where nothing is missing nothing has to be added, and the other way round.
LEMMA NothingMissingIs ==
    ASSUME NEW a \in [Keys -> Seq(Nat)], NEW t \in Documents, NothingMissing(t, a)
    PROVE AddedAll(t, t, a)
<1> SUFFICES ASSUME NEW k \in Keys PROVE AddedTo(t.keys[k].vals, a[k], Len(a[k]), t.keys[k].vals)
  BY DEF AddedAll
<1>1. t.keys[k].vals \in Seq(Nat) /\ a[k] \in Seq(Nat)
  BY DEF Documents, Values
<1>2. CASE k \in Touched(a)
  <2>1. Missing(t.keys[k].vals, a[k]) = t.keys[k].vals
    BY <1>2 DEF NothingMissing
  <2>2. AddedTo(t.keys[k].vals, a[k], Len(a[k]), Missing(t.keys[k].vals, a[k]))
    BY <1>1, MissingAdds
  <2> QED
    BY <2>1, <2>2
<1>3. CASE k \notin Touched(a)
  <2>1. a[k] = <<>> /\ Len(<<>>) = 0
    BY <1>3, UntouchedIsEmpty
  <2>2. AddedTo(t.keys[k].vals, <<>>, 0, t.keys[k].vals)
    BY <1>1, NoneAdded
  <2> QED
    BY <2>1, <2>2
<1> QED
  BY <1>2, <1>3

LEMMA AddedIsNotMissing ==
    ASSUME NEW a \in [Keys -> Seq(Nat)], NEW t \in Documents, NEW old, AddedAll(old, t, a)
    PROVE NothingMissing(t, a)
<1> SUFFICES ASSUME NEW k \in Touched(a) PROVE Missing(t.keys[k].vals, a[k]) = t.keys[k].vals
  BY DEF NothingMissing
<1>1. k \in Keys
  BY DEF Touched, Keys
<1>2. t.keys[k].vals \in Seq(Nat) /\ a[k] \in Seq(Nat)
  BY <1>1 DEF Documents, Values
<1>3. AddedTo(old.keys[k].vals, a[k], Len(a[k]), t.keys[k].vals)
  BY <1>1 DEF AddedAll
<1>4. \A i \in 1..Len(a[k]) : a[k][i] \in ToSet(t.keys[k].vals)
  BY <1>3 DEF AddedTo
<1>5. AddedTo(t.keys[k].vals, a[k], Len(a[k]), Missing(t.keys[k].vals, a[k]))
  BY <1>2, MissingAdds
<1> QED
  BY <1>4, <1>5 DEF AddedTo

\* The first Add.
LEMMA FirstAdd ==
    ASSUME FrontInv, came = "none", NEW a \in [Keys -> Seq(Nat)], Add(a) PROVE FrontInv'
<1>1. /\ FrontTypes /\ text = original /\ text \in Documents /\ original \in Documents
      /\ original' = original /\ adding' = a /\ (text.front = "broken" => Breaks)
  BY DEF FrontInv, FrontTypes, Add
<1>2. original.front \notin Mappings => original.jiku = "absent" /\ original.keys = NoKeys
  BY <1>1 DEF FrontTypes
<1>3. \/ NothingToAdd(a) \/ NewBlock(a) \/ NotAMapping(a) \/ AppendLines(a) \/ AddInPlace(a)
  BY DEF Add
<1>4. ASSUME text' = text, came' \in {"unchanged", "refused"},
             came' = "unchanged" /\ text.front # "broken" => AddedAll(text, text, a)
      PROVE  FrontInv'
  <2>1. FrontTypes' /\ (text.front = "broken" => Breaks')
    BY <1>1, <1>4 DEF FrontTypes, Breaks
  <2> QED
    BY <1>1, <1>4, <2>1 DEF FrontInv
<1>5. ASSUME text' \in Documents, came' = "changed", ~Nothing(a), text'.front \in {"block", "broken"},
             text'.front # "broken" => AddedAll(text, text', a) /\ Ready(text', a),
             text'.front = "broken" => Breaks
      PROVE  FrontInv'
  <2>1. FrontTypes' /\ Breaks' = Breaks
    BY <1>1, <1>5 DEF FrontTypes, Breaks
  <2> QED
    BY <1>1, <1>5, <2>1 DEF FrontInv
<1>6. ASSUME ~Nothing(a), \A k \in Keys : text.keys[k].vals = <<>>
      PROVE  Block(a) \in Documents /\ Ready(Block(a), a) /\ AddedAll(text, Block(a), a)
  BY <1>6, BlockIs DEF AddedAll
<1>7. CASE NothingToAdd(a)
  <2>1. text' = text /\ came' = "unchanged" /\ \A k \in Keys : a[k] = <<>>
    BY <1>7 DEF NothingToAdd, Leaves, Nothing
  <2>2. NothingMissing(text, a)
    BY <2>1 DEF NothingMissing, Touched, Relates, Keys
  <2>3. AddedAll(text, text, a)
    BY <1>1, <2>2, NothingMissingIs
  <2> QED
    BY <1>4, <2>1, <2>3
<1>8. CASE NewBlock(a)
  <2>1. text' = Block(a) /\ came' = "changed" /\ ~Nothing(a) /\ text.front \in Blockless
    BY <1>8 DEF NewBlock, Changes
  <2>2. \A k \in Keys : text.keys[k].vals = <<>>
    BY <1>1, <1>2, <2>1 DEF Blockless, Mappings, NoKeys, Absent
  <2>3. Block(a) \in Documents /\ Ready(Block(a), a) /\ AddedAll(text, Block(a), a)
    BY <1>6, <2>1, <2>2
  <2>4. Block(a).front = "block"
    BY DEF Block
  <2> QED
    BY <1>5, <2>1, <2>3, <2>4
<1>9. CASE NotAMapping(a)
  BY <1>4, <1>9 DEF NotAMapping, Leaves
<1>10. CASE AppendLines(a)
  <2>1. text' = Appended(text, a) /\ came' = "changed" /\ ~Nothing(a) /\ text.front \in Mappings /\ ~Keyed(text)
    BY <1>10 DEF AppendLines, Changes, Parsed
  <2>2. text.jiku = "absent" /\ text.keys["topics"].is = "absent"
    BY <2>1 DEF Keyed
  <2>3. \A k \in Keys : text.keys[k].vals = <<>>
    <3>1. \A k \in RelationKeys : text.keys[k] = Absent
      BY <1>1, <2>2 DEF Documents
    <3>2. "topics" \in Keys /\ text.keys["topics"] \in Values
      BY <1>1 DEF Documents, Keys
    <3> QED
      BY <2>2, <3>1, <3>2 DEF Keys, Absent, Values
  <2>4. Block(a) \in Documents /\ Ready(Block(a), a) /\ AddedAll(text, Block(a), a)
    BY <1>6, <2>1, <2>3
  <2>5. CASE text.front = "block"
    <3>1. Appended(text, a) = Block(a) /\ Block(a).front = "block"
      BY <2>5 DEF Appended, Block
    <3> QED
      BY <1>5, <2>1, <2>4, <3>1
  <2>6. CASE text.front # "block"
    <3>1. Appended(text, a) = [Block(a) EXCEPT !.front = "broken"]
      BY <2>6 DEF Appended
    <3>2. Appended(text, a) \in Documents /\ Appended(text, a).front = "broken"
      BY <2>4, <3>1 DEF Documents
    <3>3. Breaks
      BY <1>1, <2>1, <2>2, <2>6 DEF Breaks, Mappings
    <3> QED
      BY <1>5, <2>1, <3>2, <3>3
  <2> QED
    BY <2>5, <2>6
<1>11. CASE AddInPlace(a)
  <2>1. ~Nothing(a) /\ Keyed(text)
    BY <1>11 DEF AddInPlace
  <2>2. CASE Stops(text, a) /\ Leaves("refused")
    BY <1>4, <2>2 DEF Leaves
  <2>3. CASE NothingMissing(text, a) /\ Leaves("unchanged")
    <3>1. AddedAll(text, text, a)
      BY <1>1, <2>3, NothingMissingIs
    <3> QED
      BY <1>4, <2>3, <3>1 DEF Leaves
  <2>4. CASE ~Stops(text, a) /\ Changes(AddToSeq(text, a))
    <3>1. text' = AddToSeq(text, a) /\ came' = "changed"
      BY <2>4 DEF Changes
    <3>2. AddToSeq(text, a) \in Documents /\ Ready(AddToSeq(text, a), a) /\ AddedAll(text, AddToSeq(text, a), a)
      BY <1>1, <2>1, <2>4, InPlaceIs
    <3>3. AddToSeq(text, a).front = "block"
      BY DEF AddToSeq
    <3> QED
      BY <1>5, <2>1, <3>1, <3>2, <3>3
  <2> QED
    BY <1>11, <2>2, <2>3, <2>4 DEF AddInPlace
<1> QED
  BY <1>3, <1>7, <1>8, <1>9, <1>10, <1>11

\* The second, of the same: it finds everything there.
LEMMA SecondAdd ==
    ASSUME FrontInv, came = "changed", NEW a \in [Keys -> Seq(Nat)], Add(a) PROVE FrontInv'
<1>1. /\ FrontTypes /\ text \in Documents /\ original' = original /\ adding' = a /\ a = adding
      /\ (text.front = "broken" => Breaks) /\ ~Nothing(a)
      /\ (text.front # "broken" => AddedAll(original, text, a) /\ Ready(text, a))
  BY DEF FrontInv, FrontTypes, Add, Ready
<1>2. text' = text /\ came' \in {"unchanged", "refused"} /\ (came' = "refused" => text.front = "broken")
  <2>1. CASE text.front = "broken"
    <3>1. ~Parsed(text) /\ text.front \notin Blockless
      BY <2>1 DEF Parsed, Mappings, Blockless
    <3> QED
      BY <1>1, <2>1, <3>1 DEF Add, NothingToAdd, NewBlock, NotAMapping, AppendLines, AddInPlace, Leaves
  <2>2. CASE text.front # "broken"
    <3>1. text.front = "block" /\ Keyed(text) /\ ~Stops(text, a) /\ NothingMissing(text, a)
      BY <1>1, <2>2, AddedIsNotMissing DEF Ready
    <3>2. text.front \notin Blockless
      BY <3>1 DEF Blockless
    <3>3. AddInPlace(a)
      BY <1>1, <2>2, <3>1, <3>2 DEF Add, NothingToAdd, NewBlock, NotAMapping, AppendLines
    <3> QED
      BY <3>1, <3>3 DEF AddInPlace, Leaves
  <2> QED
    BY <2>1, <2>2
<1>3. FrontTypes' /\ Breaks' = Breaks
  BY <1>1, <1>2 DEF FrontTypes, Breaks
<1> QED
  BY <1>1, <1>2, <1>3 DEF FrontInv

\* A document as it comes is a document.
LEMMA FrontInitially == FrontInit => FrontInv
<1> SUFFICES ASSUME FrontInit PROVE FrontInv
  OBVIOUS
<1>1. text \in Texts /\ original = text /\ adding = [k \in Keys |-> <<>>] /\ came = "none"
  BY DEF FrontInit
<1>2. Absent \in Values /\ Other \in Values /\ \A l \in Listed : ListOf(l) \in Values
  BY FrontmatterAssumption DEF Absent, Other, ListOf, Values
<1>3. NoKeys \in [Keys -> Values] /\ \A k \in RelationKeys : NoKeys[k] = Absent
  BY <1>2 DEF NoKeys, Keys
<1> DEFINE values == {Absent, Other} \cup {ListOf(l) : l \in Listed}
           blockless == [front : {"none", "unfinished", "empty", "broken"}, jiku : {"absent"}, keys : {NoKeys}]
           mappings == {t \in [front : Mappings, jiku : {"absent", "other", "mapping"}, keys : [Keys -> values]] :
                           t.jiku # "mapping" => \A k \in RelationKeys : t.keys[k] = Absent}
<1>4. text \in blockless \/ text \in mappings
  BY <1>1 DEF Texts
<1>5. text \in Documents /\ (text.front \notin Mappings => text.jiku = "absent" /\ text.keys = NoKeys)
  <2>1. CASE text \in blockless
    BY <1>3, <2>1 DEF Documents, Blockless
  <2>2. CASE text \in mappings
    <3>1. values \subseteq Values
      BY <1>2
    <3> HIDE DEF values
    <3> QED
      BY <2>2, <3>1 DEF Documents
  <2> QED
    BY <1>4, <2>1, <2>2
<1>6. text.front = "broken" => Breaks
  BY <1>1 DEF Breaks
<1>7. <<>> \in Seq(Nat)
  OBVIOUS
<1> QED
  BY <1>1, <1>5, <1>6, <1>7 DEF FrontInv, FrontTypes

\* A document is what came with, in place, what was to be added; what does not parse came so, or was
\* in braces or indented (frontmatter.go, Add).
THEOREM FrontInvariant == FrontSpec => []FrontInv
<1>1. FrontInv /\ [FrontNext]_frontVars => FrontInv'
  <2> SUFFICES ASSUME FrontInv, [FrontNext]_frontVars PROVE FrontInv'
    OBVIOUS
  <2>1. CASE FrontNext
    <3>1. PICK a \in [Keys -> Added] : Add(a)
      BY <2>1 DEF FrontNext
    <3>2. a \in [Keys -> Seq(Nat)]
      BY FrontmatterAssumption
    <3>3. came = "none" \/ came = "changed"
      BY <3>1 DEF Add
    <3> QED
      BY <3>1, <3>2, <3>3, FirstAdd, SecondAdd
  <2>2. CASE UNCHANGED frontVars
    BY <2>2 DEF frontVars, FrontInv, FrontTypes, Breaks
  <2> QED
    BY <2>1, <2>2
<1> QED
  BY <1>1, FrontInitially, PTL DEF FrontSpec

\* However many values, keys and lists: Add keeps what was there in its place, adds what is missing
\* once, and breaks nothing but what is in braces or indented and has neither key.
THEOREM AddsKeep == FrontSpec => []AddKeeps
<1>1. FrontInv => AddKeeps
  <2> SUFFICES ASSUME FrontInv PROVE AddKeeps
    OBVIOUS
  <2>1. ASSUME came \in {"changed", "unchanged"}, text.front # "broken", NEW k \in Keys
        PROVE  Kept(original.keys[k].vals, text.keys[k].vals, adding[k])
    <3>1. AddedTo(original.keys[k].vals, adding[k], Len(adding[k]), text.keys[k].vals)
      BY <2>1 DEF FrontInv, AddedAll
    <3>2. adding[k] \in Seq(Nat)
      BY DEF FrontInv, FrontTypes
    <3>3. original.keys[k].vals \in Seq(Nat)
      BY DEF FrontInv, FrontTypes, Documents, Values
    <3> QED
      BY <3>1, <3>2, <3>3, AddedIsKept
  <2> QED
    BY <2>1 DEF FrontInv, AddKeeps, Breaks
<1> QED
  BY <1>1, FrontInvariant, PTL
=============================================================================
