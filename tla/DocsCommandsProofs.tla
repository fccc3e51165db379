------------------------- MODULE DocsCommandsProofs -------------------------
(***************************************************************************)
(* Proofs about DocsCommands, for any people, documents, paths, orders and *)
(* mishaps: a version is made from what was read, a command makes one      *)
(* change however often it is sent, and an edit session is safe.           *)
(***************************************************************************)
EXTENDS DocsCommands, SequenceTheorems, TLAPS

DeskSpec == DeskInit /\ [][DeskNext]_deskVars

Stages == {"free", "resolves", "waits", "reads", "edits", "saves", "uploads"}
Commands == {"new", "put", "rm", "restore", "mv", "relate", "edit", "lock", "unlock"}
Methods == {"new", "put", "save", "rm", "restore", "mv", "relate", "lock", "renew", "unlock"}
Answers == {"done", "same", "conflict", "refused", "too_large"}

Version == [words : Nat, from : Nat, related : BOOLEAN]
Orders ==
    [n : Nat, try : {1, 2}, what : Commands \cup {"none"}, ref : {"id", "path"}, read : Nat, id : Nat, dest : Nat,
     path : Nat, base : Nat, from : Nat, how : {"inline", "upload"}, session : Nat, force : BOOLEAN]
Requests ==
    [p : People, n : Nat, try : {1, 2}, kind : Methods, id : Ids, base : Nat, session : Nat, force : BOOLEAN,
     place : Nat, words : Nat, from : Nat, how : {"inline", "upload", ""}]

DeskTypes ==
    /\ life \in [Ids -> {"unborn", "live", "deleted"}] /\ filed \in [Ids -> Nat]
    /\ versions \in [Ids -> Seq(Version)] /\ lockedBy \in [Ids -> Nat]
    /\ wire \subseteq Requests /\ stage \in [People -> Stages] /\ order \in [People -> Orders]
    /\ asked \in [People -> Requests \cup {NoRequest}] /\ inbox \in [People -> Answers \cup {"none"}]
    /\ told \in [People -> Answers \cup {"none", "noreply", "killed"}]
    /\ orders \in 0..MaxOrders /\ mishaps \in Nat /\ did \in [1..MaxOrders -> Nat]

-----------------------------------------------------------------------------
(* Numbers.  A command has a number nobody else has, and so has the session *)
(* of an edit, which nobody else can write under.                          *)

Numbered ==
    /\ \A p \in People : order[p].n \in 0..orders
    /\ \A p, q \in People : order[p].n = order[q].n /\ order[p].n # 0 => p = q
    /\ \A m \in wire : m.n \in 1..orders
    /\ renewing \cup kept \cup heldSessions \cup typedText \subseteq 1..orders
    /\ \A d \in Ids : lockedBy[d] \in 0..orders
    /\ \A n \in 1..MaxOrders : n > orders => did[n] = 0

OwnSession ==
    /\ \A p \in People : order[p].session \in {0} \cup heldSessions
    /\ \A m \in wire : m.session \in {m.n} \cup heldSessions
    /\ \A p \in People : order[p].what = "edit" =>
            order[p].n \notin heldSessions /\ order[p].session = 0 /\ ~order[p].force

\* The text that a version has, and that somebody has read.
Basis(d, base, from) == base \in DOMAIN versions[d] /\ from = versions[d][base].words
InHistory(n) == \E d \in Ids : \E v \in DOMAIN versions[d] : versions[d][v].words = n

Documents ==
    /\ \A d \in Ids : versions[d] = <<>> <=> life[d] = "unborn"
    /\ \A d \in Ids : lockedBy[d] # 0 => Live(d)
    /\ MadeFromRead
    /\ \A m \in wire : m.kind \in {"put", "save"} =>
            m.words = m.n /\ (m.n \notin strayed => Basis(m.id, m.base, m.from))
    /\ \A m \in wire : m.kind # "new" => life[m.id] # "unborn"
    /\ \A n \in typedText : n \in kept \/ InHistory(n)

-----------------------------------------------------------------------------
(* A person's command, and the requests that were made for it.             *)

Agrees(m, p) ==
    /\ IF order[p].what = "edit"
         THEN m.kind \in {"lock", "renew", "save", "unlock"} /\ m.session = m.n /\ ~m.force /\ m.id = order[p].id
         ELSE m.kind = order[p].what
    /\ m.n \notin strayed => m.id = order[p].id
    /\ m.kind \in OnVersion => m.base = order[p].base

Mine(p) == {m \in wire : m.n = order[p].n}

Waits(p, kinds) == stage[p] = "waits" /\ asked[p].kind \in kinds

Command(p) ==
    /\ stage[p] # "free" \/ told[p] # "none" => order[p].n # 0
    /\ order[p].n # 0 => order[p].id \in Ids /\ order[p].what # "none"
    /\ order[p].what # "none" => order[p].n # 0
    /\ order[p].n # 0 /\ order[p].what # "new" => life[order[p].id] # "unborn"
    /\ stage[p] \in {"reads", "edits"} => order[p].what = "edit"
    /\ stage[p] \in {"saves", "uploads"} => order[p].what \in {"new", "put", "edit"}
    /\ stage[p] = "waits" => /\ asked[p] \in Requests /\ asked[p].p = p /\ asked[p].n = order[p].n
                             /\ Agrees(asked[p], p) /\ asked[p].kind # "renew"
    /\ inbox[p] # "none" => stage[p] = "waits"
    /\ inbox[p] = "too_large" => Waits(p, {"new", "put", "save"})
    /\ \A m \in Mine(p) : Agrees(m, p)

\* What a command would change once more it finds changed already.
Spent(p) ==
    LET d == order[p].id IN
    CASE order[p].what = "new" -> life[d] # "unborn"
      [] order[p].what = "rm" -> life[d] = "deleted" \/ Len(versions[d]) > order[p].base
      [] order[p].what \in {"put", "relate", "restore", "edit"} -> Len(versions[d]) > order[p].base
      [] OTHER -> FALSE

Once(p) ==
    order[p].n \notin strayed \cup {0} =>
        /\ order[p].read = order[p].id
        /\ order[p].what = "put" => Basis(order[p].id, order[p].base, order[p].from)
        /\ order[p].what \in {"put", "rm", "relate", "restore"} => order[p].base <= Len(versions[order[p].id])
        /\ order[p].what # "mv" => did[order[p].n] \in {0, 1} /\ (did[order[p].n] = 1 => Spent(p))

-----------------------------------------------------------------------------
(* An edit, from the lock to the unlock.                                   *)

Before(p) == stage[p] \in {"resolves", "reads"} \/ Waits(p, {"lock"})
Awaited(m, p) == stage[p] = "waits" /\ asked[p] = m /\ inbox[p] = "none"
Saving(p) == stage[p] \in {"edits", "saves", "uploads"} \/ Waits(p, {"save"})

\* Where the requests of an edit may still be.
EditWire(p) ==
    /\ stage[p] = "resolves" => Mine(p) = {}
    /\ \A m \in Mine(p) :
        /\ m.kind = "lock" => Awaited(m, p) \/ (stage[p] = "free" /\ order[p].n \in leaky)
        /\ m.kind = "save" => Awaited(m, p) \/ stage[p] = "free" \/ Waits(p, {"unlock"})
        /\ m.kind = "renew" => m = RenewLock(p) /\ order[p].n \in renewing \cup leaky
        /\ m.kind = "unlock" => stage[p] = "free" \/ Waits(p, {"unlock"})
    /\ order[p].n \in renewing => stage[p] = "edits"

\* What is typed.
EditText(p) ==
    /\ Before(p) => did[order[p].n] = 0
    /\ Before(p) \/ stage[p] = "edits" => order[p].n \notin typedText
    /\ stage[p] = "edits" => order[p].n \in kept
    /\ Saving(p) => Basis(order[p].id, order[p].base, order[p].from)
    /\ Waits(p, {"save"}) /\ inbox[p] \in {"done", "same"} => InHistory(order[p].n)

LockedUnread(p) == stage[p] = "reads" \/ (Waits(p, {"lock"}) /\ inbox[p] = "done")
Unsaved(p) == Saving(p) /\ inbox[p] \in {"none", "too_large"}
Unlocked(p) ==
    \/ stage[p] \in {"free", "resolves"}
    \/ Waits(p, {"lock"}) /\ inbox[p] # "done"
    \/ Waits(p, {"unlock"}) /\ inbox[p] # "none"

\* The lock is held from its answer to the save's.
EditHolds(p) ==
    /\ order[p].n \notin lockLost /\ (LockedUnread(p) \/ Unsaved(p))
        => lockedBy[order[p].id] = order[p].n
    /\ order[p].n \notin lockLost /\ Unsaved(p)
        => order[p].base = Len(versions[order[p].id])
    /\ Waits(p, {"lock"}) => inbox[p] # "conflict"
    /\ Waits(p, {"save"}) /\ inbox[p] = "conflict" => order[p].n \in lockLost
    /\ told[p] = "conflict" => order[p].n \in lockLost

\* Nothing is locked before the lock is answered, nor after the unlock is.
EditLeaves(p) ==
    order[p].n \notin leaky =>
        /\ \A d \in Ids : lockedBy[d] = order[p].n => d = order[p].id
        /\ Unlocked(p) => \A d \in Ids : lockedBy[d] # order[p].n

Edit(p) == order[p].what = "edit" => EditWire(p) /\ EditText(p) /\ EditHolds(p) /\ EditLeaves(p)

DeskInv ==
    /\ DeskTypes /\ Numbered /\ OwnSession /\ Documents
    /\ \A p \in People : Command(p) /\ Once(p) /\ Edit(p)

-----------------------------------------------------------------------------
(* What the requests are.                                                  *)

OfKind(m, p, kind, d, base, words) ==
    /\ m \in Requests /\ m.p = p /\ m.n = order[p].n /\ m.id = d /\ m.force = order[p].force /\ m.kind = kind
    /\ m.session = (IF order[p].session = 0 THEN order[p].n ELSE order[p].session)
    /\ m.base = base /\ m.words = words /\ (words # 0 => m.from = order[p].from)

LEMMA RequestIs ==
  ASSUME DeskTypes, NEW p \in People, NEW kind \in Methods, NEW d \in Ids, NEW base \in Nat, NEW place \in Nat,
         NEW words \in Nat, NEW how \in {"inline", "upload", ""}
  PROVE  OfKind(Request(p, kind, d, base, place, words, how), p, kind, d, base, words)
BY DEF DeskTypes, Orders, Request, SessionOf, Requests, OfKind

\* The requests of an edit.
LEMMA EditRequestsAre ==
  ASSUME DeskTypes, NEW p \in People, order[p].id \in Ids
  PROVE  /\ OfKind(Unlock(p, order[p].id), p, "unlock", order[p].id, 0, 0)
         /\ OfKind(RenewLock(p), p, "renew", order[p].id, 0, 0)
         /\ OfKind(PutInSession(p), p, "save", order[p].id, order[p].base, order[p].n)
<1> DEFINE d == order[p].id
           base == order[p].base
           n == order[p].n
           how == order[p].how
<1>1. /\ d \in Ids /\ base \in Nat /\ n \in Nat /\ how \in {"inline", "upload", ""} /\ "" \in {"inline", "upload", ""}
      /\ "unlock" \in Methods /\ "renew" \in Methods /\ "save" \in Methods /\ 0 \in Nat
  BY DEF DeskTypes, Orders, Methods
<1>2. /\ Unlock(p, d) = Request(p, "unlock", d, 0, 0, 0, "") /\ RenewLock(p) = Request(p, "renew", d, 0, 0, 0, "")
      /\ PutInSession(p) = Request(p, "save", d, base, 0, n, how)
  BY DEF Unlock, RenewLock, PutInSession, Base
<1> HIDE DEF d, base, n, how
<1>3. OfKind(Unlock(p, d), p, "unlock", d, 0, 0)
  BY <1>1, <1>2, RequestIs
<1>4. OfKind(RenewLock(p), p, "renew", d, 0, 0)
  BY <1>1, <1>2, RequestIs
<1>5. OfKind(PutInSession(p), p, "save", d, base, n)
  <2>1. OfKind(Request(p, "save", d, base, 0, n, how), p, "save", d, base, n)
    BY <1>1, RequestIs
  <2> QED
    BY <1>2, <2>1
<1> QED
  BY <1>3, <1>4, <1>5 DEF d, base, n

IsMethod(m, p, d) ==
    /\ m \in Requests /\ m.p = p /\ m.n = order[p].n /\ m.id = d /\ m.force = order[p].force
    /\ m.kind = (IF order[p].what = "edit" THEN "lock" ELSE order[p].what)
    /\ m.session = (IF order[p].session = 0 THEN order[p].n ELSE order[p].session)
    /\ m.kind \in OnVersion => m.base = order[p].base
    /\ m.kind = "put" => m.words = order[p].n /\ m.from = order[p].from

\* The request of a command, as it is sent for document d.
LEMMA MethodIs ==
  ASSUME DeskTypes, NEW p \in People, order[p].n # 0, order[p].what # "none", NEW d \in Ids
  PROVE  IsMethod(Method(p, d), p, d)
<1> DEFINE o == order[p]
<1>1. /\ o.n \in Nat /\ o.base \in Nat /\ o.dest \in Nat /\ o.how \in {"inline", "upload", ""} /\ o.what \in Commands
  BY DEF DeskTypes, Orders
<1>m. /\ "new" \in Methods /\ "put" \in Methods /\ "mv" \in Methods /\ "rm" \in Methods /\ "restore" \in Methods
      /\ "relate" \in Methods /\ "lock" \in Methods /\ "unlock" \in Methods /\ "" \in {"inline", "upload", ""} /\ 0 \in Nat
  BY DEF Methods
<1>2. CASE o.what = "new"
  <2>1. Method(p, d) = Request(p, "new", d, 0, o.dest, o.n, o.how)
    BY <1>2 DEF Method, New
  <2>2. OfKind(Request(p, "new", d, 0, o.dest, o.n, o.how), p, "new", d, 0, o.n)
    BY <1>1, <1>m, RequestIs
  <2>3. OfKind(Method(p, d), p, "new", d, 0, o.n)
    BY <2>1, <2>2
  <2> QED
    BY <2>3, <1>2 DEF OnVersion, OfKind, IsMethod
<1>3. CASE o.what = "put"
  <2>1. Method(p, d) = Request(p, "put", d, o.base, 0, o.n, o.how)
    BY <1>3 DEF Method, Put, Base
  <2>2. OfKind(Request(p, "put", d, o.base, 0, o.n, o.how), p, "put", d, o.base, o.n)
    BY <1>1, <1>m, RequestIs
  <2>3. OfKind(Method(p, d), p, "put", d, o.base, o.n)
    BY <2>1, <2>2
  <2> QED
    BY <2>3, <1>3 DEF OnVersion, OfKind, IsMethod
<1>4. CASE o.what = "mv"
  <2>1. Method(p, d) = Request(p, "mv", d, o.base, o.dest, 0, "")
    BY <1>4 DEF Method, Move, Base
  <2>2. OfKind(Request(p, "mv", d, o.base, o.dest, 0, ""), p, "mv", d, o.base, 0)
    BY <1>1, <1>m, RequestIs
  <2>3. OfKind(Method(p, d), p, "mv", d, o.base, 0)
    BY <2>1, <2>2
  <2> QED
    BY <2>3, <1>4 DEF OnVersion, OfKind, IsMethod
<1>5. CASE o.what \in {"rm", "restore", "relate"}
  <2>1. Method(p, d) = Request(p, o.what, d, o.base, 0, 0, "")
    BY <1>5 DEF Method, Delete, Restore, UpdateRelations, Base
  <2>2. OfKind(Request(p, o.what, d, o.base, 0, 0, ""), p, o.what, d, o.base, 0)
    BY <1>1, <1>m, <1>5, RequestIs
  <2>3. OfKind(Method(p, d), p, o.what, d, o.base, 0)
    BY <2>1, <2>2
  <2> QED
    BY <2>3, <1>5 DEF OnVersion, OfKind, IsMethod
<1>6. CASE o.what \in {"lock", "unlock", "edit"}
  <2> DEFINE kind == IF o.what = "unlock" THEN "unlock" ELSE "lock"
  <2>1. Method(p, d) = Request(p, kind, d, 0, 0, 0, "")
    BY <1>6 DEF Method, Lock, Unlock
  <2>2. OfKind(Request(p, kind, d, 0, 0, 0, ""), p, kind, d, 0, 0)
    BY <1>1, <1>m, RequestIs
  <2>3. OfKind(Method(p, d), p, kind, d, 0, 0)
    BY <2>1, <2>2
  <2> QED
    BY <2>3, <1>6 DEF OnVersion, OfKind, IsMethod
<1> QED
  BY <1>1, <1>2, <1>3, <1>4, <1>5, <1>6 DEF Commands

-----------------------------------------------------------------------------
(* A person's step leaves the documents alone, and what is other people's.  *)

Turn(p) ==
    /\ UNCHANGED <<documents, did, lockLost>>
    /\ \A q \in People \ {p} : /\ stage'[q] = stage[q] /\ order'[q] = order[q] /\ asked'[q] = asked[q]
                              /\ inbox'[q] = inbox[q] /\ told'[q] = told[q]
    /\ \/ order'[p].n = order[p].n /\ order[p].n # 0 /\ orders' = orders
       \/ order'[p].n = orders + 1 /\ orders' = orders + 1
    /\ wire \subseteq wire' /\ \A m \in wire' \ wire : m.n = order'[p].n
    /\ renewing' \subseteq renewing \cup {order'[p].n} /\ renewing \subseteq renewing' \cup {order'[p].n}
    /\ kept' \subseteq kept \cup {order'[p].n} /\ kept \subseteq kept' \cup {order'[p].n}
    /\ typedText' \subseteq typedText \cup {order'[p].n} /\ typedText \subseteq typedText'
    /\ leaky' \subseteq leaky \cup {order'[p].n} /\ leaky \subseteq leaky'
    /\ strayed' \subseteq strayed \cup {order'[p].n} /\ strayed \subseteq strayed'
    /\ heldSessions' \subseteq heldSessions \cup {order'[p].n} /\ heldSessions \subseteq heldSessions'

\* What is new of p's.
Own(p) ==
    /\ order'[p].session \in {0} \cup heldSessions'
    /\ order'[p].what = "edit" => order'[p].session = 0 /\ ~order'[p].force /\ order'[p].n \notin heldSessions'
    /\ \A m \in wire' \ wire :
        /\ m.session \in {m.n} \cup heldSessions' /\ (m.kind # "new" => life[m.id] # "unborn")
        /\ m.kind \in {"put", "save"} => m.words = m.n /\ (m.n \notin strayed' => Basis(m.id, m.base, m.from))
    /\ order'[p].n \in typedText' => order'[p].n \in kept' \/ InHistory(order'[p].n)
    /\ Command(p)' /\ Once(p)' /\ Edit(p)'

LEMMA OthersKeep ==
  ASSUME DeskInv, NEW p \in People, NEW q \in People, p # q, Turn(p)
  PROVE  Command(q)' /\ Once(q)' /\ Edit(q)'
<1> DEFINE n == order[q].n
<1>1. /\ stage'[q] = stage[q] /\ order'[q] = order[q] /\ asked'[q] = asked[q] /\ inbox'[q] = inbox[q]
      /\ told'[q] = told[q] /\ UNCHANGED <<life, versions, lockedBy, did, lockLost>>
  BY DEF Turn, documents
<1>2. n \in Nat /\ n # order'[p].n
  BY DEF Turn, DeskInv, Numbered, DeskTypes
<1>3. /\ n \in renewing' <=> n \in renewing
      /\ n \in kept' <=> n \in kept
      /\ n \in typedText' <=> n \in typedText
      /\ n \in leaky' <=> n \in leaky
      /\ n \in strayed' <=> n \in strayed
  BY <1>2 DEF Turn
<1>4. Mine(q)' = Mine(q)
  BY <1>1, <1>2 DEF Turn, Mine
<1>5. \A m \in Mine(q) : Agrees(m, q)' <=> Agrees(m, q)
  BY <1>1, <1>3 DEF Agrees, Mine
<1>6. asked[q].n = n => (Agrees(asked[q], q)' <=> Agrees(asked[q], q))
  BY <1>1, <1>3 DEF Agrees
<1>7. Command(q)'
  BY <1>1, <1>4, <1>5, <1>6 DEF Command, DeskInv, Waits
<1>8. Once(q)'
  <2>1. Spent(q)' <=> Spent(q)
    BY <1>1 DEF Spent
  <2>2. Basis(order[q].id, order[q].base, order[q].from)' <=> Basis(order[q].id, order[q].base, order[q].from)
    BY <1>1 DEF Basis
  <2> QED
    BY <1>1, <1>3, <2>1, <2>2 DEF Once, DeskInv
<1>9. Edit(q)'
  <2>1. EditWire(q) => EditWire(q)'
    BY <1>1, <1>3, <1>4 DEF EditWire, Awaited, Waits, RenewLock, Request, SessionOf
  <2>2. EditText(q) => EditText(q)'
    BY <1>1, <1>3 DEF EditText, Before, Saving, Waits, Basis, InHistory
  <2>3. EditHolds(q) => EditHolds(q)'
    BY <1>1 DEF EditHolds, LockedUnread, Unsaved, Saving, Waits
  <2>4. EditLeaves(q) => EditLeaves(q)'
    BY <1>1, <1>3 DEF EditLeaves, Unlocked, Waits
  <2> QED
    BY <1>1, <2>1, <2>2, <2>3, <2>4 DEF Edit, DeskInv
<1> QED
  BY <1>7, <1>8, <1>9

LEMMA TurnKeeps ==
  ASSUME DeskInv, NEW p \in People, Turn(p), DeskTypes', Own(p)
  PROVE  DeskInv'
<1> DEFINE n == order'[p].n
<1>1. UNCHANGED <<life, filed, versions, lockedBy, did, lockLost>>
  BY DEF Turn, documents
<1>2. n \in 1..orders' /\ orders \in Nat /\ orders' \in Nat /\ orders <= orders'
  BY DEF Turn, DeskInv, Numbered, DeskTypes
<1>3. \A q \in People \ {p} : order'[q] = order[q] /\ order[q].n # n
  BY DEF Turn, DeskInv, Numbered, DeskTypes
<1>4. \A m \in wire' \ wire : m.n = n
  BY DEF Turn
<1>5. Numbered'
  <2>1. \A q \in People : order'[q].n \in 0..orders'
    BY <1>2, <1>3 DEF Numbered, DeskInv
  <2>2. \A q, r \in People : order'[q].n = order'[r].n /\ order'[q].n # 0 => q = r
    BY <1>3 DEF Numbered, DeskInv
  <2>3. \A m \in wire' : m.n \in 1..orders'
    BY <1>2, <1>4 DEF Numbered, DeskInv
  <2>4. renewing' \cup kept' \cup heldSessions' \cup typedText' \subseteq 1..orders'
    BY <1>2 DEF Turn, Numbered, DeskInv
  <2>5. \A d \in Ids : lockedBy'[d] \in 0..orders'
    BY <1>1, <1>2 DEF Numbered, DeskInv
  <2>6. \A k \in 1..MaxOrders : k > orders' => did'[k] = 0
    BY <1>1, <1>2, PersonAssumption DEF Numbered, DeskInv
  <2> QED
    BY <2>1, <2>2, <2>3, <2>4, <2>5, <2>6 DEF Numbered
<1>6. OwnSession'
  BY <1>3, <1>4 DEF OwnSession, Own, Turn, DeskInv
<1>7. Documents'
  <2>1. \A d \in Ids : (versions'[d] = <<>> <=> life'[d] = "unborn") /\ (lockedBy'[d] # 0 => Live(d)')
    BY <1>1 DEF Documents, DeskInv, Live
  <2>2. MadeFromRead'
    BY <1>1 DEF MadeFromRead, Documents, DeskInv, Turn
  <2>3. \A m \in wire' : m.kind \in {"put", "save"} =>
            m.words = m.n /\ (m.n \notin strayed' => Basis(m.id, m.base, m.from)')
    <3>1. \A d, base, from : Basis(d, base, from)' <=> Basis(d, base, from)
      BY <1>1 DEF Basis
    <3> QED
      BY <3>1 DEF Documents, DeskInv, Turn, Own
  <2>5. \A m \in wire' : m.kind # "new" => life'[m.id] # "unborn"
    BY <1>1 DEF Documents, DeskInv, Own
  <2>4. \A k \in typedText' : k \in kept' \/ InHistory(k)'
    <3>1. \A k : InHistory(k)' <=> InHistory(k)
      BY <1>1 DEF InHistory
    <3> QED
      BY <3>1 DEF Documents, DeskInv, Turn, Own
  <2> QED
    BY <2>1, <2>2, <2>3, <2>4, <2>5 DEF Documents
<1>8. \A q \in People : Command(q)' /\ Once(q)' /\ Edit(q)'
  BY OthersKeep DEF Own
<1> QED
  BY <1>5, <1>6, <1>7, <1>8 DEF DeskInv

-----------------------------------------------------------------------------
(* A command is typed, typed again, and its document found.                *)

\* A new command has no request, and nothing is locked or typed for it.
LEMMA TypesKeeps ==
  ASSUME DeskInv, NEW p \in People, NEW what \in Commands, NEW d \in Ids, NEW ref \in {"id", "path"},
         NEW from \in Nat, NEW dest \in Nat, NEW session \in {0} \cup heldSessions, NEW force \in BOOLEAN,
         TypesWith(p, what, d, ref, from, dest, session, force),
         what # "new" => life[d] # "unborn", what = "edit" => session = 0 /\ ~force, what = "put" => Basis(d, Len(versions[d]), from)
  PROVE  DeskInv'
<1> DEFINE n == orders + 1
<1>1. /\ orders \in Nat /\ orders < MaxOrders /\ heldSessions \subseteq Nat /\ n \in 1..MaxOrders
      /\ filed \in [Ids -> Nat] /\ versions \in [Ids -> Seq(Version)] /\ orders' = orders + 1
  BY PersonAssumption DEF DeskInv, DeskTypes, Numbered, TypesWith
<1>2. /\ order' = [order EXCEPT ![p] = [n |-> n, try |-> 1, what |-> what, ref |-> ref, read |-> d, id |-> d,
                   path |-> filed[d], dest |-> dest, base |-> Len(versions[d]), from |-> from, how |-> "inline",
                   session |-> session, force |-> force]]
      /\ stage[p] = "free" /\ stage' = [stage EXCEPT ![p] = "resolves"] /\ told' = [told EXCEPT ![p] = "none"]
      /\ UNCHANGED <<documents, wire, asked, inbox, renewing, kept, heldSessions, mishaps, deskHistory>>
  BY DEF TypesWith
<1>3. order'[p] \in Orders
  <2> DEFINE o == [n |-> n, try |-> 1, what |-> what, ref |-> ref, read |-> d, id |-> d, path |-> filed[d],
                   dest |-> dest, base |-> Len(versions[d]), from |-> from, how |-> "inline",
                   session |-> session, force |-> force]
  <2>1. Len(versions[d]) \in Nat /\ filed[d] \in Nat /\ session \in Nat /\ d \in Nat /\ n \in Nat
    BY <1>1, PersonAssumption
  <2>2. o \in Orders
    BY <2>1 DEF Orders
  <2>3. order'[p] = o
    BY <1>2 DEF DeskInv, DeskTypes
  <2> QED
    BY <2>2, <2>3
<1>4. DeskTypes'
  BY <1>1, <1>2, <1>3 DEF DeskInv, DeskTypes, documents, deskHistory, Stages
<1>5. /\ order'[p].n = n /\ order'[p].what = what /\ order'[p].read = d /\ order'[p].id = d
      /\ order'[p].base = Len(versions[d]) /\ order'[p].from = from /\ order'[p].session = session
      /\ order'[p].force = force /\ stage'[p] = "resolves" /\ told'[p] = "none"
  BY <1>2 DEF DeskInv, DeskTypes
<1>6. Turn(p)
  BY <1>1, <1>2, <1>5 DEF Turn, documents, deskHistory, DeskInv, DeskTypes
<1>7. inbox'[p] = "none"
  BY <1>2 DEF DeskInv, Command
<1>8. /\ n \notin renewing /\ n \notin typedText /\ n \notin heldSessions /\ did[n] = 0
      /\ (\A m \in wire : m.n # n) /\ \A e \in Ids : lockedBy[e] # n
  BY <1>1 DEF DeskInv, Numbered
<1>9. Mine(p)' = {}
  BY <1>2, <1>5, <1>8 DEF Mine
<1>10. Command(p)'
  BY <1>2, <1>5, <1>7, <1>9, <1>1 DEF Command, Waits, Commands, documents
<1>11. Once(p)'
  <2>1. did'[n] = 0 /\ versions' = versions
    BY <1>2, <1>8 DEF deskHistory, documents
  <2>2. Len(versions[d]) <= Len(versions[d])
    BY <1>1
  <2> QED
    BY <1>5, <2>1, <2>2 DEF Once, Basis
<1>12. Edit(p)'
  <2>1. EditWire(p)'
    BY <1>2, <1>5, <1>8, <1>9 DEF EditWire
  <2>2. EditText(p)'
    BY <1>2, <1>5, <1>8 DEF EditText, Waits, Saving, Before, deskHistory
  <2>3. EditHolds(p)'
    BY <1>5, <1>7 DEF EditHolds, Waits, LockedUnread, Unsaved, Saving
  <2>4. EditLeaves(p)'
    BY <1>2, <1>5, <1>8 DEF EditLeaves, documents
  <2> QED
    BY <2>1, <2>2, <2>3, <2>4 DEF Edit
<1>13. Own(p)
  BY <1>2, <1>5, <1>8, <1>10, <1>11, <1>12 DEF Own, deskHistory
<1> QED
  BY <1>4, <1>6, <1>13, TurnKeeps

\* What was read is the text of the last version.
LEMMA ContentsAre ==
  ASSUME DeskTypes, NEW d \in Ids, NEW w \in Contents(d)
  PROVE  w \in Nat /\ Basis(d, Len(versions[d]), w)
<1>1. versions[d] \in Seq(Version)
  BY DEF DeskTypes
<1>2. PICK v \in DOMAIN versions[d] : w = versions[d][v].words
  BY DEF Contents
<1>3. w = versions[d][Len(versions[d])].words
  BY DEF Contents, IsContent, Current
<1>4. versions[d][v] \in Version /\ Len(versions[d]) \in DOMAIN versions[d]
  BY <1>1, <1>2
<1> QED
  BY <1>2, <1>3, <1>4 DEF Version, Basis

LEMMA CommandKeeps ==
  ASSUME DeskInv, NEW p \in People,
         \/ NewCmd(p) \/ PutCmd(p) \/ MvCmd(p) \/ RmCmd(p) \/ RestoreCmd(p) \/ RelateCmd(p) \/ EditCmd(p)
         \/ LockCmd(p) \/ UnlockCmd(p)
  PROVE  DeskInv'
<1>1. Refs \subseteq {"id", "path"} /\ Places \subseteq Nat /\ FALSE \in BOOLEAN /\ TRUE \in BOOLEAN /\ 0 \in Nat
  BY PersonAssumption
<1>2. 0 \in {0} \cup heldSessions
  OBVIOUS
<1>3. CASE NewCmd(p)
  <2>1. PICK d \in Ids, dest \in Nat : TypesWith(p, "new", d, "id", 0, dest, 0, FALSE)
    BY <1>1, <1>3 DEF NewCmd, Types, Fresh
  <2> QED
    BY <2>1, TypesKeeps DEF Commands
<1>4. CASE PutCmd(p)
  <2>1. PICK d \in Ids, ref \in {"id", "path"}, s \in {0} \cup heldSessions :
             life[d] # "unborn" /\ \E w \in Contents(d) : TypesWith(p, "put", d, ref, w, 0, s, FALSE)
    BY <1>1, <1>4 DEF PutCmd, Known
  <2> PICK w \in Contents(d) : TypesWith(p, "put", d, ref, w, 0, s, FALSE)
    BY <2>1
  <2>2. w \in Nat /\ Basis(d, Len(versions[d]), w)
    BY ContentsAre DEF DeskInv
  <2> QED
    BY <2>1, <2>2, TypesKeeps DEF Commands
<1>5. CASE MvCmd(p)
  <2>1. PICK d \in Ids, ref \in {"id", "path"}, dest \in Nat, s \in {0} \cup heldSessions :
             life[d] # "unborn" /\ TypesWith(p, "mv", d, ref, 0, dest, s, FALSE)
    BY <1>1, <1>5 DEF MvCmd, Known
  <2> QED
    BY <2>1, TypesKeeps DEF Commands
<1>6. CASE RmCmd(p) \/ RestoreCmd(p) \/ RelateCmd(p) \/ EditCmd(p)
  <2>1. PICK what \in {"rm", "restore", "relate", "edit"}, d \in Ids, ref \in {"id", "path"} :
             life[d] # "unborn" /\ TypesWith(p, what, d, ref, 0, 0, 0, FALSE)
    BY <1>1, <1>6 DEF RmCmd, RestoreCmd, RelateCmd, EditCmd, Types, Known
  <2> QED
    BY <2>1, TypesKeeps DEF Commands
<1>7. CASE LockCmd(p) \/ UnlockCmd(p)
  <2>1. PICK what \in {"lock", "unlock"}, d \in Ids, ref \in {"id", "path"}, s \in {0} \cup heldSessions,
             force \in BOOLEAN : life[d] # "unborn" /\ TypesWith(p, what, d, ref, 0, 0, s, force)
    BY <1>1, <1>7 DEF LockCmd, UnlockCmd, Known
  <2> QED
    BY <2>1, TypesKeeps DEF Commands
<1> QED
  BY <1>3, <1>4, <1>5, <1>6, <1>7

\* A command that is typed again keeps its number.
LEMMA RepeatsKeeps ==
  ASSUME DeskInv, NEW p \in People, Repeats(p)
  PROVE  DeskInv'
<1>1. /\ order' = [order EXCEPT ![p].try = 2] /\ stage[p] = "free" /\ told[p] = "noreply"
      /\ order[p].what # "edit" /\ stage' = [stage EXCEPT ![p] = "resolves"]
      /\ UNCHANGED <<documents, wire, asked, inbox, told, renewing, kept, heldSessions, orders, mishaps, deskHistory>>
  BY DEF Repeats
<1>2. order[p] \in Orders
  BY DEF DeskInv, DeskTypes
<1>3. /\ order'[p] \in Orders /\ order'[p].n = order[p].n /\ order'[p].what = order[p].what
      /\ order'[p].read = order[p].read /\ order'[p].id = order[p].id /\ order'[p].base = order[p].base
      /\ order'[p].from = order[p].from /\ order'[p].session = order[p].session
      /\ order'[p].force = order[p].force
  BY <1>1, <1>2 DEF Orders, DeskInv, DeskTypes
<1>4. DeskTypes'
  BY <1>1, <1>3 DEF DeskInv, DeskTypes, documents, deskHistory, Stages
<1>5. order[p].n # 0
  BY <1>1 DEF DeskInv, Command
<1>6. stage'[p] = "resolves" /\ told'[p] = "noreply" /\ inbox'[p] = "none"
  BY <1>1 DEF DeskInv, DeskTypes, Command
<1>7. Turn(p)
  BY <1>1, <1>3, <1>5 DEF Turn, documents, deskHistory, DeskInv, DeskTypes
<1>8. Mine(p)' = Mine(p) /\ \A m \in Mine(p) : Agrees(m, p)' <=> Agrees(m, p)
  BY <1>1, <1>3 DEF Mine, Agrees, deskHistory
<1>9. Command(p)'
  BY <1>1, <1>3, <1>5, <1>6, <1>8 DEF Command, Waits, DeskInv, documents
<1>10. Once(p)'
  BY <1>1, <1>3 DEF Once, Spent, Basis, DeskInv, documents, deskHistory
<1>11. Own(p)
  BY <1>1, <1>3, <1>9, <1>10 DEF Own, Edit, OwnSession, Documents, InHistory, DeskInv, deskHistory
<1> QED
  BY <1>4, <1>7, <1>11, TurnKeeps

-----------------------------------------------------------------------------
(* The ways a command goes on, or ends.                                    *)

\* What a step of p that makes no command does to the rest.
GoesOn(p) ==
    /\ UNCHANGED <<documents, orders, did, lockLost>> /\ DeskTypes'
    /\ \A q \in People \ {p} : /\ stage'[q] = stage[q] /\ order'[q] = order[q] /\ asked'[q] = asked[q]
                              /\ inbox'[q] = inbox[q] /\ told'[q] = told[q]
    /\ stage[p] # "free" /\ wire \subseteq wire'
    /\ order'[p].n = order[p].n /\ order'[p].what = order[p].what /\ order'[p].read = order[p].read
    /\ order'[p].session = order[p].session /\ order'[p].force = order[p].force
    /\ renewing' \subseteq renewing \cup {order[p].n} /\ renewing \subseteq renewing' \cup {order[p].n}
    /\ kept' \subseteq kept \cup {order[p].n} /\ kept \subseteq kept' \cup {order[p].n}
    /\ typedText' \subseteq typedText \cup {order[p].n} /\ typedText \subseteq typedText'
    /\ leaky' \subseteq leaky \cup {order[p].n} /\ leaky \subseteq leaky'
    /\ strayed' \subseteq strayed \cup {order[p].n} /\ strayed \subseteq strayed'
    /\ heldSessions' \subseteq heldSessions \cup {order[p].n} /\ heldSessions \subseteq heldSessions'
    /\ order[p].what = "edit" => heldSessions' = heldSessions
    /\ order[p].n \in typedText' => order[p].n \in kept' \/ InHistory(order[p].n)

LEMMA GoesOnIsTurn ==
  ASSUME DeskInv, NEW p \in People, GoesOn(p), \A m \in wire' \ wire : m.n = order[p].n
  PROVE  Turn(p) /\ order[p].n # 0 /\ order[p].id \in Ids /\ order[p].what # "none"
BY DEF GoesOn, Turn, DeskInv, Command

\* What p's request may be: of p's command, in p's session, with what was read.
NewRequest(m, p) ==
    /\ m.n = order[p].n /\ m.session \in {m.n} \cup heldSessions'
    /\ m.kind # "new" => life[m.id] # "unborn"
    /\ m.kind \in {"put", "save"} => m.words = m.n /\ (m.n \notin strayed' => Basis(m.id, m.base, m.from))

LEMMA GoesOnKeeps ==
  ASSUME DeskInv, NEW p \in People, GoesOn(p), \A m \in wire' \ wire : NewRequest(m, p),
         Command(p)', Once(p)', Edit(p)'
  PROVE  DeskInv'
<1>1. Turn(p)
  BY GoesOnIsTurn DEF NewRequest
<1>2. Own(p)
  BY DEF Own, GoesOn, NewRequest, DeskInv, OwnSession
<1> QED
  BY <1>1, <1>2, TurnKeeps DEF GoesOn

LEMMA OnceKept ==
  ASSUME DeskInv, NEW p \in People, UNCHANGED <<life, versions, did, order, strayed>>
  PROVE  Once(p)'
BY DEF DeskInv, Once, Spent, Basis

\* An edit asks to unlock, whatever came of it.
LEMMA UnlocksKeeps ==
  ASSUME DeskInv, NEW p \in People, GoesOn(p), order' = order, strayed' = strayed, heldSessions' = heldSessions,
         order[p].what = "edit", stage[p] \in {"reads", "edits", "saves", "uploads"} \/ Waits(p, {"save"}),
         Unlocks(p), inbox'[p] = "none", told'[p] = "conflict" => order[p].n \in lockLost,
         order[p].n \notin renewing', order[p].n \in renewing => order[p].n \in leaky'
  PROVE  DeskInv'
<1> DEFINE n == order[p].n
<1>1. /\ n # 0 /\ order[p].id \in Ids /\ order[p].session = 0 /\ ~order[p].force
      /\ life[order[p].id] # "unborn" /\ UNCHANGED <<life, filed, versions, lockedBy, did, lockLost>>
  BY DEF DeskInv, Command, OwnSession, GoesOn, documents
<1>2. DeskTypes
  BY DEF DeskInv
<1>3. PICK u : /\ u = Unlock(p, order[p].id) /\ u \in Requests /\ u.p = p /\ u.n = n /\ u.id = order[p].id
               /\ ~u.force /\ u.kind = "unlock" /\ u.session = n
  BY <1>1, <1>2, EditRequestsAre DEF OfKind
<1>4. wire' = wire \cup {u} /\ asked'[p] = u /\ stage'[p] = "waits"
  BY <1>2, <1>3 DEF Unlocks, Ask, DeskTypes
<1>5. \A m \in wire' \ wire : NewRequest(m, p)
  BY <1>1, <1>3, <1>4 DEF NewRequest
<1>6. Agrees(u, p)'
  BY <1>3 DEF Agrees, OnVersion
<1>7. Mine(p)' = Mine(p) \cup {u}
  BY <1>3, <1>4 DEF Mine
<1>8. Command(p)'
  <2>1. \A m \in Mine(p) : Agrees(m, p)'
    BY DEF DeskInv, Command, Agrees
  <2> QED
    BY <1>1, <1>3, <1>4, <1>6, <1>7, <2>1 DEF Command, documents
<1>9. EditWire(p)'
  <2>1. \A m \in Mine(p) : m.kind # "lock" /\ (m.kind = "renew" => m = RenewLock(p) /\ n \in leaky')
    BY DEF DeskInv, Edit, EditWire, Awaited, Waits, GoesOn
  <2> QED
    BY <1>3, <1>4, <1>7, <2>1 DEF EditWire, Waits, RenewLock, Request, SessionOf
<1>10. EditText(p)'
  BY <1>3, <1>4 DEF EditText, Before, Saving, Waits
<1>11. EditHolds(p)'
  BY <1>1, <1>3, <1>4 DEF EditHolds, LockedUnread, Unsaved, Saving, Waits
<1>12. EditLeaves(p)'
  BY <1>1, <1>3, <1>4 DEF EditLeaves, Unlocked, Waits, DeskInv, Edit, GoesOn
<1>13. Edit(p)'
  BY <1>9, <1>10, <1>11, <1>12 DEF Edit
<1>14. Once(p)'
  BY <1>1, OnceKept
<1> QED
  BY <1>5, <1>8, <1>13, <1>14, GoesOnKeeps

\* A command is over: an edit that left nothing has no lock, and no request that would lock.
LEMMA FreeKeeps ==
  ASSUME DeskInv, NEW p \in People, GoesOn(p), order' = order, strayed' = strayed, wire' = wire, Free(p),
         inbox'[p] = "none", order[p].what = "edit" =>
            /\ told'[p] = "conflict" => order[p].n \in lockLost
            /\ order[p].n \notin renewing' /\ (order[p].n \in renewing => order[p].n \in leaky')
            /\ order[p].n \notin leaky' => Unlocked(p) /\ \A m \in Mine(p) : m.kind # "lock"
  PROVE  DeskInv'
<1> DEFINE n == order[p].n
<1>1. /\ n # 0 /\ stage'[p] = "free" /\ UNCHANGED <<life, filed, versions, lockedBy, did, lockLost>>
  BY DEF DeskInv, DeskTypes, Command, GoesOn, documents, Free
<1>2. Mine(p)' = Mine(p)
  BY DEF Mine
<1>3. Command(p)'
  BY <1>1, <1>2 DEF Command, Agrees, DeskInv
<1>4. ASSUME order[p].what = "edit"
      PROVE  EditWire(p)' /\ EditText(p)' /\ EditHolds(p)' /\ EditLeaves(p)'
  <2>1. EditWire(p)'
    BY <1>1, <1>2, <1>4 DEF EditWire, Edit, DeskInv, GoesOn, RenewLock, Request, SessionOf
  <2>2. EditText(p)' /\ EditHolds(p)'
    BY <1>1, <1>4 DEF EditText, EditHolds, Before, Saving, Waits, LockedUnread, Unsaved
  <2>3. EditLeaves(p)'
    BY <1>1, <1>4 DEF EditLeaves, Edit, DeskInv, GoesOn
  <2> QED
    BY <2>1, <2>2, <2>3
<1>5. Edit(p)'
  BY <1>4 DEF Edit
<1>6. Once(p)'
  BY <1>1, OnceKept
<1> QED
  BY <1>3, <1>5, <1>6, GoesOnKeeps

-----------------------------------------------------------------------------
(* The steps of an edit.                                                   *)

LEMMA ReadsKeeps ==
  ASSUME DeskInv, NEW p \in People, Reads(p)
  PROVE  DeskInv'
<1> DEFINE n == order[p].n
<1>1. /\ stage[p] = "reads" /\ order[p].what = "edit" /\ inbox[p] = "none" /\ n # 0 /\ order[p].id \in Ids
      /\ n \notin renewing /\ order[p] \in Orders /\ mishaps \in Nat /\ DeskTypes
      /\ life[order[p].id] # "unborn"
      /\ UNCHANGED <<documents, renewing, inbox, heldSessions, orders, did, typedText, lockLost, leaky, strayed>>
  BY DEF Reads, DeskInv, DeskTypes, Command, Edit, EditWire, deskHistory
<1>2. CASE /\ Sees(p) /\ stage' = [stage EXCEPT ![p] = "edits"] /\ kept' = kept \cup {n}
           /\ UNCHANGED <<wire, asked, told, mishaps>>
  <2>1. PICK w \in Contents(order[p].id) :
             order' = [order EXCEPT ![p].base = Len(versions[order[p].id]), ![p].from = w]
    BY <1>2 DEF Sees
  <2>2. w \in Nat /\ Len(versions[order[p].id]) \in Nat /\ Basis(order[p].id, Len(versions[order[p].id]), w)
    BY <1>1, ContentsAre DEF DeskTypes
  <2>3. /\ order'[p] \in Orders /\ order'[p].n = n /\ order'[p].what = "edit" /\ order'[p].read = order[p].read
        /\ order'[p].id = order[p].id /\ order'[p].session = order[p].session /\ order'[p].force = order[p].force
        /\ order'[p].base = Len(versions[order[p].id]) /\ order'[p].from = w
        /\ order'[p].try = order[p].try
    BY <1>1, <2>1, <2>2 DEF Orders, DeskTypes
  <2>4. DeskTypes'
    BY <1>1, <1>2, <2>1, <2>3 DEF DeskTypes, documents, Stages
  <2>5. stage'[p] = "edits" /\ inbox'[p] = "none"
    BY <1>1, <1>2 DEF DeskTypes
  <2>6. GoesOn(p)
    BY <1>1, <1>2, <2>1, <2>3, <2>4 DEF GoesOn, DeskInv, DeskTypes, Documents
  <2>7. /\ \A m \in Mine(p) : Agrees(m, p) /\ m.kind = "renew" /\ m = RenewLock(p) /\ n \in leaky
        /\ n \notin typedText /\ did[n] = 0
        /\ told[p] = "conflict" => n \in lockLost
        /\ n \notin lockLost => lockedBy[order[p].id] = n
        /\ n \notin leaky => \A d \in Ids : lockedBy[d] = n => d = order[p].id
    BY <1>1 DEF DeskInv, Command, Edit, EditWire, EditText, EditHolds, EditLeaves, Awaited, Waits, Before,
       LockedUnread, Agrees
  <2>8. Mine(p)' = Mine(p)
    BY <1>2, <2>3 DEF Mine
  <2>9. Command(p)'
    BY <1>1, <2>3, <2>5, <2>7, <2>8 DEF Command, Agrees, OnVersion, documents
  <2>10. Once(p)'
    BY <1>1, <2>3, <2>7 DEF Once, DeskInv
  <2>11. EditWire(p)'
    BY <1>1, <2>3, <2>5, <2>7, <2>8 DEF EditWire, RenewLock, Request, SessionOf
  <2>12. EditText(p)'
    BY <1>1, <1>2, <2>2, <2>3, <2>5, <2>7 DEF EditText, Before, Waits, Basis, documents
  <2>13. EditHolds(p)' /\ EditLeaves(p)'
    BY <1>1, <1>2, <2>3, <2>5, <2>7 DEF EditHolds, EditLeaves, LockedUnread, Unsaved, Unlocked, Waits, documents
  <2> QED
    BY <1>2, <2>6, <2>9, <2>10, <2>11, <2>12, <2>13, GoesOnKeeps DEF Edit
<1>3. CASE /\ IF Live(order[p].id) THEN Mishap ELSE UNCHANGED mishaps
           /\ Unlocks(p) /\ told' = [told EXCEPT ![p] = "refused"] /\ UNCHANGED <<order, kept>>
  <2>1. /\ OfKind(Unlock(p, order[p].id), p, "unlock", order[p].id, 0, 0) /\ mishaps' \in Nat
    BY <1>1, <1>3, EditRequestsAre DEF Mishap
  <2>2. DeskTypes'
    BY <1>1, <1>3, <2>1 DEF DeskTypes, documents, Stages, Answers, Unlocks, Ask, OfKind
  <2>3. GoesOn(p)
    BY <1>1, <1>3, <2>2 DEF GoesOn, DeskInv, DeskTypes, Documents, Unlocks, Ask
  <2>4. inbox'[p] = "none" /\ told'[p] # "conflict"
    BY <1>1, <1>3 DEF DeskTypes
  <2> QED
    BY <1>1, <1>3, <2>3, <2>4, UnlocksKeeps
<1> QED
  BY <1>1, <1>2, <1>3 DEF Reads

LEMMA RenewKeeps ==
  ASSUME DeskInv, NEW p \in People, Renew(p)
  PROVE  DeskInv'
<1> DEFINE n == order[p].n
<1>1. /\ stage[p] = "edits" /\ order[p].what = "edit" /\ inbox[p] = "none" /\ n # 0 /\ order[p].id \in Ids /\ DeskTypes
      /\ order[p].session = 0 /\ ~order[p].force /\ life[order[p].id] # "unborn" /\ renewing' = renewing \cup {n}
      /\ UNCHANGED <<documents, stage, order, asked, inbox, told, kept, heldSessions, orders, mishaps, deskHistory>>
  BY DEF Renew, Renewable, DeskInv, DeskTypes, Command, OwnSession
<1>2. PICK r : /\ r = RenewLock(p) /\ r \in Requests /\ r.n = n /\ r.id = order[p].id /\ ~r.force
               /\ r.kind = "renew" /\ r.session = n
  BY <1>1, EditRequestsAre DEF OfKind
<1>3. wire' = wire \cup {r}
  BY <1>2 DEF Renew
<1>4. DeskTypes'
  BY <1>1, <1>2, <1>3 DEF DeskTypes, documents, deskHistory
<1>5. GoesOn(p)
  BY <1>1, <1>3, <1>4 DEF GoesOn, DeskInv, Documents, documents, deskHistory
<1>6. \A m \in wire' \ wire : NewRequest(m, p)
  BY <1>1, <1>2, <1>3 DEF NewRequest
<1>7. Mine(p)' = Mine(p) \cup {r}
  BY <1>1, <1>2, <1>3 DEF Mine
<1>8. Command(p)'
  BY <1>1, <1>2, <1>7 DEF Command, DeskInv, Agrees, OnVersion, deskHistory, documents
<1>9. Once(p)'
  BY <1>1, OnceKept DEF documents, deskHistory
<1>10. EditWire(p)'
  <2>1. EditWire(p) /\ UNCHANGED <<stage, order, asked, inbox, leaky>>
    BY <1>1 DEF DeskInv, Edit, deskHistory
  <2>2. RenewLock(p)' = RenewLock(p)
    BY <2>1 DEF RenewLock, Request, SessionOf
  <2>3. n \in renewing'
    BY <1>1
  <2>4. ASSUME NEW m \in Mine(p)
        PROVE  /\ m.kind = "lock" => Awaited(m, p)' \/ (stage'[p] = "free" /\ order'[p].n \in leaky')
               /\ m.kind = "save" => Awaited(m, p)' \/ stage'[p] = "free" \/ Waits(p, {"unlock"})'
               /\ m.kind = "renew" => m = RenewLock(p)' /\ order'[p].n \in renewing' \cup leaky'
               /\ m.kind = "unlock" => stage'[p] = "free" \/ Waits(p, {"unlock"})'
    BY <2>1, <2>2, <2>3 DEF EditWire, Awaited, Waits
  <2>5. r = RenewLock(p)' /\ r.kind = "renew" /\ order'[p].n \in renewing' \cup leaky'
    BY <1>2, <2>1, <2>2, <2>3
  <2> QED
    BY <1>1, <1>7, <2>1, <2>4, <2>5 DEF EditWire
<1>11. EditText(p)' /\ EditHolds(p)' /\ EditLeaves(p)'
  <2>1. EditText(p)'
    BY <1>1 DEF EditText, Edit, DeskInv, deskHistory, documents, Before, Saving, Waits, Basis
  <2>2. EditHolds(p)' /\ EditLeaves(p)'
    BY <1>1 DEF EditHolds, EditLeaves, Edit, DeskInv, deskHistory, documents, Saving, LockedUnread, Unsaved, Unlocked,
       Waits
  <2> QED
    BY <2>1, <2>2
<1> QED
  BY <1>5, <1>6, <1>8, <1>9, <1>10, <1>11, GoesOnKeeps DEF Edit

\* The editor is closed: the text is saved, or the copy thrown away.
LEMMA ClosesKeeps ==
  ASSUME DeskInv, NEW p \in People, Closes(p)
  PROVE  DeskInv'
<1> DEFINE n == order[p].n
<1>1. /\ stage[p] = "edits" /\ order[p].what = "edit" /\ inbox[p] = "none" /\ n # 0 /\ order[p].id \in Ids
      /\ n \in kept /\ n \notin typedText /\ DeskTypes /\ (told[p] = "conflict" => n \in lockLost)
      /\ renewing' = renewing \ {n} /\ leaky' = IF n \in renewing THEN leaky \cup {n} ELSE leaky
      /\ UNCHANGED <<documents, order, inbox, heldSessions, orders, did, lockLost, strayed>>
  BY DEF Closes, DeskInv, Command, Edit, EditText, EditHolds
<1>2. /\ OfKind(Unlock(p, order[p].id), p, "unlock", order[p].id, 0, 0)
  BY <1>1, EditRequestsAre
<1>3. CASE /\ typedText' = typedText \cup {n} /\ UNCHANGED kept
           /\ stage' = [stage EXCEPT ![p] = "saves"] /\ UNCHANGED <<wire, asked, told, mishaps>>
  <2>1. DeskTypes'
    BY <1>1, <1>3 DEF DeskTypes, documents, Stages
  <2>2. stage'[p] = "saves" /\ Mine(p)' = Mine(p)
    BY <1>1, <1>3 DEF DeskTypes, Mine
  <2>3. GoesOn(p)
    BY <1>1, <1>3, <2>1 DEF GoesOn, documents, DeskTypes
  <2>4. Command(p)'
    BY <1>1, <2>2 DEF Command, DeskInv, Agrees, documents
  <2>5. Once(p)'
    BY <1>1, OnceKept DEF documents
  <2>6. EditWire(p)'
    BY <1>1, <2>2 DEF EditWire, Edit, DeskInv, Awaited, Waits, RenewLock, Request, SessionOf
  <2>7. EditText(p)'
    BY <1>1, <2>2 DEF EditText, Edit, DeskInv, documents, Before, Saving, Waits, Basis
  <2>8. EditHolds(p)' /\ EditLeaves(p)'
    BY <1>1, <1>3, <2>2 DEF EditHolds, EditLeaves, Edit, DeskInv, documents, Saving, LockedUnread, Unsaved, Unlocked,
       Waits
  <2> QED
    BY <1>3, <2>3, <2>4, <2>5, <2>6, <2>7, <2>8, GoesOnKeeps DEF Edit
<1>4. ASSUME Unlocks(p), mishaps' \in Nat, told' = told \/ told' = [told EXCEPT ![p] = "refused"],
             \/ typedText' = typedText \cup {n} /\ UNCHANGED kept
             \/ UNCHANGED typedText /\ kept' = Without(p)
      PROVE  DeskInv'
  <2>1. DeskTypes'
    BY <1>1, <1>2, <1>4 DEF DeskTypes, documents, Stages, Answers, Unlocks, Ask, OfKind
  <2>2. GoesOn(p)
    BY <1>1, <1>4, <2>1 DEF GoesOn, DeskTypes, Unlocks, Ask, Without
  <2>3. inbox'[p] = "none" /\ (told'[p] = "conflict" => n \in lockLost)
    BY <1>1, <1>4 DEF DeskTypes
  <2> QED
    BY <1>1, <1>4, <2>2, <2>3, UnlocksKeeps
<1>5. mishaps \in Nat /\ (Mishap => mishaps' \in Nat)
  BY <1>1 DEF DeskTypes, Mishap
<1> QED
  BY <1>3, <1>4, <1>5 DEF Closes

\* What is written is what was typed, over what was read.
LEMMA WritesKeeps ==
  ASSUME DeskInv, NEW p \in People, Writes(p)
  PROVE  DeskInv'
<1> DEFINE n == order[p].n
           d == order[p].id
<1>1. /\ stage[p] = "saves" /\ order[p].what \in {"new", "put", "edit"} /\ inbox[p] = "none" /\ n \in Nat \ {0}
      /\ d \in Ids /\ (order[p].what # "new" => life[d] # "unborn") /\ DeskTypes /\ order[p].session \in Nat
      /\ order[p].session \in {0} \cup heldSessions /\ (order[p].what = "edit" => order[p].session = 0 /\ ~order[p].force)
      /\ UNCHANGED <<documents, inbox, order, told, renewing, kept, heldSessions, orders, mishaps, deskHistory>>
  BY DEF Writes, DeskInv, DeskTypes, Orders, Command, OwnSession
<1>2. PICK m : /\ Ask(p, m) /\ m \in Requests /\ m.p = p /\ m.n = n /\ m.id = d /\ m.force = order[p].force
               /\ m.kind = (IF order[p].what = "edit" THEN "save" ELSE order[p].what)
               /\ m.session = (IF order[p].session = 0 THEN n ELSE order[p].session)
               /\ m.kind \in OnVersion => m.base = order[p].base
               /\ m.kind \in {"put", "save"} => m.words = n /\ m.from = order[p].from
  <2>1. CASE order[p].what = "edit"
    BY <1>1, <2>1, EditRequestsAre DEF Writes, OfKind
  <2>2. CASE order[p].what # "edit"
    <3>1. IsMethod(Method(p, d), p, d)
      BY <1>1, MethodIs
    <3> QED
      BY <1>1, <2>2, <3>1 DEF Writes, IsMethod
  <2> QED
    BY <2>1, <2>2
<1>3. wire' = wire \cup {m} /\ asked'[p] = m /\ stage'[p] = "waits"
  BY <1>1, <1>2 DEF Ask, DeskTypes
<1>4. DeskTypes'
  BY <1>1, <1>2 DEF Ask, DeskTypes, documents, deskHistory, Stages
<1>5. GoesOn(p)
  <2>1. \A q \in People \ {p} : stage'[q] = stage[q] /\ asked'[q] = asked[q]
    BY <1>1, <1>2 DEF Ask, DeskTypes
  <2>2. n \in typedText => n \in kept' \/ InHistory(n)
    BY <1>1 DEF DeskInv, Documents
  <2> QED
    BY <1>1, <1>3, <1>4, <2>1, <2>2 DEF GoesOn, deskHistory
<1>6. /\ order[p].what = "edit" => Basis(d, order[p].base, order[p].from)
      /\ order[p].what = "put" /\ n \notin strayed => Basis(d, order[p].base, order[p].from)
  BY <1>1 DEF DeskInv, Once, Edit, EditText, Saving
<1>7. \A x \in wire' \ wire : NewRequest(x, p)
  BY <1>1, <1>2, <1>3, <1>6 DEF NewRequest, OnVersion, deskHistory
<1>8. Mine(p)' = Mine(p) \cup {m}
  BY <1>1, <1>2, <1>3 DEF Mine
<1>9. Command(p)'
  <2>1. Agrees(m, p)'
    BY <1>1, <1>2 DEF Agrees
  <2>2. \A x \in Mine(p) : Agrees(x, p)'
    BY <1>1 DEF DeskInv, Command, Agrees, deskHistory
  <2> QED
    BY <1>1, <1>2, <1>3, <1>8, <2>1, <2>2 DEF Command, documents
<1>10. Once(p)'
  BY <1>1, OnceKept DEF documents, deskHistory
<1>11. ASSUME order[p].what = "edit"
       PROVE  EditWire(p)' /\ EditText(p)' /\ EditHolds(p)' /\ EditLeaves(p)'
  <2>1. EditWire(p)'
    <3>1. EditWire(p) /\ UNCHANGED <<order, inbox, renewing, leaky>>
      BY <1>1, <1>11 DEF Edit, DeskInv, deskHistory
    <3>2. RenewLock(p)' = RenewLock(p)
      BY <3>1 DEF RenewLock, Request, SessionOf
    <3>3. n \notin renewing /\ \A x \in Mine(p) : x.kind \notin {"save", "unlock"} /\ ~Awaited(x, p)
      BY <1>1, <3>1 DEF EditWire, Awaited, Waits
    <3>4. ASSUME NEW x \in Mine(p)
          PROVE  /\ x.kind = "lock" => order'[p].n \in leaky' /\ stage[p] = "free"
                 /\ x.kind = "renew" => x = RenewLock(p)' /\ order'[p].n \in renewing' \cup leaky'
      BY <3>1, <3>2, <3>3 DEF EditWire
    <3>5. m.kind = "save" /\ Awaited(m, p)'
      BY <1>1, <1>2, <1>3, <1>11 DEF Awaited
    <3> QED
      BY <1>1, <1>3, <1>8, <3>1, <3>3, <3>4, <3>5 DEF EditWire
  <2>2. EditText(p)'
    BY <1>1, <1>2, <1>3, <1>6, <1>11 DEF EditText, Before, Saving, Waits, Basis, documents
  <2>3. EditHolds(p)' /\ EditLeaves(p)'
    BY <1>1, <1>2, <1>3, <1>11 DEF EditHolds, EditLeaves, Edit, DeskInv, documents, deskHistory, Saving, LockedUnread,
       Unsaved, Unlocked, Waits
  <2> QED
    BY <2>1, <2>2, <2>3
<1> QED
  BY <1>1, <1>5, <1>7, <1>9, <1>10, <1>11, GoesOnKeeps DEF Edit

\* The path leads to what was read, or the command goes astray.
LEMMA ResolvesKeeps ==
  ASSUME DeskInv, NEW p \in People, Resolves(p)
  PROVE  DeskInv'
<1> DEFINE n == order[p].n
<1>1. /\ stage[p] = "resolves" /\ inbox[p] = "none" /\ n \in Nat \ {0} /\ order[p].id \in Ids /\ order[p].what # "none"
      /\ DeskTypes /\ order[p] \in Orders /\ order[p].what \in Commands /\ order[p].session \in Nat
      /\ order[p].session \in {0} \cup heldSessions
      /\ (order[p].what = "edit" => order[p].session = 0 /\ ~order[p].force /\ Mine(p) = {})
      /\ UNCHANGED <<documents, inbox, renewing, kept, heldSessions, orders, mishaps, did, typedText, lockLost, leaky>>
  <2>1. DeskTypes /\ Command(p) /\ OwnSession /\ Edit(p) /\ stage[p] = "resolves"
    BY DEF Resolves, DeskInv
  <2>2. order[p] \in Orders
    BY <2>1 DEF DeskTypes
  <2>3. n \in Nat /\ order[p].what \in Commands \cup {"none"} /\ order[p].session \in Nat
    BY <2>2 DEF Orders
  <2>4. inbox[p] = "none" /\ n # 0 /\ order[p].id \in Ids /\ order[p].what # "none"
    BY <2>1 DEF Command
  <2>5. order[p].what = "edit" => Mine(p) = {}
    BY <2>1 DEF Edit, EditWire
  <2>6. /\ order[p].session \in {0} \cup heldSessions
        /\ order[p].what = "edit" => order[p].session = 0 /\ ~order[p].force
    BY <2>1 DEF OwnSession
  <2> QED
    BY <2>1, <2>2, <2>3, <2>4, <2>5, <2>6 DEF Resolves
<1>2. CASE Ends(p, "refused") /\ UNCHANGED <<order, wire, strayed>>
  <2>1. DeskTypes'
    BY <1>1, <1>2 DEF DeskTypes, documents, Ends, Free, Stages, Answers
  <2>2. GoesOn(p)
    BY <1>1, <1>2, <2>1 DEF GoesOn, DeskInv, DeskTypes, Documents, Ends, Free
  <2>3. inbox'[p] = "none" /\ told'[p] # "conflict"
    BY <1>1, <1>2 DEF DeskTypes, Ends
  <2>4. order[p].what = "edit" => n \notin renewing /\ Unlocked(p) /\ \A m \in Mine(p) : m.kind # "lock"
    BY <1>1 DEF DeskInv, Edit, EditWire, Unlocked
  <2> QED
    BY <1>1, <1>2, <2>2, <2>3, <2>4, FreeKeeps DEF Ends
<1>3. ASSUME NEW d \in Found(p), order' = [order EXCEPT ![p].id = d], Ask(p, Method(p, d)),
             strayed' = IF d = order[p].read THEN strayed ELSE strayed \cup {n}, UNCHANGED told
      PROVE  DeskInv'
  <2>1. d \in Ids /\ (order[p].what # "new" => life[d] # "unborn")
    BY <1>1 DEF Found, Live, DeskInv, Command
  <2>2. PICK m : /\ Ask(p, m) /\ m \in Requests /\ m.p = p /\ m.n = n /\ m.id = d /\ m.force = order[p].force
                 /\ m.kind = (IF order[p].what = "edit" THEN "lock" ELSE order[p].what)
                 /\ m.session = (IF order[p].session = 0 THEN n ELSE order[p].session)
                 /\ m.kind \in OnVersion => m.base = order[p].base
                 /\ m.kind = "put" => m.words = n /\ m.from = order[p].from
    BY <1>1, <1>3, <2>1, MethodIs DEF IsMethod
  <2>3. /\ order'[p] \in Orders /\ order'[p].n = n /\ order'[p].what = order[p].what
        /\ order'[p].read = order[p].read /\ order'[p].id = d /\ order'[p].session = order[p].session
        /\ order'[p].force = order[p].force /\ order'[p].base = order[p].base /\ order'[p].from = order[p].from
    <3>1. d \in Nat
      BY <2>1, PersonAssumption
    <3> QED
      BY <1>1, <1>3, <3>1 DEF Orders, DeskTypes
  <2>4. wire' = wire \cup {m} /\ asked'[p] = m /\ stage'[p] = "waits" /\ m.kind # "save"
    BY <1>1, <2>2 DEF Ask, DeskTypes, Commands
  <2>5. DeskTypes'
    BY <1>1, <1>3, <2>2, <2>3 DEF Ask, DeskTypes, documents, Stages
  <2>6. GoesOn(p)
    <3>1. \A q \in People \ {p} : order'[q] = order[q] /\ stage'[q] = stage[q] /\ asked'[q] = asked[q]
      BY <1>1, <1>3, <2>2 DEF Ask, DeskTypes
    <3>2. n \in typedText => n \in kept' \/ InHistory(n)
      BY <1>1 DEF DeskInv, Documents
    <3> QED
      BY <1>1, <1>3, <2>3, <2>4, <2>5, <3>1, <3>2 DEF GoesOn
  <2>7. n \notin strayed' => d = order[p].id /\ d = order[p].read /\ n \notin strayed
    BY <1>1, <1>3 DEF DeskInv, Once
  <2>8. order[p].what = "put" /\ n \notin strayed' => Basis(d, order[p].base, order[p].from)
    BY <1>1, <2>7 DEF DeskInv, Once
  <2>9. \A x \in wire' \ wire : NewRequest(x, p)
    BY <1>1, <2>1, <2>2, <2>4, <2>8 DEF NewRequest, OnVersion
  <2>10. Mine(p)' = Mine(p) \cup {m}
    BY <2>2, <2>3, <2>4 DEF Mine
  <2>11. Command(p)'
    <3>1. Agrees(m, p)'
      BY <1>1, <2>2, <2>3 DEF Agrees
    <3>2. \A x \in Mine(p) : Agrees(x, p)'
      BY <1>1, <2>3, <2>7 DEF DeskInv, Command, Agrees, Mine
    <3> QED
      BY <1>1, <2>1, <2>2, <2>3, <2>4, <2>10, <3>1, <3>2 DEF Command, Commands, documents
  <2>12. Once(p)'
    <3>1. UNCHANGED <<life, versions, did>>
      BY <1>1 DEF documents
    <3> QED
      BY <1>1, <2>3, <2>7, <3>1 DEF Once, Spent, Basis, DeskInv
  <2>13. ASSUME order[p].what = "edit"
         PROVE  EditWire(p)' /\ EditText(p)' /\ EditHolds(p)' /\ EditLeaves(p)'
    <3>1. EditWire(p)'
      BY <1>1, <2>2, <2>3, <2>4, <2>10, <2>13 DEF EditWire, Edit, DeskInv, Awaited
    <3>2. EditText(p)'
      BY <1>1, <2>2, <2>3, <2>4, <2>13 DEF EditText, Edit, DeskInv, Before, Saving, Waits
    <3>3. EditHolds(p)' /\ EditLeaves(p)'
      BY <1>1, <1>3, <2>2, <2>3, <2>4, <2>13 DEF EditHolds, EditLeaves, Edit, DeskInv, documents, Saving, LockedUnread,
         Unsaved, Unlocked, Waits
    <3> QED
      BY <3>1, <3>2, <3>3
  <2> QED
    BY <2>3, <2>6, <2>9, <2>11, <2>12, <2>13, GoesOnKeeps DEF Edit
<1> QED
  BY <1>2, <1>3 DEF Resolves

-----------------------------------------------------------------------------
(* A reply, or none.                                                       *)

LEMMA EndsWithKeeps ==
  ASSUME DeskInv, NEW p \in People, NEW answer \in Answers \cup {"noreply"}, EndsWith(p, answer),
         UNCHANGED <<documents, order, renewing, orders, did, typedText, lockLost, leaky, strayed>>, mishaps' \in Nat,
         inbox' = [inbox EXCEPT ![p] = "none"],
         stage[p] = "uploads" \/ (stage[p] = "waits" /\ ~OfEdit(p)),
         heldSessions' \subseteq heldSessions \cup {order[p].n}, heldSessions \subseteq heldSessions',
         order[p].what = "edit" => /\ heldSessions' = heldSessions
                                   /\ answer = "conflict" => order[p].n \in lockLost
                                   /\ answer \in {"done", "same"} => InHistory(order[p].n)
  PROVE  DeskInv'
<1> DEFINE n == order[p].n
<1>1. n # 0 /\ order[p].id \in Ids /\ DeskTypes
  BY DEF DeskInv, DeskTypes, Command
<1>2. inbox'[p] = "none" /\ \A q \in People \ {p} : inbox'[q] = inbox[q]
  BY <1>1 DEF DeskTypes
<1>3. CASE order[p].what = "edit"
  <2>1. OfKind(Unlock(p, order[p].id), p, "unlock", order[p].id, 0, 0)
    BY <1>1, EditRequestsAre
  <2>2. Unlocks(p) /\ told' = [told EXCEPT ![p] = answer] /\ kept' = AfterSave(p, answer)
    BY <1>3 DEF EndsWith
  <2>3. DeskTypes'
    BY <1>1, <2>1, <2>2 DEF DeskTypes, documents, Stages, Unlocks, Ask, OfKind
  <2>4. \/ stage[p] = "uploads"
        \/ Waits(p, {"save"})
    BY <1>3 DEF DeskInv, Command, Agrees, OfEdit, Waits
  <2>5. n \notin renewing
    BY <1>3 DEF DeskInv, Edit, EditWire
  <2>6. GoesOn(p)
    BY <1>1, <1>2, <1>3, <2>2, <2>3 DEF GoesOn, DeskInv, DeskTypes, Documents, Unlocks, Ask, AfterSave, Without
  <2>7. told'[p] = answer
    BY <1>1, <2>2 DEF DeskTypes
  <2> QED
    BY <1>2, <1>3, <2>2, <2>4, <2>5, <2>6, <2>7, UnlocksKeeps
<1>4. CASE order[p].what # "edit"
  <2>1. Ends(p, answer) /\ UNCHANGED <<wire, kept>>
    BY <1>4 DEF EndsWith
  <2>2. DeskTypes'
    BY <1>1, <2>1 DEF DeskTypes, documents, Stages, Ends, Free
  <2>3. GoesOn(p)
    BY <1>1, <1>2, <1>4, <2>1, <2>2 DEF GoesOn, DeskInv, DeskTypes, Documents, Ends, Free
  <2> QED
    BY <1>2, <1>4, <2>1, <2>3, FreeKeeps DEF Ends
<1> QED
  BY <1>3, <1>4

LEMMA UploadsKeeps ==
  ASSUME DeskInv, NEW p \in People, Uploads(p)
  PROVE  DeskInv'
<1>1. /\ stage[p] = "uploads" /\ order[p].what \in {"new", "put", "edit"} /\ inbox[p] = "none" /\ DeskTypes
      /\ UNCHANGED <<documents, inbox, order, renewing, heldSessions, orders, deskHistory>>
  BY DEF Uploads, DeskInv, Command
<1>2. CASE stage' = [stage EXCEPT ![p] = "saves"] /\ UNCHANGED <<wire, asked, told, kept, mishaps>>
  <2>1. DeskTypes'
    BY <1>1, <1>2 DEF DeskTypes, documents, deskHistory, Stages
  <2>2. stage'[p] = "saves" /\ Mine(p)' = Mine(p)
    BY <1>1, <1>2 DEF DeskTypes, Mine
  <2>3. GoesOn(p)
    BY <1>1, <1>2, <2>1 DEF GoesOn, documents, deskHistory, DeskTypes, DeskInv, Documents
  <2>4. Command(p)'
    BY <1>1, <1>2, <2>2 DEF Command, DeskInv, Agrees, deskHistory, documents
  <2>5. Once(p)'
    BY <1>1, OnceKept DEF documents, deskHistory
  <2>6. EditWire(p) => EditWire(p)'
    BY <1>1, <2>2 DEF EditWire, Awaited, Waits, deskHistory, RenewLock, Request, SessionOf
  <2>7. EditText(p) => EditText(p)'
    BY <1>1, <2>2 DEF EditText, documents, deskHistory, Before, Saving, Waits, Basis
  <2>8. EditHolds(p) /\ EditLeaves(p) => EditHolds(p)' /\ EditLeaves(p)'
    BY <1>1, <1>2, <2>2 DEF EditHolds, EditLeaves, documents, deskHistory, Saving, LockedUnread, Unsaved, Unlocked, Waits
  <2>9. Edit(p)'
    BY <1>1, <2>6, <2>7, <2>8 DEF Edit, DeskInv
  <2> QED
    BY <1>2, <2>3, <2>4, <2>5, <2>9, GoesOnKeeps
<1>3. CASE Mishap /\ EndsWith(p, "refused")
  <2>1. mishaps' \in Nat /\ inbox' = [inbox EXCEPT ![p] = "none"] /\ "refused" \in Answers \cup {"noreply"}
    BY <1>1, <1>3 DEF DeskTypes, Mishap, Answers
  <2> QED
    BY <1>1, <1>3, <2>1, EndsWithKeeps DEF deskHistory
<1> QED
  BY <1>2, <1>3 DEF Uploads

LEMMA DiesKeeps ==
  ASSUME DeskInv, NEW p \in People, Dies(p)
  PROVE  DeskInv'
<1>1. DeskTypes /\ stage[p] # "free" /\ mishaps' \in Nat /\ Ends(p, "killed")
  BY DEF Dies, Mishap, DeskInv, DeskTypes
<1>2. DeskTypes'
  BY <1>1 DEF Dies, DeskTypes, documents, Ends, Free, Stages
<1>3. GoesOn(p)
  BY <1>1, <1>2 DEF Dies, GoesOn, DeskInv, DeskTypes, Documents, Ends, Free
<1>4. inbox'[p] = "none" /\ told'[p] = "killed" /\ order[p].n \notin renewing' /\ order[p].n \in leaky'
  BY <1>1 DEF Dies, DeskTypes, Ends
<1> QED
  BY <1>1, <1>3, <1>4, FreeKeeps DEF Dies, Ends

\* An edit whose lock or unlock got no reply may leave a lock.
LEMMA TimesOutKeeps ==
  ASSUME DeskInv, NEW p \in People, TimesOut(p)
  PROVE  DeskInv'
<1>1. /\ DeskTypes /\ stage[p] = "waits" /\ mishaps' \in Nat /\ inbox' = [inbox EXCEPT ![p] = "none"]
      /\ UNCHANGED <<documents, order, renewing, heldSessions, orders, did, typedText, lockLost, strayed>>
  BY DEF TimesOut, Mishap, DeskInv, DeskTypes
<1>2. CASE OfEdit(p)
  <2>1. /\ Free(p) /\ leaky' = leaky \cup {order[p].n} /\ UNCHANGED <<wire, kept>>
        /\ told' = told \/ told' = [told EXCEPT ![p] = "noreply"]
    BY <1>2 DEF TimesOut
  <2>2. DeskTypes'
    BY <1>1, <2>1 DEF DeskTypes, documents, Free, Stages
  <2>3. GoesOn(p)
    BY <1>1, <2>1, <2>2 DEF GoesOn, DeskInv, DeskTypes, Documents, Free
  <2>4. order[p].what = "edit" /\ order[p].n \notin renewing /\ (told[p] = "conflict" => order[p].n \in lockLost)
    BY <1>1, <1>2 DEF OfEdit, DeskInv, Edit, EditWire, EditHolds
  <2>5. inbox'[p] = "none" /\ (told'[p] = "conflict" => order[p].n \in lockLost)
    BY <1>1, <2>1, <2>4 DEF DeskTypes
  <2> QED
    BY <1>1, <2>1, <2>3, <2>4, <2>5, FreeKeeps
<1>3. CASE ~OfEdit(p)
  <2>1. EndsWith(p, "noreply") /\ UNCHANGED leaky
    BY <1>3 DEF TimesOut
  <2> QED
    BY <1>1, <1>3, <2>1, EndsWithKeeps
<1> QED
  BY <1>2, <1>3

LEMMA GetsReplyKeeps ==
  ASSUME DeskInv, NEW p \in People, GetsReply(p)
  PROVE  DeskInv'
<1> DEFINE n == order[p].n
<1>1. /\ DeskTypes /\ stage[p] = "waits" /\ inbox[p] # "none" /\ inbox' = [inbox EXCEPT ![p] = "none"]
      /\ n # 0 /\ order[p] \in Orders /\ order[p].session \in {0} \cup heldSessions
      /\ Agrees(asked[p], p) /\ asked[p].kind # "renew"
      /\ UNCHANGED <<documents, renewing, orders, mishaps, deskHistory>>
  BY DEF GetsReply, DeskInv, DeskTypes, Command, OwnSession
<1>2. inbox'[p] = "none" /\ \A q \in People \ {p} : inbox'[q] = inbox[q]
  BY <1>1 DEF DeskTypes
<1>3. /\ heldSessions \subseteq heldSessions' /\ heldSessions' \subseteq heldSessions \cup {n}
      /\ order[p].what # "lock" \/ inbox[p] # "done" => heldSessions' = heldSessions
  BY <1>1 DEF GetsReply, SessionOf
<1>4. order[p].what = "edit" =>
        /\ Edit(p) /\ n \notin renewing
        /\ \A m \in Mine(p) : m.kind # "lock" /\ (m.kind = "save" => Waits(p, {"unlock"}))
  BY <1>1 DEF DeskInv, Edit, EditWire, Awaited, Waits
<1>5. CASE /\ inbox[p] = "too_large" /\ order' = [order EXCEPT ![p].how = "upload"]
           /\ stage' = [stage EXCEPT ![p] = "uploads"] /\ UNCHANGED <<wire, asked, told, kept>>
  <2>1. /\ order'[p] \in Orders /\ order'[p].n = n /\ order'[p].what = order[p].what /\ order'[p].try = order[p].try
        /\ order'[p].read = order[p].read /\ order'[p].id = order[p].id /\ order'[p].session = order[p].session
        /\ order'[p].force = order[p].force /\ order'[p].base = order[p].base /\ order'[p].from = order[p].from
    BY <1>1, <1>5 DEF Orders, DeskTypes
  <2>2. DeskTypes'
    BY <1>1, <1>5, <2>1 DEF DeskTypes, documents, deskHistory, Stages
  <2>3. GoesOn(p)
    BY <1>1, <1>2, <1>3, <1>5, <2>1, <2>2 DEF GoesOn, DeskInv, DeskTypes, Documents, deskHistory
  <2>4. /\ stage'[p] = "uploads" /\ Mine(p)' = Mine(p) /\ asked[p].kind \in {"new", "put", "save"}
        /\ order[p].what \in Commands \cup {"none"}
    BY <1>1, <1>5, <2>1 DEF DeskTypes, Mine, DeskInv, Command, Waits, Orders
  <2>5. Command(p)'
    BY <1>1, <1>2, <1>5, <2>1, <2>4 DEF Command, DeskInv, Agrees, Commands, documents, deskHistory
  <2>6. Once(p)'
    BY <1>1, <2>1 DEF Once, Spent, Basis, DeskInv, documents, deskHistory
  <2>7. ASSUME order[p].what = "edit"
        PROVE  EditWire(p)' /\ EditText(p)' /\ EditHolds(p)' /\ EditLeaves(p)'
    <3>1. Waits(p, {"save"})
      BY <1>1, <2>4, <2>7 DEF Waits, Agrees
    <3>2. EditWire(p)'
      BY <1>1, <1>4, <2>1, <2>4, <2>7, <3>1 DEF EditWire, Edit, Waits, deskHistory, RenewLock, Request, SessionOf
    <3>3. EditText(p)'
      BY <1>1, <1>4, <2>1, <2>4, <2>7, <3>1 DEF EditText, Edit, Before, Saving, Waits, Basis, documents, deskHistory
    <3>4. EditHolds(p)' /\ EditLeaves(p)'
      BY <1>1, <1>2, <1>4, <1>5, <2>1, <2>4, <2>7, <3>1 DEF EditHolds, EditLeaves, Edit, documents, deskHistory, Saving,
         LockedUnread, Unsaved, Unlocked, Waits
    <3> QED
      BY <3>2, <3>3, <3>4
  <2>8. Edit(p)'
    BY <2>1, <2>7 DEF Edit
  <2> QED
    BY <1>5, <2>3, <2>5, <2>6, <2>8, GoesOnKeeps
<1>6. CASE /\ OfEdit(p) /\ asked[p].kind = "lock" /\ inbox[p] = "done"
           /\ stage' = [stage EXCEPT ![p] = "reads"] /\ UNCHANGED <<wire, asked, told, kept, order>>
  <2>1. DeskTypes'
    BY <1>1, <1>6 DEF DeskTypes, documents, deskHistory, Stages
  <2>2. order[p].what = "edit" /\ stage'[p] = "reads" /\ Mine(p)' = Mine(p) /\ Waits(p, {"lock"})
    BY <1>1, <1>6 DEF DeskTypes, Mine, OfEdit, Waits
  <2>3. GoesOn(p)
    BY <1>1, <1>2, <1>3, <1>6, <2>1, <2>2 DEF GoesOn, DeskInv, DeskTypes, Documents, deskHistory
  <2>4. Command(p)'
    BY <1>1, <1>2, <1>6, <2>2 DEF Command, DeskInv, Agrees, documents, deskHistory
  <2>5. Once(p)'
    BY <1>1, <1>6, OnceKept DEF documents, deskHistory
  <2>6. EditWire(p)'
    BY <1>1, <1>4, <1>6, <2>2 DEF EditWire, Edit, Waits, deskHistory, RenewLock, Request, SessionOf
  <2>7. EditText(p)'
    BY <1>1, <1>4, <1>6, <2>2 DEF EditText, Edit, Before, Saving, Waits, deskHistory
  <2>8. EditHolds(p)' /\ EditLeaves(p)'
    BY <1>1, <1>2, <1>4, <1>6, <2>2 DEF EditHolds, EditLeaves, Edit, documents, deskHistory, Saving, LockedUnread,
       Unsaved, Unlocked, Waits
  <2> QED
    BY <1>6, <2>3, <2>4, <2>5, <2>6, <2>7, <2>8, GoesOnKeeps DEF Edit
<1>7. ASSUME OfEdit(p), Free(p), UNCHANGED <<wire, kept, order>>,
             \/ told' = told /\ asked[p].kind = "unlock"
             \/ told' = [told EXCEPT ![p] = inbox[p]] /\ asked[p].kind = "lock" /\ inbox[p] # "done"
      PROVE  DeskInv'
  <2>1. DeskTypes'
    BY <1>1, <1>7 DEF DeskTypes, documents, deskHistory, Stages, Free
  <2>2. order[p].what = "edit"
    BY <1>7 DEF OfEdit
  <2>3. GoesOn(p)
    BY <1>1, <1>2, <1>3, <1>7, <2>1, <2>2 DEF GoesOn, DeskInv, DeskTypes, Documents, deskHistory, Free
  <2>4. Unlocked(p) /\ (told'[p] = "conflict" => n \in lockLost)
    BY <1>1, <1>4, <1>7, <2>2 DEF Unlocked, Waits, DeskTypes, Edit, EditHolds
  <2> QED
    BY <1>1, <1>2, <1>4, <1>7, <2>2, <2>3, <2>4, FreeKeeps DEF deskHistory
<1>8. CASE ~OfEdit(p) /\ EndsWith(p, inbox[p]) /\ UNCHANGED order
  <2>1. order[p].what = "edit" => Waits(p, {"save"})
    BY <1>1, <1>8 DEF OfEdit, Waits, Agrees
  <2>2. order[p].what = "edit" => /\ inbox[p] = "conflict" => n \in lockLost
                                  /\ inbox[p] \in {"done", "same"} => InHistory(n)
    BY <1>4, <2>1 DEF Edit, EditHolds, EditText
  <2>3. inbox[p] \in Answers \cup {"noreply"} /\ mishaps' \in Nat
    BY <1>1 DEF DeskTypes
  <2>4. order[p].what = "edit" => heldSessions' = heldSessions
    BY <1>3
  <2> QED
    BY <1>1, <1>3, <1>8, <2>2, <2>3, <2>4, EndsWithKeeps DEF deskHistory
<1> QED
  BY <1>5, <1>6, <1>7, <1>8 DEF GetsReply, Ends

-----------------------------------------------------------------------------
(* A request is served.                                                    *)

Writing == {"new", "put", "save", "relate", "restore"}

\* What is done is done to one document, and what it had it keeps.
LEMMA DoesGrows ==
  ASSUME DeskTypes, Documents, NEW m \in wire, Outcome(m) = "done", Does(m)
  PROVE  /\ life' \in [Ids -> {"unborn", "live", "deleted"}] /\ filed' \in [Ids -> Nat]
         /\ versions' \in [Ids -> Seq(Version)] /\ lockedBy' \in [Ids -> Nat]
         /\ \A d \in Ids \ {m.id} : life'[d] = life[d] /\ versions'[d] = versions[d] /\ lockedBy'[d] = lockedBy[d]
         /\ m.kind \notin Writing => versions' = versions
         /\ m.kind \in Writing => /\ versions'[m.id] = Append(versions[m.id], NewVersion(m))
                                  /\ NewVersion(m) \in Version
         /\ m.kind \in {"new", "restore"} => life'[m.id] = "live"
         /\ m.kind = "rm" => life'[m.id] = "deleted"
         /\ m.kind \notin {"new", "restore", "rm"} => life'[m.id] = life[m.id]
         /\ m.kind \in {"lock", "renew"} => lockedBy'[m.id] = m.session
         /\ m.kind \in {"unlock", "rm"} => lockedBy'[m.id] = 0
         /\ m.kind \notin {"lock", "renew", "unlock", "rm"} => lockedBy'[m.id] = lockedBy[m.id]
<1>1. /\ m.id \in Ids /\ m.kind \in Methods /\ m.session \in Nat /\ m.place \in Nat /\ m.words \in Nat /\ m.from \in Nat
      /\ m.base \in Nat
  BY DEF DeskTypes, Requests
<1>2. m.kind \in {"relate", "restore"} => versions[m.id] \in Seq(Version) /\ versions[m.id] # <<>>
  BY <1>1 DEF DeskTypes, Documents
<1>3. m.kind \in Writing => NewVersion(m) \in Version
  <2> DEFINE s == versions[m.id]
  <2>1. s \in Seq(Version) /\ s # <<>> => s[1] \in Version /\ s[Len(s)] \in Version
    OBVIOUS
  <2> HIDE DEF s
  <2>2. CASE m.kind \in {"relate", "restore"}
    <3>1. s[1] \in Version /\ s[Len(s)] \in Version
      BY <1>2, <2>1, <2>2 DEF s
    <3>2. \A v, w \in Version : [v EXCEPT !.from = w.words] \in Version
                               /\ [v EXCEPT !.related = TRUE, !.from = w.words] \in Version
      BY DEF Version
    <3> QED
      BY <2>2, <3>1, <3>2 DEF NewVersion, Current, s
  <2>3. CASE m.kind \in {"new", "put", "save"}
    BY <1>1, <2>3 DEF NewVersion, Version
  <2> QED
    BY <2>2, <2>3 DEF Writing
<1>4. versions' = IF m.kind \in Writing THEN [versions EXCEPT ![m.id] = Append(@, NewVersion(m))] ELSE versions
  BY DEF Does, Writing
<1>5. versions' \in [Ids -> Seq(Version)]
  BY <1>1, <1>3, <1>4 DEF DeskTypes
<1>6. /\ \A d \in Ids \ {m.id} : versions'[d] = versions[d]
      /\ m.kind \in Writing => versions'[m.id] = Append(versions[m.id], NewVersion(m))
  BY <1>1, <1>4 DEF DeskTypes
<1>7. /\ life' = [life EXCEPT ![m.id] = IF m.kind \in {"new", "restore"} THEN "live"
                                      ELSE IF m.kind = "rm" THEN "deleted" ELSE @]
      /\ filed' = [filed EXCEPT ![m.id] = IF m.kind \in {"new", "mv"} THEN m.place ELSE @]
      /\ lockedBy' = [lockedBy EXCEPT ![m.id] = IF m.kind \in {"lock", "renew"} THEN m.session
                                              ELSE IF m.kind \in {"unlock", "rm"} THEN 0 ELSE @]
  BY DEF Does
<1> QED
  BY <1>1, <1>3, <1>4, <1>5, <1>6, <1>7 DEF DeskTypes

\* The outcome "done", for each kind.
LEMMA DoneMeans ==
  ASSUME DeskTypes, Documents, NEW m \in wire, Outcome(m) = "done"
  PROVE  /\ m.kind \in OnVersion => m.base = Len(versions[m.id]) /\ lockedBy[m.id] \in {0, m.session}
         /\ m.kind \in {"lock", "renew"} => Live(m.id) /\ lockedBy[m.id] \in {0, m.session}
         /\ m.kind \in {"put", "save", "relate"} => Live(m.id)
         /\ m.kind = "new" => life[m.id] = "unborn"
         /\ m.kind = "rm" => life[m.id] # "deleted"
         /\ m.kind = "unlock" /\ ~m.force => lockedBy[m.id] = m.session
BY DEF Outcome, Refuses, AlreadySo, Stale, OfLive, OnVersion, DeskTypes

\* A history that grows keeps what it had.
Grows ==
    \A d \in Ids :
        /\ versions[d] \in Seq(Version) /\ versions'[d] \in Seq(Version)
        /\ Len(versions'[d]) >= Len(versions[d])
        /\ \A v \in DOMAIN versions[d] : v \in DOMAIN versions'[d] /\ versions'[d][v] = versions[d][v]

LEMMA GrowsKeeps ==
  ASSUME Grows
  PROVE  /\ \A d \in Ids : \A base, from : Basis(d, base, from) => Basis(d, base, from)'
         /\ \A n : InHistory(n) => InHistory(n)'
BY DEF Grows, Basis, InHistory

LEMMA DoneGrows ==
  ASSUME DeskTypes, Documents, NEW m \in wire, Outcome(m) = "done", Does(m)
  PROVE  Grows /\ m.id \in Ids /\ (m.kind \in Writing => Len(versions'[m.id]) = Len(versions[m.id]) + 1)
<1>1. m.id \in Ids /\ versions \in [Ids -> Seq(Version)] /\ versions' \in [Ids -> Seq(Version)]
  BY DoesGrows DEF DeskTypes, Requests
<1>2. ASSUME NEW d \in Ids, ~(d = m.id /\ m.kind \in Writing)
      PROVE  versions'[d] = versions[d]
  BY <1>2, DoesGrows
<1>3. ASSUME m.kind \in Writing
      PROVE  /\ Len(versions'[m.id]) = Len(versions[m.id]) + 1
             /\ \A v \in DOMAIN versions[m.id] : v \in DOMAIN versions'[m.id] /\ versions'[m.id][v] = versions[m.id][v]
  <2>1. versions'[m.id] = Append(versions[m.id], NewVersion(m)) /\ NewVersion(m) \in Version
    BY <1>3, DoesGrows
  <2> QED
    BY <1>1, <2>1
<1> QED
  BY <1>1, <1>2, <1>3 DEF Grows

Served(m, answer) ==
    /\ wire' = wire \ {m} /\ answer \in Answers
    /\ answer # "done" => UNCHANGED <<documents, did, lockLost>>
    /\ answer = "done" => Outcome(m) = "done" /\ Does(m)
    /\ answer \in {"same", "conflict"} => Outcome(m) = answer
    /\ answer = "too_large" => m.kind \in {"new", "put", "save"}
    /\ answer = "refused" /\ m.kind = "unlock" => m.force
    /\ inbox' = IF stage[m.p] = "waits" /\ asked[m.p] = m THEN [inbox EXCEPT ![m.p] = answer] ELSE inbox
    /\ renewing' = IF m.kind = "renew" THEN renewing \ {m.n} ELSE renewing
    /\ UNCHANGED <<stage, order, asked, told, kept, heldSessions, orders, mishaps, typedText, leaky, strayed>>

LEMMA ServeIs ==
  ASSUME NEW m \in wire, Serve(m)
  PROVE  \E answer \in Answers : Served(m, answer)
<1>1. PICK answer \in {Outcome(m)} \cup IF m.kind \in {"new", "put", "save"} /\ m.how = "inline"
                                       THEN {"too_large"} ELSE IF m.force THEN {"refused"} ELSE {} :
        /\ IF answer = "done" THEN Does(m) ELSE UNCHANGED <<documents, did, lockLost>>
        /\ inbox' = IF stage[m.p] = "waits" /\ asked[m.p] = m THEN [inbox EXCEPT ![m.p] = answer] ELSE inbox
  BY DEF Serve
<1>2. /\ Outcome(m) \in {"refused", "same", "conflict", "done"}
      /\ Outcome(m) = "refused" => m.kind # "unlock"
  BY DEF Outcome, Refuses, OfLive, OnVersion
<1>3. Served(m, answer)
  BY <1>1, <1>2 DEF Serve, Served, Answers
<1> QED
  BY <1>1, <1>2, <1>3 DEF Answers

LEMMA ServedGrows ==
  ASSUME DeskTypes, Documents, NEW m \in wire, NEW answer, Served(m, answer)
  PROVE  Grows /\ m.id \in Ids
<1>1. CASE answer = "done"
  BY <1>1, DoneGrows DEF Served
<1>2. CASE answer # "done"
  <2>1. m.id \in Ids
    BY DEF DeskTypes, Requests
  <2>2. versions' = versions /\ versions \in [Ids -> Seq(Version)]
    BY <1>2 DEF Served, documents, DeskTypes
  <2> QED
    BY <2>1, <2>2 DEF Grows
<1> QED
  BY <1>1, <1>2

LEMMA ServedTypes ==
  ASSUME DeskTypes, Documents, NEW m \in wire, NEW answer, Served(m, answer)
  PROVE  DeskTypes'
<1>1. life' \in [Ids -> {"unborn", "live", "deleted"}] /\ filed' \in [Ids -> Nat]
      /\ versions' \in [Ids -> Seq(Version)] /\ lockedBy' \in [Ids -> Nat]
  <2>1. CASE answer = "done"
    BY <2>1, DoesGrows DEF Served
  <2>2. CASE answer # "done"
    BY <2>2 DEF Served, documents, DeskTypes
  <2> QED
    BY <2>1, <2>2
<1>2. did' \in [1..MaxOrders -> Nat]
  BY DEF Served, Does, DeskTypes
<1> QED
  BY <1>1, <1>2 DEF Served, DeskTypes

LEMMA ServedNumbers ==
  ASSUME DeskInv, NEW m \in wire, NEW answer, Served(m, answer)
  PROVE  Numbered' /\ OwnSession'
<1>1. /\ DeskTypes /\ Documents /\ orders \in Nat /\ m.n \in 1..orders /\ m.session \in 1..orders /\ m.id \in Ids
  <2>1. DeskTypes /\ Documents /\ orders \in Nat /\ m.n \in 1..orders /\ m.id \in Ids
    <3>1. DeskTypes /\ Documents /\ Numbered
      BY DEF DeskInv
    <3>2. orders \in Nat /\ m \in Requests
      BY <3>1, PersonAssumption DEF DeskTypes
    <3> QED
      BY <3>1, <3>2 DEF Numbered, Requests
  <2>2. m.session \in 1..orders
    BY <2>1 DEF DeskInv, Numbered, OwnSession
  <2> QED
    BY <2>1, <2>2
<1>2. \A d \in Ids : lockedBy'[d] \in 0..orders
  <2>1. CASE answer = "done"
    <3>1. Outcome(m) = "done" /\ Does(m)
      BY <2>1 DEF Served
    <3>2. \A d \in Ids : lockedBy'[d] \in {lockedBy[d], m.session, 0}
      BY <1>1, <3>1, DoesGrows
    <3> QED
      BY <1>1, <3>2 DEF DeskInv, Numbered
  <2>2. CASE answer # "done"
    BY <2>2 DEF Served, documents, DeskInv, Numbered
  <2> QED
    BY <2>1, <2>2
<1>3. \A n \in 1..MaxOrders : n > orders => did'[n] = 0
  <2>1. did' = did \/ did' = [did EXCEPT ![m.n] = @ + 1]
    BY DEF Served, Does
  <2>2. \A n \in 1..MaxOrders : n # m.n => did'[n] = did[n]
    BY <1>1, <2>1 DEF DeskTypes
  <2> QED
    BY <1>1, <2>2 DEF DeskInv, Numbered
<1>4. Numbered'
  BY <1>2, <1>3 DEF Served, DeskInv, Numbered
<1>5. OwnSession'
  BY DEF Served, DeskInv, OwnSession
<1> QED
  BY <1>4, <1>5

\* A document that was created never is not, and a lock is of a document that is there.
LEMMA ServedLife ==
  ASSUME DeskInv, NEW m \in wire, NEW answer, Served(m, answer), NEW d \in Ids
  PROVE  /\ life[d] # "unborn" => life'[d] # "unborn"
         /\ versions'[d] = <<>> <=> life'[d] = "unborn"
         /\ lockedBy'[d] # 0 => Live(d)'
<1>1. DeskTypes /\ Documents /\ life \in [Ids -> {"unborn", "live", "deleted"}] /\ m.kind \in Methods /\ m.id \in Ids
  BY DEF DeskInv, DeskTypes, Requests
<1>2. CASE answer # "done"
  BY <1>1, <1>2 DEF Served, documents, Documents, Live
<1>3. CASE answer = "done"
  <2>1. Outcome(m) = "done" /\ Does(m)
    BY <1>3 DEF Served
  <2>2. CASE d # m.id
    <3>1. life'[d] = life[d] /\ versions'[d] = versions[d] /\ lockedBy'[d] = lockedBy[d]
      BY <1>1, <2>1, <2>2, DoesGrows
    <3> QED
      BY <1>1, <3>1 DEF Documents, Live
  <2>3. CASE d = m.id
    <3>1. m.kind \in Writing => versions'[d] # <<>>
      <4>1. versions[d] \in Seq(Version)
        BY <1>1 DEF DeskTypes
      <4> QED
        BY <1>1, <2>1, <2>3, <4>1, DoesGrows
    <3>2. m.kind \notin Writing => versions'[d] = versions[d]
      BY <1>1, <2>1, DoesGrows
    <3>3. m.kind # "new" => life[d] # "unborn"
      BY <1>1, <2>3 DEF Documents
    <3>4. life'[d] = (IF m.kind \in {"new", "restore"} THEN "live" ELSE IF m.kind = "rm" THEN "deleted" ELSE life[d])
      BY <1>1, <2>1, <2>3, DoesGrows
    <3>5. lockedBy'[d] # 0 => m.kind \notin {"unlock", "rm"} /\ (m.kind \notin {"lock", "renew"} => lockedBy[d] # 0)
      BY <1>1, <2>1, <2>3, DoesGrows
    <3>6. m.kind \in {"lock", "renew"} => life[d] = "live"
      BY <1>1, <2>1, <2>3, DoneMeans DEF Live
    <3>7. (versions[d] = <<>> <=> life[d] = "unborn") /\ (lockedBy[d] # 0 => life[d] = "live")
      BY <1>1 DEF Documents, Live
    <3> QED
      BY <1>1, <3>1, <3>2, <3>3, <3>4, <3>5, <3>6, <3>7 DEF Live, Writing
  <2> QED
    BY <2>2, <2>3
<1> QED
  BY <1>2, <1>3

\* A version that is made is made from the one before it.
LEMMA ServedMadeFromRead ==
  ASSUME DeskInv, NEW m \in wire, NEW answer, Served(m, answer)
  PROVE  MadeFromRead'
<1> USE DEF MadeFromRead
<1>1. /\ DeskTypes /\ Documents /\ m.kind \in Methods /\ m.id \in Ids /\ strayed' = strayed
      /\ versions \in [Ids -> Seq(Version)]
  BY DEF DeskInv, DeskTypes, Requests, Served
<1>2. CASE answer # "done"
  BY <1>1, <1>2 DEF Served, documents, Documents
<1>3. CASE answer = "done"
  <2>1. Outcome(m) = "done" /\ Does(m)
    BY <1>3 DEF Served
  <2> SUFFICES ASSUME NEW d \in Ids, NEW v \in DOMAIN versions'[d], v > 1, versions'[d][v].words \notin strayed
               PROVE  versions'[d][v].from = versions'[d][v - 1].words
    BY <1>1
  <2>2. CASE ~(d = m.id /\ m.kind \in Writing)
    <3>1. versions'[d] = versions[d]
      BY <1>1, <2>1, <2>2, DoesGrows
    <3> QED
      BY <1>1, <3>1 DEF Documents
  <2>3. CASE d = m.id /\ m.kind \in Writing
    <3> DEFINE s == versions[d]
    <3>1. versions'[d] = Append(s, NewVersion(m)) /\ s \in Seq(Version)
      BY <1>1, <2>1, <2>3, DoesGrows
    <3>2. CASE v <= Len(s)
      <4>1. v \in DOMAIN s /\ v - 1 \in DOMAIN s /\ versions'[d][v] = s[v] /\ versions'[d][v - 1] = s[v - 1]
        BY <3>1, <3>2
      <4> QED
        BY <1>1, <4>1 DEF Documents
    <3>3. CASE v = Len(s) + 1
      <4>1. Len(s) \in DOMAIN s /\ versions'[d][v] = NewVersion(m) /\ versions'[d][v - 1] = s[Len(s)] /\ s # <<>>
        BY <3>1, <3>3
      <4>2. m.kind # "new"
        BY <1>1, <2>1, <2>3, <4>1, DoneMeans DEF Documents
      <4>3. CASE m.kind \in {"put", "save"}
        <5>1. NewVersion(m) = [words |-> m.words, from |-> m.from, related |-> FALSE]
          BY <4>3 DEF NewVersion
        <5>2. m.words = m.n /\ m.base = Len(s)
          BY <1>1, <2>1, <2>3, <4>3, DoneMeans DEF Documents, OnVersion
        <5>3. Basis(d, m.base, m.from)
          BY <1>1, <2>3, <4>1, <4>3, <5>1, <5>2 DEF Documents
        <5> QED
          BY <4>1, <5>1, <5>2, <5>3 DEF Basis
      <4>4. CASE m.kind = "relate"
        <5>1. s[Len(s)] \in Version
          BY <3>1, <4>1
        <5>2. NewVersion(m).from = s[Len(s)].words
          BY <2>3, <4>4, <5>1 DEF NewVersion, Current, Version
        <5> QED
          BY <4>1, <5>2
      <4>5. CASE m.kind = "restore"
        <5>1. s[1] \in Version
          BY <3>1, <4>1
        <5>2. NewVersion(m).from = s[Len(s)].words
          BY <2>3, <4>5, <5>1 DEF NewVersion, Current, Version
        <5> QED
          BY <4>1, <5>2
      <4> QED
        BY <2>3, <4>2, <4>3, <4>4, <4>5 DEF Writing
    <3> QED
      BY <3>1, <3>2, <3>3
  <2> QED
    BY <2>2, <2>3
<1> QED
  BY <1>2, <1>3

LEMMA ServedDocuments ==
  ASSUME DeskInv, NEW m \in wire, NEW answer, Served(m, answer)
  PROVE  Documents'
<1>1. /\ DeskTypes /\ Documents /\ wire' = wire \ {m} /\ UNCHANGED <<strayed, typedText, kept>>
      /\ \A x \in wire : x.id \in Ids
  BY DEF DeskInv, DeskTypes, Requests, Served
<1>2. Grows
  BY <1>1, ServedGrows
<1>3. \A d \in Ids : (versions'[d] = <<>> <=> life'[d] = "unborn") /\ (lockedBy'[d] # 0 => Live(d)')
  BY ServedLife
<1>4. \A x \in wire' : x.kind # "new" => life'[x.id] # "unborn"
  BY <1>1, ServedLife DEF Documents
<1>5. \A x \in wire' : x.kind \in {"put", "save"} =>
            x.words = x.n /\ (x.n \notin strayed' => Basis(x.id, x.base, x.from)')
  BY <1>1, <1>2, GrowsKeeps DEF Documents
<1>6. \A n \in typedText' : n \in kept' \/ InHistory(n)'
  BY <1>1, <1>2, GrowsKeeps DEF Documents
<1> QED
  BY <1>3, <1>4, <1>5, <1>6, ServedMadeFromRead DEF Documents

\* What serving m can tell q: the answer to m, if it is what q waits for.
LEMMA ServedInbox ==
  ASSUME DeskInv, NEW m \in wire, NEW answer, Served(m, answer), NEW q \in People
  PROVE  /\ stage'[q] = stage[q] /\ asked'[q] = asked[q] /\ told'[q] = told[q] /\ order'[q] = order[q]
         /\ inbox'[q] = (IF stage[q] = "waits" /\ asked[q] = m THEN answer ELSE inbox[q])
         /\ Mine(q)' = Mine(q) \ {m}
         /\ \A x : Agrees(x, q)' <=> Agrees(x, q)
<1>1. /\ stage' = stage /\ asked' = asked /\ told' = told /\ order' = order /\ strayed' = strayed /\ wire' = wire \ {m}
      /\ inbox' = IF stage[m.p] = "waits" /\ asked[m.p] = m THEN [inbox EXCEPT ![m.p] = answer] ELSE inbox
  BY DEF Served
<1>2. stage[q] = "waits" => asked[q].p = q
  BY DEF DeskInv, Command
<1>3. inbox'[q] = (IF stage[q] = "waits" /\ asked[q] = m THEN answer ELSE inbox[q])
  BY <1>1, <1>2 DEF DeskInv, DeskTypes
<1> QED
  BY <1>1, <1>3 DEF Mine, Agrees

LEMMA ServedCommand ==
  ASSUME DeskInv, NEW m \in wire, NEW answer, Served(m, answer), NEW q \in People
  PROVE  Command(q)'
<1>1. Command(q)
  BY DEF DeskInv
<1>2. order[q].n # 0 /\ order[q].what # "new" => life'[order[q].id] # "unborn"
  BY <1>1, ServedLife DEF Command
<1>3. answer = "too_large" => m.kind \in {"new", "put", "save"}
  BY DEF Served
<1> QED
  BY <1>1, <1>2, <1>3, ServedInbox DEF Command, Waits

\* A command that was served made its change, and the next of its requests finds it made.
LEMMA ServedOnce ==
  ASSUME DeskInv, NEW m \in wire, NEW answer, Served(m, answer), NEW q \in People
  PROVE  Once(q)'
<1> DEFINE o == order[q]
           n == order[q].n
<1> SUFFICES ASSUME n \notin strayed, n # 0
             PROVE  /\ o.read = o.id
                    /\ o.what = "put" => Basis(o.id, o.base, o.from)'
                    /\ o.what \in {"put", "rm", "relate", "restore"} => o.base <= Len(versions'[o.id])
                    /\ o.what # "mv" => did'[n] \in {0, 1} /\ (did'[n] = 1 => Spent(q)')
  BY ServedInbox DEF Once, Served
<1>1. /\ DeskTypes /\ Documents /\ o.id \in Ids /\ o.what \in Commands /\ n \in 1..MaxOrders /\ o.base \in Nat
      /\ o.read = o.id
      /\ o.what = "put" => Basis(o.id, o.base, o.from)
      /\ o.what \in {"put", "rm", "relate", "restore"} => o.base <= Len(versions[o.id])
      /\ o.what # "mv" => did[n] \in {0, 1} /\ (did[n] = 1 => Spent(q))
  <2>1. DeskTypes /\ Documents /\ Numbered /\ Command(q) /\ Once(q)
    BY DEF DeskInv
  <2>2. o \in Orders /\ n \in 0..orders /\ orders \in 0..MaxOrders
    BY <2>1 DEF DeskTypes, Numbered
  <2>3. o.base \in Nat /\ o.what \in Commands \cup {"none"} /\ n \in 1..MaxOrders
    BY <2>2, PersonAssumption DEF Orders
  <2> QED
    BY <2>1, <2>3 DEF Command, Once
<1>2. Grows
  BY <1>1, ServedGrows
<1>3. Basis(o.id, o.base, o.from) => Basis(o.id, o.base, o.from)'
  BY <1>1, <1>2, GrowsKeeps, ServedInbox
<1>4. /\ Len(versions[o.id]) \in Nat /\ Len(versions'[o.id]) \in Nat /\ Len(versions'[o.id]) >= Len(versions[o.id])
  BY <1>1, <1>2 DEF Grows
<1>5. life[o.id] # "unborn" => life'[o.id] # "unborn"
  BY <1>1, ServedLife
<1>6. o.what = "rm" /\ life[o.id] = "deleted" => life'[o.id] = "deleted" \/ Len(versions'[o.id]) > o.base
  <2>1. CASE answer # "done" \/ m.id # o.id
    <3>1. life'[o.id] = life[o.id]
      BY <1>1, <2>1, DoesGrows DEF Served, documents
    <3> QED
      BY <3>1
  <2>2. CASE answer = "done" /\ m.id = o.id
    <3>1. Outcome(m) = "done" /\ Does(m)
      BY <2>2 DEF Served
    <3>2. CASE m.kind = "restore"
      BY <1>1, <1>4, <2>2, <3>1, <3>2, DoneGrows DEF Writing
    <3>3. CASE m.kind = "new"
      BY <1>1, <2>2, <3>1, <3>3, DoneMeans
    <3>4. CASE m.kind \notin {"new", "restore"}
      BY <1>1, <2>2, <3>1, <3>4, DoesGrows
    <3> QED
      BY <3>2, <3>3, <3>4
  <2> QED
    BY <2>1, <2>2
<1>7. Spent(q) => Spent(q)'
  BY <1>1, <1>4, <1>5, <1>6, ServedInbox DEF Spent
<1>8. ASSUME o.what # "mv"
      PROVE  did'[n] \in {0, 1} /\ (did'[n] = 1 => Spent(q)')
  <2>1. CASE answer # "done" \/ m.n # n \/ m.kind \in {"lock", "renew", "unlock"}
    <3>1. did'[n] = did[n]
      BY <1>1, <2>1 DEF Served, Does, DeskTypes
    <3> QED
      BY <1>1, <1>7, <1>8, <3>1
  <2>2. CASE answer = "done" /\ m.n = n /\ m.kind \notin {"lock", "renew", "unlock"}
    <3>1. Outcome(m) = "done" /\ Does(m)
      BY <2>2 DEF Served
    <3>2. Agrees(m, q)
      BY <2>2 DEF DeskInv, Command, Mine
    <3>3. /\ m.id = o.id /\ (m.kind \in OnVersion => m.base = o.base)
          /\ m.kind = (IF o.what = "edit" THEN "save" ELSE o.what)
      BY <2>2, <3>2 DEF Agrees
    <3>4. m.kind # "mv" /\ m.kind \in {"new", "rm", "put", "relate", "restore", "save"}
      BY <1>1, <1>8, <2>2, <3>3 DEF Commands
    <3>5. ~Spent(q)
      <4>1. CASE o.what = "new"
        BY <1>1, <3>1, <3>3, <4>1, DoneMeans DEF Spent
      <4>2. CASE o.what # "new"
        <5>1. o.base = Len(versions[o.id]) /\ (m.kind = "rm" => life[o.id] # "deleted")
          BY <1>1, <3>1, <3>3, <3>4, <4>2, DoneMeans DEF OnVersion
        <5> QED
          BY <1>1, <1>4, <3>3, <4>2, <5>1 DEF Spent
      <4> QED
        BY <4>1, <4>2
    <3>6. did[n] = 0
      BY <1>1, <1>8, <3>5
    <3>7. did'[n] = 1
      BY <1>1, <2>2, <3>1, <3>6 DEF Does, DeskTypes
    <3>8. Spent(q)'
      <4>1. CASE o.what = "new"
        <5>1. life'[o.id] = "live"
          BY <1>1, <3>1, <3>3, <4>1, DoesGrows
        <5> QED
          BY <4>1, <5>1, ServedInbox DEF Spent
      <4>2. CASE o.what = "rm"
        <5>1. life'[o.id] = "deleted"
          BY <1>1, <3>1, <3>3, <4>2, DoesGrows
        <5> QED
          BY <4>2, <5>1, ServedInbox DEF Spent
      <4>3. CASE o.what \notin {"new", "rm"}
        <5>1. m.kind \in Writing /\ m.kind \in OnVersion /\ o.what \in {"put", "relate", "restore", "edit"}
          BY <1>1, <3>3, <3>4, <4>3 DEF Writing, OnVersion, Commands
        <5>2. Len(versions'[o.id]) = Len(versions[o.id]) + 1
          BY <1>1, <3>1, <3>3, <5>1, DoneGrows
        <5>3. o.base = Len(versions[o.id])
          BY <1>1, <3>1, <3>3, <5>1, DoneMeans
        <5> QED
          BY <1>4, <5>1, <5>2, <5>3, ServedInbox DEF Spent
      <4> QED
        BY <4>1, <4>2, <4>3
    <3> QED
      BY <3>7, <3>8
  <2> QED
    BY <2>1, <2>2
<1> QED
  BY <1>1, <1>3, <1>4, <1>8

-----------------------------------------------------------------------------
(* What others are served leaves an edit its lock, its text and its place.  *)

\* Who writes under the session of an edit is the edit.
LEMMA SessionIsOwn ==
  ASSUME DeskInv, NEW m \in wire, NEW q \in People, order[q].what = "edit", m.session = order[q].n
  PROVE  m \in Mine(q)
BY DEF DeskInv, OwnSession, Mine

LEMMA ServedEditWire ==
  ASSUME DeskInv, NEW m \in wire, NEW answer, Served(m, answer), NEW q \in People, order[q].what = "edit"
  PROVE  EditWire(q)'
<1> DEFINE n == order[q].n
<1>1. EditWire(q) /\ leaky' = leaky /\ renewing' = (IF m.kind = "renew" THEN renewing \ {m.n} ELSE renewing)
  BY DEF DeskInv, Edit, Served
<1>2. RenewLock(q)' = RenewLock(q)
  BY ServedInbox DEF RenewLock, Request, SessionOf
<1>3. \A x \in Mine(q)' : x \in Mine(q) /\ x # m
  BY ServedInbox
<1>4. \A x \in Mine(q)' : (Awaited(x, q) => Awaited(x, q)') /\ \A kinds : Waits(q, kinds) => Waits(q, kinds)'
  BY <1>3, ServedInbox DEF Awaited, Waits
<1>5. \A x \in Mine(q)' : x.kind = "renew" /\ n \in renewing => n \in renewing'
  BY <1>1, <1>3, ServedInbox DEF EditWire, Mine
<1>6. ASSUME NEW x \in Mine(q)'
      PROVE  /\ x.kind = "lock" => Awaited(x, q)' \/ (stage[q] = "free" /\ n \in leaky)
             /\ x.kind = "save" => Awaited(x, q)' \/ stage[q] = "free" \/ Waits(q, {"unlock"})'
             /\ x.kind = "renew" => x = RenewLock(q) /\ n \in renewing' \cup leaky
             /\ x.kind = "unlock" => stage[q] = "free" \/ Waits(q, {"unlock"})'
  BY <1>1, <1>3, <1>4, <1>5, <1>6 DEF EditWire
<1> QED
  BY <1>1, <1>2, <1>6, ServedInbox DEF EditWire

LEMMA ServedEditText ==
  ASSUME DeskInv, NEW m \in wire, NEW answer, Served(m, answer), NEW q \in People, order[q].what = "edit"
  PROVE  EditText(q)'
<1> DEFINE n == order[q].n
           d == order[q].id
<1>1. /\ DeskTypes /\ Documents /\ EditText(q) /\ EditWire(q) /\ Command(q)
      /\ typedText' = typedText /\ kept' = kept /\ m.id \in Ids /\ versions \in [Ids -> Seq(Version)]
  <2>1. DeskTypes /\ Documents /\ Command(q) /\ EditText(q) /\ EditWire(q)
    BY DEF DeskInv, Edit
  <2>2. m.id \in Ids /\ versions \in [Ids -> Seq(Version)]
    BY <2>1 DEF DeskTypes, Requests
  <2> QED
    BY <2>1, <2>2 DEF Served
<1>2. Grows
  BY <1>1, ServedGrows
<1>3. (Before(q)' <=> Before(q)) /\ (Saving(q)' <=> Saving(q)) /\ (Waits(q, {"save"})' <=> Waits(q, {"save"}))
  BY ServedInbox DEF Before, Saving, Waits
<1>4. Before(q) => did'[n] = 0
  <2> SUFFICES ASSUME Before(q)
               PROVE  did'[n] = 0
    OBVIOUS
  <2>0. n \in 1..MaxOrders /\ did[n] = 0 /\ did \in [1..MaxOrders -> Nat]
    <3>1. n \in 0..orders /\ orders \in 0..MaxOrders /\ n # 0
      BY <1>1 DEF DeskInv, DeskTypes, Numbered, Command, Before, Waits
    <3>2. n \in 1..MaxOrders
      BY <3>1, PersonAssumption
    <3> QED
      BY <1>1, <3>2 DEF EditText, DeskTypes
  <2>1. did' = did \/ (did' = [did EXCEPT ![m.n] = @ + 1] /\ m.kind \notin {"lock", "renew", "unlock"})
    BY DEF Served, Does
  <2>2. m.n # n \/ m \in Mine(q)
    BY DEF Mine
  <2>3. m \in Mine(q) => m.kind \in {"lock", "renew", "save", "unlock"}
    BY <1>1 DEF Command, Agrees
  <2>4. m \in Mine(q) => m.kind # "save"
    BY <1>1 DEF EditWire, Awaited, Waits, Before
  <2> QED
    BY <2>0, <2>1, <2>2, <2>3, <2>4
<1>5. Saving(q) => Basis(d, order[q].base, order[q].from)'
  <2>1. Saving(q) => d \in Ids
    BY <1>1 DEF Command, Saving, Waits
  <2> QED
    BY <1>1, <1>2, <2>1, GrowsKeeps, ServedInbox DEF EditText
<1>6. ASSUME Waits(q, {"save"}), inbox'[q] \in {"done", "same"}
      PROVE  InHistory(n)'
  <2>0. \A k : InHistory(k) => InHistory(k)'
    BY <1>2, GrowsKeeps
  <2>1. CASE inbox[q] \in {"done", "same"}
    <3>1. InHistory(n)
      BY <1>1, <1>6, <2>1 DEF EditText
    <3> QED
      BY <2>0, <3>1, ServedInbox DEF InHistory
  <2>2. CASE inbox[q] \notin {"done", "same"}
    <3>1. asked[q] = m /\ answer \in {"done", "same"} /\ m.kind = "save" /\ m.n = n
      BY <1>1, <1>6, <2>2, ServedInbox DEF Waits, Command
    <3>2. m.words = n
      BY <1>1, <3>1 DEF Documents
    <3>3. CASE answer = "done"
      <4>0. Outcome(m) = "done" /\ Does(m) /\ m.kind \in Writing
        BY <3>1, <3>3 DEF Served, Writing
      <4>1. versions'[m.id] = Append(versions[m.id], NewVersion(m)) /\ NewVersion(m).words = n
        <5>1. versions'[m.id] = Append(versions[m.id], NewVersion(m))
          BY <1>1, <4>0, DoesGrows
        <5>2. NewVersion(m).words = n
          BY <3>1, <3>2 DEF NewVersion
        <5> QED
          BY <5>1, <5>2
      <4>2. Len(versions[m.id]) + 1 \in DOMAIN versions'[m.id] /\ versions'[m.id][Len(versions[m.id]) + 1] = NewVersion(m)
        BY <1>1, <4>1
      <4>3. versions'[m.id][Len(versions[m.id]) + 1].words = n
        BY <4>1, <4>2
      <4> QED
        BY <1>1, <4>2, <4>3, ServedInbox DEF InHistory
    <3>4. CASE answer = "same"
      <4>1. Outcome(m) = "same" /\ versions' = versions
        BY <3>4 DEF Served, documents
      <4>2. Live(m.id) /\ Current(m.id).words = n
        BY <3>1, <3>2, <4>1 DEF Outcome, Refuses, AlreadySo, OfLive
      <4>3. versions[m.id] # <<>>
        BY <1>1, <4>2 DEF Documents, Live
      <4>4. Len(versions[m.id]) \in DOMAIN versions[m.id]
        BY <1>1, <4>3
      <4>5. versions'[m.id][Len(versions[m.id])].words = n /\ Len(versions[m.id]) \in DOMAIN versions'[m.id]
        BY <4>1, <4>2, <4>4 DEF Current
      <4> QED
        BY <1>1, <4>5, ServedInbox DEF InHistory
    <3> QED
      BY <3>1, <3>3, <3>4
  <2> QED
    BY <2>1, <2>2
<1> QED
  BY <1>1, <1>3, <1>4, <1>5, <1>6, ServedInbox DEF EditText

\* Nobody else can take the lock away unseen, nor save while it is held.
LEMMA ServedEditHolds ==
  ASSUME DeskInv, NEW m \in wire, NEW answer, Served(m, answer), NEW q \in People, order[q].what = "edit"
  PROVE  EditHolds(q)'
<1> DEFINE n == order[q].n
           d == order[q].id
<1>1. /\ DeskTypes /\ Documents /\ EditHolds(q) /\ EditWire(q) /\ Command(q) /\ m.kind \in Methods
      /\ m.id \in Ids /\ lockLost \subseteq lockLost'
  <2>1. lockLost \subseteq lockLost'
    BY DEF Served, Does
  <2>2. DeskTypes /\ Documents /\ Command(q) /\ EditHolds(q) /\ EditWire(q)
    BY DEF DeskInv, Edit
  <2>3. m.id \in Ids /\ m.kind \in Methods
    BY <2>2 DEF DeskTypes, Requests
  <2> QED
    BY <2>1, <2>2, <2>3
<1>2. m.session = n => m \in Mine(q)
  BY SessionIsOwn
<1>3. m \in Mine(q) => /\ m.kind \in {"lock", "renew", "save", "unlock"} /\ m.session = n /\ m.id = d /\ ~m.force
                       /\ m.kind \in OnVersion => m.base = order[q].base
  <2> SUFFICES ASSUME m \in Mine(q)
               PROVE  /\ m.kind \in {"lock", "renew", "save", "unlock"} /\ m.session = n /\ m.id = d /\ ~m.force
                      /\ m.kind \in OnVersion => m.base = order[q].base
    OBVIOUS
  <2>1. Agrees(m, q) /\ m.n = n
    BY <1>1 DEF Command, Mine
  <2> QED
    BY <2>1 DEF Agrees
<1>4. asked[q] = m /\ stage[q] = "waits" => m \in Mine(q)
  BY <1>1 DEF Command, Mine
<1>5. m \in Mine(q) /\ m.kind \in {"lock", "save"} => (Waits(q, {"lock", "save"}) => Awaited(m, q))
  BY <1>1 DEF EditWire, Waits
\* What was held is held still.
<1>6. ASSUME n \notin lockLost', LockedUnread(q) \/ Unsaved(q)
      PROVE  lockedBy'[d] = n /\ (answer = "done" /\ m.id = d => m \in Mine(q) /\ m.kind \in {"lock", "renew", "save"})
  <2>1. lockedBy[d] = n /\ n # 0 /\ d \in Ids
    BY <1>1, <1>6 DEF EditHolds, Command, LockedUnread, Unsaved, Saving, Waits
  <2>2. CASE answer # "done"
    BY <2>1, <2>2 DEF Served, documents
  <2>3. CASE answer = "done"
    <3>1. Outcome(m) = "done" /\ Does(m)
      BY <2>3 DEF Served
    <3>2. CASE m.id # d
      BY <1>1, <2>1, <3>1, <3>2, DoesGrows
    <3>3. CASE m.id = d
      <4>1. m.kind # "new"
        BY <1>1, <2>1, <3>1, <3>3, DoneMeans DEF Documents, Live
      <4>2. m.kind \in OnVersion \cup {"lock", "renew"} => m.session = n
        BY <1>1, <2>1, <3>1, <3>3, DoneMeans
      <4>3. m.kind = "unlock" => m.session = n
        <5>1. m.kind = "unlock" => lockLost' = lockLost \cup ({lockedBy[m.id]} \ {0, m.session})
          BY <3>1 DEF Does
        <5>2. m.kind = "unlock" /\ ~m.force => m.session = n
          BY <1>1, <2>1, <3>1, <3>3, DoneMeans
        <5> QED
          BY <1>6, <2>1, <3>3, <5>1, <5>2
      <4>4. m \in Mine(q)
        BY <1>1, <1>2, <4>1, <4>2, <4>3 DEF Methods, OnVersion
      <4>5. m.kind # "unlock"
        BY <1>1, <1>6, <4>4 DEF EditWire, LockedUnread, Unsaved, Saving, Waits
      <4>6. m.kind \in {"lock", "renew", "save"} /\ m.session = n
        <5>1. m.kind \in {"lock", "renew", "save", "unlock"} /\ m.session = n
          BY <1>3, <4>4
        <5> QED
          BY <4>5, <5>1
      <4>7. lockedBy'[d] = n
        <5>1. /\ m.kind \in {"lock", "renew"} => lockedBy'[m.id] = m.session
              /\ m.kind \notin {"lock", "renew", "unlock", "rm"} => lockedBy'[m.id] = lockedBy[m.id]
          BY <1>1, <3>1, DoesGrows
        <5> QED
          BY <2>1, <3>3, <4>6, <5>1
      <4> QED
        BY <4>4, <4>6, <4>7
    <3> QED
      BY <3>2, <3>3
  <2> QED
    BY <2>2, <2>3
<1>7. LockedUnread(q)' => LockedUnread(q) \/ (asked[q] = m /\ stage[q] = "waits" /\ m.kind = "lock" /\ answer = "done")
  BY ServedInbox DEF LockedUnread, Waits
<1>8. Unsaved(q)' => Unsaved(q) /\ ~(asked[q] = m /\ stage[q] = "waits" /\ answer = "done")
  <2>1. Saving(q)' <=> Saving(q)
    BY ServedInbox DEF Saving, Waits
  <2>2. Saving(q) /\ asked[q] = m /\ stage[q] = "waits" => inbox[q] = "none"
    BY <1>4, <1>5 DEF Saving, Waits, Awaited
  <2> QED
    BY <2>1, <2>2, ServedInbox DEF Unsaved
<1>9. n \notin lockLost' /\ (LockedUnread(q)' \/ Unsaved(q)') => lockedBy'[d] = n
  <2>1. CASE asked[q] = m /\ stage[q] = "waits" /\ m.kind = "lock" /\ answer = "done"
    <3>1. Outcome(m) = "done" /\ Does(m)
      BY <2>1 DEF Served
    <3>2. m.session = n /\ m.id = d
      BY <1>3, <1>4, <2>1
    <3>3. lockedBy'[m.id] = m.session
      BY <1>1, <2>1, <3>1, DoesGrows
    <3> QED
      BY <3>2, <3>3
  <2> QED
    BY <1>6, <1>7, <1>8, <2>1
<1>10. ASSUME n \notin lockLost', Unsaved(q)'
       PROVE  order[q].base = Len(versions'[d])
  <2>1. Unsaved(q) /\ order[q].base = Len(versions[d]) /\ d \in Ids
    BY <1>1, <1>8, <1>10 DEF EditHolds, Command, Unsaved, Saving, Waits
  <2>2. versions'[d] = versions[d]
    <3>1. CASE answer # "done"
      BY <3>1 DEF Served, documents
    <3>2. CASE answer = "done"
      <4>1. Outcome(m) = "done" /\ Does(m)
        BY <3>2 DEF Served
      <4>2. m.id = d => m \in Mine(q) /\ m.kind \in {"lock", "renew", "save"}
        BY <1>6, <1>10, <2>1, <3>2
      <4>3. m \in Mine(q) => m.kind # "save"
        <5>1. Saving(q) /\ m \in Mine(q) /\ m.kind = "save" => Awaited(m, q)
          BY <1>1 DEF EditWire, Saving, Waits
        <5> QED
          BY <1>8, <1>10, <2>1, <3>2, <5>1 DEF Unsaved, Awaited
      <4> QED
        BY <1>1, <2>1, <4>1, <4>2, <4>3, DoesGrows DEF Writing
    <3> QED
      BY <3>1, <3>2
  <2> QED
    BY <2>1, <2>2
<1>11. Waits(q, {"lock"}) => inbox'[q] # "conflict"
  <2>1. m.kind = "lock" => answer # "conflict"
    BY DEF Served, Outcome, Stale, OnVersion
  <2> QED
    BY <1>1, <2>1, ServedInbox DEF EditHolds, Waits
<1>12. ASSUME Waits(q, {"save"}), inbox'[q] = "conflict"
       PROVE  n \in lockLost'
  <2>1. CASE inbox[q] = "conflict"
    BY <1>1, <1>12, <2>1 DEF EditHolds
  <2>2. CASE inbox[q] # "conflict"
    <3>1. asked[q] = m /\ stage[q] = "waits" /\ answer = "conflict" /\ m.kind = "save" /\ m \in Mine(q)
      BY <1>4, <1>12, <2>2, ServedInbox DEF Waits
    <3>2. m.base # Len(versions[m.id])
      BY <3>1 DEF Served, Outcome, Stale
    <3>3. Unsaved(q)
      BY <1>5, <1>12, <3>1 DEF Unsaved, Saving, Waits, Awaited
    <3>4. m.base = order[q].base /\ m.id = d
      BY <1>3, <3>1 DEF OnVersion
    <3>5. n \in lockLost
      BY <1>1, <3>2, <3>3, <3>4 DEF EditHolds
    <3> QED
      BY <1>1, <3>5
  <2> QED
    BY <2>1, <2>2
<1>13. told[q] = "conflict" => n \in lockLost'
  BY <1>1 DEF EditHolds
<1>14. (Waits(q, {"lock"})' <=> Waits(q, {"lock"})) /\ (Waits(q, {"save"})' <=> Waits(q, {"save"}))
  BY ServedInbox DEF Waits
<1> QED
  BY <1>9, <1>10, <1>11, <1>12, <1>13, <1>14, ServedInbox DEF EditHolds
\* What locks for an edit is awaited, and what unlocks for it leaves it without the lock.
LEMMA ServedEditLeaves ==
  ASSUME DeskInv, NEW m \in wire, NEW answer, Served(m, answer), NEW q \in People, order[q].what = "edit"
  PROVE  EditLeaves(q)'
<1> DEFINE n == order[q].n
<1> SUFFICES ASSUME n \notin leaky
             PROVE  /\ \A d \in Ids : lockedBy'[d] = n => d = order[q].id
                    /\ Unlocked(q)' => \A d \in Ids : lockedBy'[d] # n
  BY ServedInbox DEF EditLeaves, Served
<1>1. /\ DeskTypes /\ Documents /\ Command(q) /\ EditWire(q) /\ n # 0 /\ m.id \in Ids /\ m.kind \in Methods
      /\ \A d \in Ids : lockedBy[d] = n => d = order[q].id
      /\ Unlocked(q) => \A d \in Ids : lockedBy[d] # n
  <2>1. DeskTypes /\ Documents /\ Command(q) /\ EditWire(q) /\ EditLeaves(q)
    BY DEF DeskInv, Edit
  <2>2. m.id \in Ids /\ m.kind \in Methods
    BY <2>1 DEF DeskTypes, Requests
  <2>3. n # 0
    BY <2>1 DEF Command
  <2> QED
    BY <2>1, <2>2, <2>3 DEF EditLeaves
<1>2. m \in Mine(q) => m.session = n /\ m.id = order[q].id /\ ~m.force
  <2>1. m \in Mine(q) => Agrees(m, q) /\ m.n = n
    BY <1>1 DEF Command, Mine
  <2> QED
    BY <2>1 DEF Agrees
\* Who locks.
<1>3. ASSUME NEW d \in Ids, lockedBy'[d] = n, lockedBy[d] # n
      PROVE  answer = "done" /\ d = m.id /\ m \in Mine(q) /\ m.kind \in {"lock", "renew"}
  <2>1. answer = "done"
    BY <1>3 DEF Served, documents
  <2>2. Outcome(m) = "done" /\ Does(m)
    BY <2>1 DEF Served
  <2>3. d = m.id
    BY <1>1, <1>3, <2>2, DoesGrows
  <2>4. m.kind \in {"lock", "renew"} /\ m.session = n
    BY <1>1, <1>3, <2>2, <2>3, DoesGrows
  <2>5. m \in Mine(q)
    BY <2>4, SessionIsOwn
  <2> QED
    BY <2>1, <2>3, <2>4, <2>5
<1>4. \A d \in Ids : lockedBy'[d] = n => d = order[q].id
  BY <1>1, <1>2, <1>3
<1>5. ASSUME Unlocked(q)', Unlocked(q), NEW d \in Ids
      PROVE  lockedBy'[d] # n
  <2> SUFFICES ASSUME lockedBy'[d] = n
               PROVE  FALSE
    OBVIOUS
  <2>1. answer = "done" /\ m \in Mine(q) /\ m.kind \in {"lock", "renew"}
    BY <1>1, <1>3, <1>5
  <2>2. CASE m.kind = "renew"
    <3>1. stage[q] = "edits"
      BY <1>1, <2>1, <2>2 DEF EditWire
    <3> QED
      BY <1>5, <3>1 DEF Unlocked, Waits
  <2>3. CASE m.kind = "lock"
    <3>1. Awaited(m, q)
      BY <1>1, <2>1, <2>3 DEF EditWire
    <3>2. stage[q] = "waits" /\ asked[q] = m
      BY <3>1 DEF Awaited
    <3>3. inbox'[q] = "done" /\ stage'[q] = "waits" /\ asked'[q].kind = "lock"
      BY <2>1, <2>3, <3>2, ServedInbox
    <3> QED
      BY <1>5, <3>3 DEF Unlocked, Waits
  <2> QED
    BY <2>1, <2>2, <2>3
<1>6. ASSUME Unlocked(q)', ~Unlocked(q), NEW d \in Ids
      PROVE  lockedBy'[d] # n
  <2>1. stage[q] = "waits" /\ asked[q] = m
    BY <1>6, ServedInbox DEF Unlocked, Waits
  <2>2. m \in Mine(q)
    BY <1>1, <2>1 DEF Command, Mine
  <2>3. m.kind = "unlock"
    <3>1. m.kind = "lock" => Awaited(m, q)
      BY <1>1, <2>1, <2>2 DEF EditWire
    <3>2. m.kind # "lock"
      BY <1>6, <2>1, <3>1 DEF Awaited, Unlocked, Waits
    <3> QED
      BY <1>6, <2>1, <3>2, ServedInbox DEF Unlocked, Waits
  <2>4. m.session = n /\ m.id = order[q].id /\ ~m.force
    BY <1>2, <2>2
  <2>5. answer \in {"done", "same"}
    BY <2>3, <2>4 DEF Served, Answers, Outcome, Stale, OnVersion
  <2>6. CASE answer = "done"
    <3>1. lockedBy'[m.id] = 0
      BY <1>1, <2>3, <2>6, DoesGrows DEF Served
    <3> QED
      BY <1>1, <1>4, <2>4, <3>1
  <2>7. CASE answer = "same"
    <3>1. Outcome(m) = "same" /\ lockedBy' = lockedBy
      BY <2>7 DEF Served, documents
    <3>2. lockedBy[m.id] # n
      BY <2>3, <2>4, <3>1 DEF Outcome, AlreadySo
    <3> QED
      BY <1>1, <2>4, <3>1, <3>2
  <2> QED
    BY <2>5, <2>6, <2>7
<1> QED
  BY <1>4, <1>5, <1>6

LEMMA ServeKeeps ==
  ASSUME DeskInv, NEW m \in wire, Serve(m)
  PROVE  DeskInv'
<1>1. PICK answer \in Answers : Served(m, answer)
  BY ServeIs
<1>2. DeskTypes'
  BY <1>1, ServedTypes DEF DeskInv
<1>3. Numbered' /\ OwnSession' /\ Documents'
  BY <1>1, ServedNumbers, ServedDocuments
<1>4. \A q \in People : Command(q)' /\ Once(q)'
  BY <1>1, ServedCommand, ServedOnce
<1>5. ASSUME NEW q \in People
      PROVE  Edit(q)'
  <2>1. order'[q] = order[q]
    BY <1>1, ServedInbox
  <2>2. order[q].what = "edit" => EditWire(q)' /\ EditText(q)' /\ EditHolds(q)' /\ EditLeaves(q)'
    BY <1>1, ServedEditWire, ServedEditText, ServedEditHolds, ServedEditLeaves
  <2> QED
    BY <2>1, <2>2 DEF Edit
<1> QED
  BY <1>2, <1>3, <1>4, <1>5 DEF DeskInv

-----------------------------------------------------------------------------
(* The invariant.                                                          *)

LEMMA LockGoesKeeps ==
  ASSUME DeskInv, NEW d \in Ids, LockGoes(d)
  PROVE  DeskInv'
<1>1. /\ UNCHANGED <<life, filed, versions, wire, stage, order, asked, inbox, told, renewing, kept, heldSessions,
                     orders, did, typedText, leaky, strayed>>
      /\ lockedBy' = [lockedBy EXCEPT ![d] = 0] /\ lockLost' = lockLost \cup {lockedBy[d]} /\ mishaps' = mishaps + 1
  BY DEF LockGoes, Mishap, person
<1>2. DeskTypes /\ Numbered /\ OwnSession /\ Documents
  BY DEF DeskInv
<1>3. DeskTypes'
  BY <1>1, <1>2 DEF DeskTypes
<1>4. Numbered' /\ OwnSession'
  BY <1>1, <1>2 DEF Numbered, OwnSession, DeskTypes
<1>5. Documents'
  <2>1. MadeFromRead'
    BY <1>1, <1>2 DEF Documents, MadeFromRead
  <2>2. \A e \in Ids : lockedBy'[e] # 0 => Live(e)'
    BY <1>1, <1>2 DEF Documents, DeskTypes, Live
  <2> QED
    BY <1>1, <1>2, <2>1, <2>2 DEF Documents, Basis, InHistory
<1>6. ASSUME NEW q \in People
      PROVE  Command(q)' /\ Once(q)' /\ Edit(q)'
  <2>1. Command(q) /\ Once(q) /\ Edit(q)
    BY DEF DeskInv
  <2>2. Command(q)'
    BY <1>1, <2>1 DEF Command, Agrees, Mine, Waits
  <2>3. Once(q)'
    BY <1>1, <2>1 DEF Once, Spent, Basis
  <2>4. ASSUME order[q].what = "edit"
        PROVE  EditWire(q)' /\ EditText(q)' /\ EditHolds(q)' /\ EditLeaves(q)'
    <3>1. EditWire(q) /\ EditText(q) /\ EditHolds(q) /\ EditLeaves(q) /\ order[q].n # 0
      BY <2>1, <2>4 DEF Edit, Command
    <3>2. EditWire(q)'
      BY <1>1, <3>1 DEF EditWire, Awaited, Waits, Mine, RenewLock, Request, SessionOf
    <3>3. EditText(q)'
      BY <1>1, <3>1 DEF EditText, Before, Saving, Waits, Basis, InHistory
    <3>4. \A e \in Ids : lockedBy'[e] = order[q].n => lockedBy[e] = order[q].n
      BY <1>1, <1>2, <3>1 DEF DeskTypes
    <3>5. EditLeaves(q)'
      BY <1>1, <3>1, <3>4 DEF EditLeaves, Unlocked, Waits
    <3>6. order[q].n \notin lockLost' => order[q].n \notin lockLost /\ \A e \in Ids : lockedBy[e] = order[q].n => e # d
      BY <1>1
    <3>7. order[q].id = d /\ lockedBy[d] = order[q].n => order[q].n \in lockLost'
      BY <1>1
    <3>8. order[q].id # d => lockedBy'[order[q].id] = lockedBy[order[q].id]
      BY <1>1, <1>2 DEF DeskTypes
    <3>9. (LockedUnread(q)' <=> LockedUnread(q)) /\ (Unsaved(q)' <=> Unsaved(q)) /\ \A kinds : Waits(q, kinds)' <=> Waits(q, kinds)
      BY <1>1 DEF LockedUnread, Unsaved, Saving, Waits
    <3>10. EditHolds(q)'
      BY <1>1, <3>1, <3>6, <3>7, <3>8, <3>9 DEF EditHolds
    <3> QED
      BY <3>2, <3>3, <3>5, <3>10
  <2> QED
    BY <1>1, <2>2, <2>3, <2>4 DEF Edit
<1> QED
  BY <1>3, <1>4, <1>5, <1>6 DEF DeskInv

LEMMA InitKeeps == DeskInit => DeskInv
<1> SUFFICES ASSUME DeskInit
             PROVE  DeskInv
  OBVIOUS
<1>1. \A p \in People : /\ order[p] = NoOrder /\ asked[p] = NoRequest /\ stage[p] = "free" /\ inbox[p] = "none"
                        /\ told[p] = "none"
  BY DEF DeskInit
<1>2. DeskTypes
  <2>1. NoOrder \in Orders
    BY DEF NoOrder, Orders
  <2>2. <<[words |-> 0, from |-> 0, related |-> FALSE]>> \in Seq(Version) /\ <<>> \in Seq(Version)
    BY DEF Version
  <2>3. versions \in [Ids -> Seq(Version)] /\ life \in [Ids -> {"unborn", "live", "deleted"}] /\ filed \in [Ids -> Nat]
    BY <2>2 DEF DeskInit
  <2> QED
    BY <2>1, <2>3, PersonAssumption DEF DeskInit, DeskTypes, Stages
<1>3. Numbered
  BY <1>1, PersonAssumption DEF DeskInit, Numbered, NoOrder
<1>4. OwnSession
  BY <1>1 DEF DeskInit, OwnSession, NoOrder
<1>5. Documents
  <2>1. \A d \in Ids : versions[d] = IF d = 1 THEN <<[words |-> 0, from |-> 0, related |-> FALSE]>> ELSE <<>>
    BY DEF DeskInit
  <2>2. MadeFromRead
    BY <2>1 DEF MadeFromRead
  <2>3. \A d \in Ids : versions[d] = <<>> <=> life[d] = "unborn"
    BY <2>1 DEF DeskInit
  <2> QED
    BY <2>2, <2>3 DEF DeskInit, Documents
<1>6. ASSUME NEW p \in People
      PROVE  Command(p) /\ Once(p) /\ Edit(p)
  <2>1. order[p].n = 0 /\ order[p].what = "none"
    BY <1>1 DEF NoOrder
  <2>2. Command(p)
    BY <1>1, <2>1 DEF DeskInit, Command, Waits, Mine
  <2> QED
    BY <2>1, <2>2 DEF Once, Edit
<1> QED
  BY <1>2, <1>3, <1>4, <1>5, <1>6 DEF DeskInv

LEMMA StutterKeeps ==
  ASSUME DeskInv, UNCHANGED deskVars
  PROVE  DeskInv'
<1>1. UNCHANGED <<life, filed, versions, lockedBy, wire, stage, order, asked, inbox, told, renewing, kept,
                  heldSessions, orders, mishaps, did, typedText, lockLost, leaky, strayed>>
  BY DEF deskVars, documents, person, deskHistory
<1>2. DeskTypes' /\ Numbered' /\ OwnSession'
  BY <1>1 DEF DeskInv, DeskTypes, Numbered, OwnSession
<1>3. Documents'
  BY <1>1 DEF DeskInv, Documents, MadeFromRead, Basis, InHistory, Live
<1>4. ASSUME NEW p \in People
      PROVE  Command(p)' /\ Once(p)' /\ Edit(p)'
  <2>1. Command(p) /\ Once(p) /\ Edit(p)
    BY DEF DeskInv
  <2>2. Command(p)' /\ Once(p)'
    BY <1>1, <2>1 DEF Command, Agrees, Mine, Waits, Once, Spent, Basis
  <2>3. EditWire(p)' <=> EditWire(p)
    BY <1>1 DEF EditWire, Awaited, Waits, Mine, RenewLock, Request, SessionOf
  <2>4. (EditText(p)' <=> EditText(p)) /\ (EditHolds(p)' <=> EditHolds(p)) /\ (EditLeaves(p)' <=> EditLeaves(p))
    BY <1>1 DEF EditText, EditHolds, EditLeaves, Before, Saving, LockedUnread, Unsaved, Unlocked, Waits, Basis, InHistory
  <2> QED
    BY <1>1, <2>1, <2>2, <2>3, <2>4 DEF Edit
<1> QED
  BY <1>2, <1>3, <1>4 DEF DeskInv

\* Every command numbers its requests with a number of its own, sends them for the version it
\* read and finds its change made if it was; an edit holds the lock from the lock's answer to the
\* save's, under a session that is nobody else's.
THEOREM DeskInvariant == DeskSpec => []DeskInv
<1>1. ASSUME DeskInv, [DeskNext]_deskVars
      PROVE  DeskInv'
  <2>1. ASSUME NEW p \in People,
               \/ NewCmd(p) \/ PutCmd(p) \/ MvCmd(p) \/ RmCmd(p) \/ RestoreCmd(p) \/ RelateCmd(p) \/ EditCmd(p)
               \/ LockCmd(p) \/ UnlockCmd(p)
        PROVE  DeskInv'
    BY <1>1, <2>1, CommandKeeps
  <2>2. ASSUME NEW p \in People,
               \/ Repeats(p) \/ Resolves(p) \/ Reads(p) \/ Renew(p) \/ Closes(p) \/ Writes(p)
        PROVE  DeskInv'
    BY <1>1, <2>2, RepeatsKeeps, ResolvesKeeps, ReadsKeeps, RenewKeeps, ClosesKeeps, WritesKeeps
  <2>3. ASSUME NEW p \in People, Uploads(p) \/ GetsReply(p) \/ TimesOut(p) \/ Dies(p)
        PROVE  DeskInv'
    BY <1>1, <2>3, UploadsKeeps, GetsReplyKeeps, TimesOutKeeps, DiesKeeps
  <2>4. ASSUME NEW m \in wire, Serve(m)
        PROVE  DeskInv'
    BY <1>1, <2>4, ServeKeeps
  <2>5. ASSUME NEW d \in Ids, LockGoes(d)
        PROVE  DeskInv'
    BY <1>1, <2>5, LockGoesKeeps
  <2>6. CASE UNCHANGED deskVars
    BY <1>1, <2>6, StutterKeeps
  <2> QED
    BY <1>1, <2>1, <2>2, <2>3, <2>4, <2>5, <2>6 DEF DeskNext
<1> QED
  BY <1>1, InitKeeps, PTL DEF DeskSpec

\* Each version of a document is made from the text of the one before it: no command overwrites
\* what its author had not read (docs.go, docs_edit.go), however requests are lost, repeated or late.
THEOREM VersionsMadeFromRead == DeskSpec => []MadeFromRead
<1>1. DeskInv => MadeFromRead
  BY DEF DeskInv, Documents
<1> QED
  BY <1>1, DeskInvariant, PTL

\* However often a command is typed again while its first request is on the way, it makes one
\* change.
THEOREM CommandsOnce == DeskSpec => []OnceEach
<1>1. DeskInv => OnceEach
  BY DEF DeskInv, Once, OnceEach
<1> QED
  BY <1>1, DeskInvariant, PTL

\* In an edit session no save of somebody else's gets in unless the lock was lost, what was typed
\* is in the history or in the kept file, and an edit that is over leaves no lock unless a request
\* of its got no reply.
THEOREM EditsSafe == DeskSpec => []EditSafe
<1>1. ASSUME DeskInv
      PROVE  EditSafe
  <2>1. LockProtects
    BY <1>1 DEF DeskInv, Edit, EditHolds, LockProtects
  <2>2. TypedKept
    BY <1>1 DEF DeskInv, Documents, InHistory, TypedKept
  <2>3. Released
    BY <1>1 DEF DeskInv, Edit, EditLeaves, Unlocked, Released
  <2> QED
    BY <2>1, <2>2, <2>3 DEF EditSafe
<1> QED
  BY <1>1, DeskInvariant, PTL

=============================================================================
