------------------------ MODULE ServiceTokenProofs -------------------------
(***************************************************************************)
(* Proofs about ServiceToken, for any processes, credentials and moves of  *)
(* the issuer: a process never holds another credential's token, and a     *)
(* move of the endpoints is healed by the retry.                           *)
(***************************************************************************)
EXTENDS ServiceToken, SequenceTheorems, TLAPS

ServiceSpec == ServiceInit /\ [][ServiceNext]_serviceVars

Steps == {"idle", "discovers", "fetches", "keeps", "exchanges", "saves"}
Issued == 0..Len(minted)

ServiceTypes ==
    /\ endpoints \in Nat \ {0} /\ minted \in Seq(Credentials)
    /\ lasting \subseteq Issued \ {0}
    /\ stored.token \in Issued /\ docFile \in Nat
    /\ cred \in [Services -> Credentials] /\ token \in [Services -> Issued]
    /\ memDoc \in [Services -> Nat] /\ doc \in [Services -> Nat]
    /\ step \in [Services -> Steps]
    /\ cached \in [Services -> BOOLEAN] /\ refreshed \in [Services -> BOOLEAN]
    /\ outcome \in [Services -> {"none", "token", "error"}]
    /\ excused \subseteq Services

\* A token is only ever known with the credential it was minted for: in memory, and in the file
\* next to its key.
TokensFit ==
    /\ RightCredential
    /\ stored.token # NoToken => minted[stored.token] = stored.key

\* A process that retries does so from no document, but for one that another process keeps.
RetriesAfresh(p) ==
    step[p] \in {"discovers", "fetches"} /\ refreshed[p] =>
        /\ memDoc[p] = NoDoc
        /\ docFile \in {NoDoc, endpoints} \/ p \in excused

\* A document that can no longer be retried is of where the issuer is, or something else went wrong.
LastTry(p) ==
    /\ step[p] = "fetches" => ~cached[p]
    /\ step[p] = "keeps" => ~cached[p] /\ (doc[p] = endpoints \/ p \in excused)
    /\ step[p] = "exchanges" /\ (~cached[p] \/ refreshed[p]) => doc[p] = endpoints \/ p \in excused

Healing == \A p \in Services : RetriesAfresh(p) /\ LastTry(p)

ServiceInv == ServiceTypes /\ TokensFit /\ Healing /\ MoveHeals

-----------------------------------------------------------------------------

\* A token that is issued is the last one, and is none that was issued before.
LEMMA AppendIsNew ==
  ASSUME NEW S, NEW s \in Seq(S), NEW e \in S
  PROVE  /\ Append(s, e) \in Seq(S) /\ Append(s, e) # s
         /\ Len(Append(s, e)) = Len(s) + 1
         /\ \A i \in 1..Len(s) : Append(s, e)[i] = s[i]
         /\ Append(s, e)[Len(Append(s, e))] = e
<1>1. Append(s, e) \in Seq(S) /\ Len(Append(s, e)) = Len(s) + 1
  BY AppendProperties
<1>2. \A i \in 1..Len(s) : Append(s, e)[i] = s[i]
  BY AppendProperties
<1>3. Append(s, e)[Len(Append(s, e))] = e
  BY <1>1, AppendProperties
<1>4. Append(s, e) # s
  BY <1>1, LenProperties
<1> QED BY <1>1, <1>2, <1>3, <1>4

\* A service starts knowing nothing.
LEMMA Initially == ServiceInit => ServiceInv
  BY DEF ServiceInit, ServiceInv, ServiceTypes, TokensFit, RightCredential, Healing, RetriesAfresh,
     LastTry, MoveHeals, Issued, Steps, NoToken, NoDoc, NothingStored

\* What is in memory or in the file answers only for its own credential.
LEMMA Asking ==
  ASSUME ServiceInv, NEW p \in Services, AskToken(p)
  PROVE  ServiceInv'
<1> USE DEF ServiceInv, AskToken, issuer, files, CallEnds, Goes, Usable, NoToken, NoDoc
<1>1. ServiceTypes'
  BY DEF ServiceTypes, Steps, Issued
<1>2. TokensFit'
  BY DEF ServiceTypes, TokensFit, RightCredential, Issued
<1>3. Healing'
  BY DEF ServiceTypes, Healing, RetriesAfresh, LastTry
<1>4. MoveHeals'
  BY DEF ServiceTypes, MoveHeals
<1> QED BY <1>1, <1>2, <1>3, <1>4

\* Finding a document: one that is known, or the issuer's.
LEMMA Discovering ==
  ASSUME ServiceInv, NEW p \in Services, Discover(p) \/ FetchDoc(p) \/ Keep(p)
  PROVE  ServiceInv'
<1> USE DEF ServiceInv, issuer, files, CallEnds, Goes, NoToken, NoDoc
<1>1. CASE Discover(p)
  <2>1. ServiceTypes' BY <1>1 DEF Discover, ServiceTypes, Steps, Issued
  <2>2. TokensFit' BY <1>1 DEF Discover, TokensFit, RightCredential
  <2>3. Healing' BY <1>1 DEF Discover, ServiceTypes, Healing, RetriesAfresh, LastTry
  <2>4. MoveHeals' BY <1>1 DEF Discover, MoveHeals
  <2> QED BY <2>1, <2>2, <2>3, <2>4
<1>2. CASE FetchDoc(p)
  <2>1. ServiceTypes'
    <3>1. /\ doc' = [doc EXCEPT ![p] = endpoints] \/ doc' = doc
          /\ step' = [step EXCEPT ![p] = "keeps"] \/ step' = [step EXCEPT ![p] = "idle"]
          /\ outcome' = outcome \/ outcome' = [outcome EXCEPT ![p] = "error"]
          /\ excused' = excused \/ excused' = excused \cup {p}
          /\ UNCHANGED <<issuer, files, cred, token, memDoc, cached, refreshed>>
      BY <1>2 DEF FetchDoc
    <3>2. doc' \in [Services -> Nat] /\ excused' \subseteq Services
      BY <3>1 DEF ServiceTypes
    <3>3. step' \in [Services -> Steps] /\ outcome' \in [Services -> {"none", "token", "error"}]
      BY <3>1 DEF ServiceTypes, Steps
    <3> QED
      BY <3>1, <3>2, <3>3 DEF ServiceTypes, Issued
  <2>2. TokensFit' BY <1>2 DEF FetchDoc, TokensFit, RightCredential
  <2>3. Healing' BY <1>2 DEF FetchDoc, ServiceTypes, Healing, RetriesAfresh, LastTry
  <2>4. MoveHeals' BY <1>2 DEF FetchDoc, ServiceTypes, MoveHeals
  <2> QED BY <2>1, <2>2, <2>3, <2>4
<1>3. CASE Keep(p)
  <2>1. ServiceTypes' BY <1>3 DEF Keep, Goof, ServiceTypes, Steps, Issued, Calling
  <2>2. TokensFit' BY <1>3 DEF Keep, TokensFit, RightCredential
  <2>3. Healing' BY <1>3 DEF Keep, ServiceTypes, Healing, RetriesAfresh, LastTry, Calling
  <2>4. MoveHeals' BY <1>3 DEF Keep, ServiceTypes, MoveHeals
  <2> QED BY <2>1, <2>2, <2>3, <2>4
<1> QED BY <1>1, <1>2, <1>3

\* The exchange, with its one retry.
LEMMA Exchanging ==
  ASSUME ServiceInv, NEW p \in Services, Exchange(p) \/ Unreached(p) \/ CannotForget(p)
  PROVE  ServiceInv'
<1> USE DEF ServiceInv, issuer, files, CallEnds, Goes, NoToken, NoDoc, ForgetFile
<1>1. CASE Exchange(p)
  <2>1. ServiceTypes' /\ TokensFit'
    <3>1. CASE minted' = minted
      <4>1. UNCHANGED <<minted, lasting, token>> /\ outcome' = [outcome EXCEPT ![p] = "error"]
        BY <1>1, <3>1, AppendIsNew DEF Exchange, ServiceTypes
      <4> QED BY <1>1, <4>1 DEF Exchange, Goof, ServiceTypes, Steps, Issued, TokensFit, RightCredential
    <3>2. CASE minted' = Append(minted, cred[p])
      <4>1. /\ lasting' = lasting \cup {Len(minted')} /\ token' = [token EXCEPT ![p] = Len(minted')]
            /\ step' = [step EXCEPT ![p] = "saves"] /\ UNCHANGED <<outcome, excused>>
        BY <1>1, <3>2, AppendIsNew DEF Exchange, ServiceTypes
      <4>2. /\ minted' \in Seq(Credentials) /\ Len(minted') = Len(minted) + 1
            /\ \A t \in 1..Len(minted) : minted'[t] = minted[t]
            /\ minted'[Len(minted')] = cred[p]
        BY <3>2, AppendIsNew DEF ServiceTypes
      <4>3. Len(minted) \in Nat /\ Issued \subseteq Issued' /\ Len(minted') \in Issued' \ {0}
        BY <4>2, LenProperties DEF ServiceTypes, Issued
      <4>4. UNCHANGED <<endpoints, stored, docFile, cred, memDoc, doc, cached, refreshed>>
        BY <1>1 DEF Exchange
      <4>5. ServiceTypes'
        BY <4>1, <4>2, <4>3, <4>4 DEF ServiceTypes, Steps
      <4>6. ASSUME NEW q \in Services, token'[q] # NoToken PROVE minted'[token'[q]] = cred'[q]
        <5>1. CASE q = p
          BY <4>1, <4>2, <4>4, <5>1 DEF ServiceTypes
        <5>2. CASE q # p
          <6>1. token'[q] = token[q] /\ token[q] \in 1..Len(minted) /\ minted[token[q]] = cred[q]
            BY <4>1, <4>3, <4>6, <5>2 DEF ServiceTypes, Issued, TokensFit, RightCredential
          <6> QED BY <4>2, <4>4, <6>1
        <5> QED BY <5>1, <5>2
      <4>7. ASSUME stored'.token # NoToken PROVE minted'[stored'.token] = stored'.key
        <5>1. stored.token \in 1..Len(minted) /\ minted[stored.token] = stored.key
          BY <4>3, <4>4, <4>7 DEF ServiceTypes, Issued, TokensFit
        <5> QED BY <4>2, <4>4, <5>1
      <4>8. TokensFit'
        BY <4>6, <4>7 DEF TokensFit, RightCredential
      <4> QED BY <4>5, <4>8
    <3> QED BY <1>1, <3>1, <3>2 DEF Exchange
  <2>3. Healing' BY <1>1 DEF Exchange, ServiceTypes, Healing, RetriesAfresh, LastTry
  <2>4. MoveHeals' BY <1>1 DEF Exchange, ServiceTypes, MoveHeals
  <2> QED BY <2>1, <2>3, <2>4
<1>2. CASE Unreached(p)
  <2>1. ServiceTypes'
    <3>1. excused' \subseteq Services /\ UNCHANGED <<endpoints, minted, lasting, stored, cred, token, doc, cached>>
      BY <1>2 DEF Unreached, Goof, ServiceTypes
    <3>2. CASE cached[p] /\ ~refreshed[p]
      <4>1. /\ memDoc' = [memDoc EXCEPT ![p] = 0] /\ docFile' = 0
            /\ refreshed' = [refreshed EXCEPT ![p] = TRUE]
            /\ step' = [step EXCEPT ![p] = "discovers"] /\ outcome' = outcome
        BY <1>2, <3>2 DEF Unreached
      <4>2. memDoc' \in [Services -> Nat] /\ docFile' \in Nat
        BY <4>1 DEF ServiceTypes
      <4>3. step' \in [Services -> Steps] /\ refreshed' \in [Services -> BOOLEAN]
        BY <4>1 DEF ServiceTypes, Steps
      <4> QED BY <3>1, <4>1, <4>2, <4>3 DEF ServiceTypes, Issued
    <3>3. CASE ~(cached[p] /\ ~refreshed[p])
      BY <1>2, <3>1, <3>3 DEF Unreached, ServiceTypes, Steps, Issued
    <3> QED BY <3>2, <3>3
  <2>2. TokensFit' BY <1>2 DEF Unreached, TokensFit, RightCredential
  <2>3. Healing' BY <1>2 DEF Unreached, ServiceTypes, Healing, RetriesAfresh, LastTry
  <2>4. MoveHeals' BY <1>2 DEF Unreached, ServiceTypes, MoveHeals, Healing, LastTry
  <2> QED BY <2>1, <2>2, <2>3, <2>4
<1>3. CASE CannotForget(p)
  <2>1. ServiceTypes' BY <1>3 DEF CannotForget, Goof, ServiceTypes, Steps, Issued
  <2>2. TokensFit' BY <1>3 DEF CannotForget, TokensFit, RightCredential
  <2>3. Healing' BY <1>3 DEF CannotForget, ServiceTypes, Healing, RetriesAfresh, LastTry
  <2>4. MoveHeals' BY <1>3 DEF CannotForget, ServiceTypes, MoveHeals
  <2> QED BY <2>1, <2>2, <2>3, <2>4
<1> QED BY <1>1, <1>2, <1>3

\* Saving stamps a token with the credential it is held under; a restart forgets it.
LEMMA Ending ==
  ASSUME ServiceInv, NEW p \in Services, Save(p) \/ Restart(p)
  PROVE  ServiceInv'
<1> USE DEF ServiceInv, issuer, files, CallEnds, Goes, NoToken, NoDoc
<1>1. CASE Save(p)
  <2>1. ServiceTypes' BY <1>1 DEF Save, Goof, ServiceTypes, Steps, Issued
  <2>2. TokensFit' BY <1>1 DEF Save, ServiceTypes, TokensFit, RightCredential
  <2>3. Healing' BY <1>1 DEF Save, ServiceTypes, Healing, RetriesAfresh, LastTry
  <2>4. MoveHeals' BY <1>1 DEF Save, ServiceTypes, MoveHeals
  <2> QED BY <2>1, <2>2, <2>3, <2>4
<1>2. CASE Restart(p)
  <2>1. ServiceTypes' BY <1>2 DEF Restart, Goof, ServiceTypes, Steps, Issued
  <2>2. TokensFit' BY <1>2 DEF Restart, ServiceTypes, TokensFit, RightCredential
  <2>3. Healing' BY <1>2 DEF Restart, ServiceTypes, Healing, RetriesAfresh, LastTry
  <2>4. MoveHeals' BY <1>2 DEF Restart, ServiceTypes, MoveHeals
  <2> QED BY <2>1, <2>2, <2>3, <2>4
<1> QED BY <1>1, <1>2

\* Time and the issuer: a move excuses the calls it meets.
LEMMA World ==
  ASSUME ServiceInv, (\E t \in 1..Mints : Expire(t)) \/ DocExpires \/ IssuerMoves
  PROVE  ServiceInv'
<1> USE DEF ServiceInv, issuer, files, call, NoToken, NoDoc
<1>1. CASE \E t \in 1..Mints : Expire(t)
  BY <1>1 DEF Expire, Goof, ServiceTypes, Steps, Issued, TokensFit, RightCredential, Healing,
     RetriesAfresh, LastTry, MoveHeals
<1>2. CASE DocExpires
  BY <1>2 DEF DocExpires, Goof, ServiceTypes, Steps, Issued, TokensFit, RightCredential, Healing,
     RetriesAfresh, LastTry, MoveHeals
<1>3. CASE IssuerMoves
  <2>1. ServiceTypes' BY <1>3 DEF IssuerMoves, ServiceTypes, Steps, Issued, Calling
  <2>2. TokensFit' BY <1>3 DEF IssuerMoves, TokensFit, RightCredential
  <2>3. Healing' BY <1>3 DEF IssuerMoves, ServiceTypes, Healing, RetriesAfresh, LastTry, Calling
  <2>4. MoveHeals' BY <1>3 DEF IssuerMoves, MoveHeals
  <2> QED BY <2>1, <2>2, <2>3, <2>4
<1> QED BY <1>1, <1>2, <1>3

\* The inductive invariant holds in every reachable state.
THEOREM Invariant == ServiceSpec => []ServiceInv
<1>1. ServiceInv /\ [ServiceNext]_serviceVars => ServiceInv'
  <2> SUFFICES ASSUME ServiceInv, [ServiceNext]_serviceVars PROVE ServiceInv'
    OBVIOUS
  <2>1. CASE ServiceNext
    BY <2>1, Asking, Discovering, Exchanging, Ending, World DEF ServiceNext
  <2>2. CASE UNCHANGED serviceVars
    BY <2>2 DEF serviceVars, issuer, files, call, ServiceInv, ServiceTypes, Issued, TokensFit,
       RightCredential, Healing, RetriesAfresh, LastTry, MoveHeals
  <2> QED BY <2>1, <2>2
<1> QED BY Initially, <1>1, PTL DEF ServiceSpec

\* A process never presents a token that was minted for other credentials (service.go:261).
THEOREM OwnToken == ServiceSpec => []RightCredential
  BY Invariant, PTL DEF ServiceInv, TokensFit

\* A call fails over endpoints that had moved only if something else went wrong while it ran
\* (service.go's retry on a fresh document, oidc.go:44).
THEOREM RetryHeals == ServiceSpec => []MoveHeals
  BY Invariant, PTL DEF ServiceInv
=============================================================================
