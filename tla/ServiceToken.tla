---------------------------- MODULE ServiceToken ----------------------------
(***************************************************************************)
(* Service users (auth/service.go) and the discovery cache (auth/oidc.go). *)
(* Processes of one instance, started with whatever key and scopes, share  *)
(* a file with the last token minted and one with the issuer's endpoints.  *)
(* The endpoints may move; a process finds out when its exchange fails.    *)
(***************************************************************************)
EXTENDS Naturals, FiniteSets, Sequences

CONSTANTS
    Services,     \* the processes
    Credentials,  \* issuer, key and scopes, as StoreKey digests them
    Moves,        \* bound: how often the issuer's endpoints move
    Mints,        \* bound: tokens issued
    Mischiefs     \* bound: what fails, expires or is killed

ASSUME ServiceAssumption == Moves \in Nat /\ Mints \in Nat /\ Mischiefs \in Nat

VARIABLES
    endpoints,          \* where the issuer is: how often it has moved, and one
    minted,             \* per token issued: for which credential
    lasting,            \* the tokens that have not expired
    stored, docFile,    \* the two files
    cred, token, memDoc,            \* per process: its credential, s.tokens, discoveries.seen
    step, doc, cached, refreshed,   \* per process: where its call is, the document it uses
    outcome,                        \* per process: how its last call ended
    excused,                        \* history: calls during which something else went wrong
    mischief

files == <<stored, docFile>>
issuer == <<endpoints, minted, lasting>>
call == <<step, doc, cached, refreshed, outcome>>
serviceVars == <<issuer, files, cred, token, memDoc, call, excused, mischief>>

NoToken == 0
NoDoc == 0
NothingStored == [token |-> NoToken, key |-> NoToken]

Goes(p, s) == step' = [step EXCEPT ![p] = s]
CallEnds(p, o) == Goes(p, "idle") /\ outcome' = [outcome EXCEPT ![p] = o]
Goof == mischief < Mischiefs /\ mischief' = mischief + 1
Calling == {p \in Services : step[p] # "idle"}

-----------------------------------------------------------------------------
(* ServiceUser.Token: memory, then the store, then a mint.                 *)

AnyKey(p) == stored.token \in lasting
\* loadStored: a token of another credential is ignored.
Usable(p) == stored.key = cred[p] /\ stored.token \in lasting

AskToken(p) ==
    /\ step[p] = "idle"
    /\ refreshed' = [refreshed EXCEPT ![p] = FALSE] /\ excused' = excused \ {p}
    /\ \/ token[p] \in lasting /\ CallEnds(p, "token") /\ UNCHANGED token
       \/ token[p] \notin lasting /\ Usable(p)
          /\ token' = [token EXCEPT ![p] = stored.token] /\ CallEnds(p, "token")
       \/ token[p] \notin lasting /\ ~Usable(p)
          /\ Goes(p, "discovers") /\ outcome' = [outcome EXCEPT ![p] = "none"]
          /\ UNCHANGED token
    /\ UNCHANGED <<issuer, files, cred, memDoc, doc, cached, mischief>>

\* discover: the process's memory, then the file, then the issuer.
Discover(p) ==
    LET known == IF memDoc[p] # NoDoc THEN memDoc[p] ELSE docFile IN
    /\ step[p] = "discovers"
    /\ memDoc' = [memDoc EXCEPT ![p] = known]
    /\ doc' = [doc EXCEPT ![p] = known] /\ cached' = [cached EXCEPT ![p] = known # NoDoc]
    /\ Goes(p, IF known # NoDoc THEN "exchanges" ELSE "fetches")
    /\ UNCHANGED <<issuer, files, cred, token, refreshed, outcome, excused, mischief>>

FetchDoc(p) ==
    /\ step[p] = "fetches"
    /\ \/ doc' = [doc EXCEPT ![p] = endpoints] /\ Goes(p, "keeps")
          /\ UNCHANGED <<outcome, excused, mischief>>
       \/ Goof /\ excused' = excused \cup {p} /\ CallEnds(p, "error") /\ UNCHANGED doc
    /\ UNCHANGED <<issuer, files, cred, token, memDoc, cached, refreshed>>

\* What was fetched is kept in memory and, if it can be written, in the file.
Keep(p) ==
    /\ step[p] = "keeps"
    /\ memDoc' = [memDoc EXCEPT ![p] = doc[p]]
    /\ \/ docFile' = doc[p] /\ UNCHANGED mischief
          /\ excused' = IF doc[p] # endpoints THEN excused \cup Calling ELSE excused
       \/ Goof /\ UNCHANGED <<docFile, excused>>
    /\ Goes(p, "exchanges")
    /\ UNCHANGED <<issuer, stored, cred, token, doc, cached, refreshed, outcome>>

\* The issuer answers with a token, or an OAuth error.
Exchange(p) ==
    /\ step[p] = "exchanges" /\ doc[p] = endpoints
    /\ \/ /\ Len(minted) < Mints
          /\ minted' = Append(minted, cred[p]) /\ lasting' = lasting \cup {Len(minted')}
          /\ token' = [token EXCEPT ![p] = Len(minted')]
          /\ Goes(p, "saves") /\ UNCHANGED <<outcome, excused, mischief>>
       \/ /\ Goof /\ excused' = excused \cup {p}
          /\ CallEnds(p, "error") /\ UNCHANGED <<minted, lasting, token>>
    /\ UNCHANGED <<endpoints, files, cred, memDoc, doc, cached, refreshed>>

ForgetMemory(p) == UNCHANGED docFile
\* ForgetDiscovery: os.Remove's error is ignored.
ForgetFile(p) == docFile' = NoDoc

\* No answer, or none in OAuth's words: with a cached document the grant is tried once more.
Unreached(p) ==
    LET again == cached[p] /\ ~refreshed[p] IN
    /\ step[p] = "exchanges"
    /\ IF doc[p] = endpoints THEN Goof /\ excused' = excused \cup {p}
                             ELSE UNCHANGED <<excused, mischief>>
    /\ IF again
         THEN /\ memDoc' = [memDoc EXCEPT ![p] = NoDoc] /\ ForgetFile(p)
              /\ refreshed' = [refreshed EXCEPT ![p] = TRUE]
              /\ Goes(p, "discovers") /\ UNCHANGED outcome
         ELSE CallEnds(p, "error") /\ UNCHANGED <<memDoc, docFile, refreshed>>
    /\ UNCHANGED <<issuer, stored, cred, token, doc, cached>>

\* Or the file cannot be removed.
CannotForget(p) ==
    /\ step[p] = "exchanges" /\ doc[p] # endpoints /\ cached[p] /\ ~refreshed[p] /\ Goof
    /\ memDoc' = [memDoc EXCEPT ![p] = NoDoc] /\ excused' = excused \cup {p}
    /\ refreshed' = [refreshed EXCEPT ![p] = TRUE] /\ Goes(p, "discovers")
    /\ UNCHANGED <<issuer, files, cred, token, doc, cached, outcome>>

\* saveStored: stamped with its credential, if it can be written.
Save(p) ==
    /\ step[p] = "saves"
    /\ \/ stored' = [token |-> token[p], key |-> cred[p]] /\ UNCHANGED mischief
       \/ Goof /\ UNCHANGED stored
    /\ CallEnds(p, "token")
    /\ UNCHANGED <<issuer, docFile, cred, token, memDoc, doc, cached, refreshed, excused>>

-----------------------------------------------------------------------------
(* Time, the issuer, and the process's end.                                *)

Expire(t) ==
    /\ t \in lasting /\ Goof
    /\ lasting' = lasting \ {t}
    /\ UNCHANGED <<endpoints, minted, files, cred, token, memDoc, call, excused>>

\* DiscoveryTTL, of the file alone.
DocExpires ==
    /\ docFile # NoDoc /\ Goof
    /\ docFile' = NoDoc
    /\ UNCHANGED <<issuer, stored, cred, token, memDoc, call, excused>>

IssuerMoves ==
    /\ endpoints <= Moves
    /\ endpoints' = endpoints + 1 /\ excused' = excused \cup Calling
    /\ UNCHANGED <<minted, lasting, files, cred, token, memDoc, call, mischief>>

\* The process ends, or is killed, and another is started, with any credential.
Restart(p) ==
    /\ Goof
    /\ \E c \in Credentials : cred' = [cred EXCEPT ![p] = c]
    /\ token' = [token EXCEPT ![p] = NoToken] /\ memDoc' = [memDoc EXCEPT ![p] = NoDoc]
    /\ CallEnds(p, "none")
    /\ UNCHANGED <<issuer, files, doc, cached, refreshed, excused>>

ServiceInit ==
    /\ endpoints = 1 /\ minted = <<>> /\ lasting = {} /\ stored = NothingStored /\ docFile = NoDoc
    /\ cred \in [Services -> Credentials]
    /\ token = [p \in Services |-> NoToken] /\ memDoc = [p \in Services |-> NoDoc]
    /\ step = [p \in Services |-> "idle"] /\ doc = [p \in Services |-> NoDoc]
    /\ cached = [p \in Services |-> FALSE] /\ refreshed = [p \in Services |-> FALSE]
    /\ outcome = [p \in Services |-> "none"] /\ excused = {} /\ mischief = 0

ServiceNext ==
    \/ \E p \in Services :
        \/ AskToken(p) \/ Discover(p) \/ FetchDoc(p) \/ Keep(p) \/ Exchange(p) \/ Unreached(p)
        \/ CannotForget(p) \/ Save(p) \/ Restart(p)
    \/ \E t \in 1..Mints : Expire(t)
    \/ DocExpires \/ IssuerMoves

-----------------------------------------------------------------------------
(* Properties.                                                             *)

\* "The one thing it must never do is present a token minted for other credentials"
\* (service.go:261), however the processes share the file.
RightCredential == \A p \in Services : token[p] # NoToken => minted[token[p]] = cred[p]

\* "A stale entry is corrected by ForgetDiscovery and a retry" (oidc.go:44): a call fails over
\* endpoints that moved before it began only if, while it ran, something else failed, they moved
\* again, or another process kept a document it had fetched before the move.
MoveHeals == \A p \in Services : outcome[p] = "error" => p \in excused
=============================================================================
