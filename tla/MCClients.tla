----------------------------- MODULE MCClients ------------------------------
(***************************************************************************)
(* Small instances, for TLC, of what long-lived clients do: processes that *)
(* share a login, and subscriptions.  They share no state, so a behaviour  *)
(* is of one of the two.                                                   *)
(***************************************************************************)
EXTENDS MCTokenRefresh, MCEventConsumer
CONSTANTS p1, p2

VARIABLE sort
clientsVars == <<sort, tokenVars, vars>>

ClientsInit == TokenInit /\ Init /\ sort \in {"login", "events"}

A(c) == sort = c /\ UNCHANGED sort
LoginStep(p) == A("login") /\ at[p] # "idle" /\ Step(p) /\ UNCHANGED vars
EventsStep(action) == A("events") /\ action /\ UNCHANGED tokenVars

ClientsNext ==
    \/ A("login") /\ TokenNext /\ UNCHANGED vars
    \/ A("events") /\ Next /\ UNCHANGED tokenVars

\* TokenFairSpec and FairSpec.
ClientsSpec ==
    /\ ClientsInit /\ [][ClientsNext]_clientsVars
    /\ \A p \in Procs : WF_clientsVars(LoginStep(p))
    /\ \A e \in 1..Events : WF_clientsVars(EventsStep(AckWaitEnds(e)))
    /\ \A r \in Runs :
        /\ WF_clientsVars(EventsStep(Deliver(r))) /\ WF_clientsVars(EventsStep(Take(r)))
        /\ WF_clientsVars(EventsStep(Accept(r))) /\ WF_clientsVars(EventsStep(Return(r)))
=============================================================================
