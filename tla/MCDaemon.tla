------------------------------ MODULE MCDaemon ------------------------------
(***************************************************************************)
(* Small instances of the daemon's parts around a session for TLC: how it  *)
(* comes to own its state, the life of its sessions, and the desktop       *)
(* notices.  They share no state, so a behaviour is of one part.           *)
(***************************************************************************)
EXTENDS MCSession, Alerts, Startup
CONSTANTS f2, d1, d2, old, r1, r2, u1, u2

VARIABLE part
daemonVars == <<part, vars, alertsVars, startupVars>>

\* Two daemons of one instance, for other folders and users; an older one in the first folder.
OneInstance == [d \in {d1, d2} |-> root]
RootOfEach == [p \in {d1, d2, old} |-> IF p = d2 THEN r2 ELSE r1]
UserOfEach == [p \in {d1, d2, old} |-> IF p = d2 THEN u2 ELSE u1]

DaemonInit ==
    /\ Init /\ AlertsInit /\ StartupInit
    /\ part \in {"session", "alerts", "startup"}
    /\ key = "docs"   \* a module that is not there when it starts went before, in an act
    /\ part # "session" => bus = "up"

Only(p) == part = p /\ UNCHANGED part
SessionStep == Only("session") /\ Step /\ UNCHANGED <<alertsVars, startupVars>>
SessionFlush == Only("session") /\ Flush /\ UNCHANGED <<alertsVars, startupVars>>
SessionFire(f) == Only("session") /\ Fire(f) /\ UNCHANGED <<alertsVars, startupVars>>

DaemonNext ==
    \/ Only("session") /\ Next /\ UNCHANGED <<alertsVars, startupVars>>
    \/ Only("alerts") /\ AlertsNext /\ UNCHANGED <<vars, startupVars>>
    \/ Only("startup") /\ StartupNext /\ UNCHANGED <<vars, alertsVars>>

DaemonSpec ==
    /\ DaemonInit /\ [][DaemonNext]_daemonVars
    /\ WF_daemonVars(SessionStep) /\ SF_daemonVars(SessionFlush) /\ \A f \in Files : WF_daemonVars(SessionFire(f))
=============================================================================
