------------------------------- MODULE Mirror -------------------------------
(***************************************************************************)
(* What the sync daemon promises about a folder, without saying how: the   *)
(* person may do anything to a file; the daemon touches a file only when   *)
(* what the file holds is safe somewhere else, and puts in it only what    *)
(* the documentation module has, or the file it moved from another path.   *)
(***************************************************************************)
EXTENDS Naturals

CONSTANTS
    Paths,     \* the paths of the folder
    Contents,  \* what a file can hold
    Nothing    \* what an absent file holds

VARIABLES
    file,  \* per path, what the file holds
    safe,  \* what can be had elsewhere: the module's versions and .sin-acceso
    hand   \* how often the person has touched the folder

Init ==
    /\ file = [p \in Paths |-> Nothing]
    /\ safe \subseteq Contents
    /\ hand = 0

\* Somebody saves a version in the module.
Publishes ==
    /\ safe \subseteq safe' /\ safe' \subseteq Contents
    /\ UNCHANGED <<file, hand>>

\* The person saves, replaces or removes a file.
PersonTouches(p) ==
    /\ file' = [file EXCEPT ![p] = file'[p]]
    /\ file'[p] \in Contents \cup {Nothing}
    /\ hand' = hand + 1
    /\ safe' = safe

\* The daemon writes a version over a file, or removes it, or moves it aside.
DaemonReplaces(p) ==
    /\ safe \subseteq safe' /\ safe' \subseteq Contents
    /\ file[p] \in safe' \cup {Nothing}
    /\ file' = [file EXCEPT ![p] = file'[p]]
    /\ file'[p] \in safe \cup {Nothing}
    /\ hand' = hand

\* The daemon follows a move made in the module, never over another file.
DaemonMoves(p, q) ==
    /\ file[q] = Nothing
    /\ file' = [file EXCEPT ![p] = Nothing, ![q] = file[p]]
    /\ UNCHANGED <<safe, hand>>

Next ==
    \/ Publishes
    \/ \E p \in Paths : PersonTouches(p) \/ DaemonReplaces(p)
    \/ \E p, q \in Paths : DaemonMoves(p, q)

Spec == Init /\ [][Next]_<<file, safe, hand>>
=============================================================================
