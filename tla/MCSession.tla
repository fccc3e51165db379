----------------------------- MODULE MCSession ------------------------------
(* Small instances of Session for TLC.                                       *)
EXTENDS Session
CONSTANTS f1, sub, root

\* The file is in a folder of the synced one.
HomeOfFile == [f \in {f1} |-> sub]
=============================================================================
