--------------------------- MODULE MCEventConsumer ---------------------------
(* Small instances of EventConsumer for TLC.                                 *)
EXTENDS EventConsumer

CONSTANTS c1, c2

\* The first two runs share a connection.
ConnOfRun == [r \in Runs |-> IF r <= 2 THEN c1 ELSE c2]
=============================================================================
