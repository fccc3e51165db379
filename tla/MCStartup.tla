----------------------------- MODULE MCStartup ------------------------------
(***************************************************************************)
(* Small instances of Startup for TLC: two daemons of two instances and an *)
(* older one, all for one folder.                                          *)
(***************************************************************************)
EXTENDS Startup
CONSTANTS d1, d2, old, i1, i2, r1, u1

InstanceOfEach == [d \in {d1, d2} |-> IF d = d1 THEN i1 ELSE i2]
OneRoot == [p \in {d1, d2, old} |-> r1]
OneUser == [p \in {d1, d2, old} |-> u1]
=============================================================================
