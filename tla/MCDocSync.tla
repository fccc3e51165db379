------------------------------ MODULE MCDocSync ------------------------------
(* Small instances of DocSync for TLC.                                       *)
EXTENDS DocSync

CONSTANTS pa, pb

OnePath == {pa}
TwoPaths == {pa, pb}
HomeOne == [d \in 1..NumDocs |-> pa]
HomeTwo == [d \in 1..NumDocs |-> IF d = 1 THEN pa ELSE pb]
=============================================================================
