---------------------------- MODULE MCQuantTables ----------------------------
(* Instances of QuantTables for TLC: the two default matrices, which a     *)
(* stream may also load in each other's place.                             *)
EXTENDS QuantTables

TwoMatrices == {"intra", "flat"}
Defaults == [i \in 0 .. 1 |-> IF i = 0 THEN "intra" ELSE "flat"]
NonIntra == {1, 3}
TwoScales == {0, 16}
=============================================================================
