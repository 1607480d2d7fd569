------------------------------ MODULE MCParser ------------------------------
(* Instances of Parser for TLC: two sequence geometries, a chunk buffer    *)
(* that holds one user data chunk and a short header.                      *)
EXTENDS Parser, TLC

Symmetry == Permutations(Geometries)
SkipOrAll == {{}, SliceCodes}
EveryRegion == SUBSET SliceCodes
SomeRegions == {{}, {"slice2"}, SliceCodes}
ResetAtBuffer == {"BUFFER"}
ResetAnywhere == Results
ResetButInvalidEnd == Results \ {"INVALID_END"}
=============================================================================
