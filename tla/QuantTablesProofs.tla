-------------------------- MODULE QuantTablesProofs --------------------------
(***************************************************************************)
(* Slices are decoded with the quantizer matrices in force, for any        *)
(* matrices and scales and any succession of headers.                      *)
(***************************************************************************)
EXTENDS QuantTables, TLAPS

(* The bits of copy_matrix are the matrices of the header being collected. *)
LoadInv ==
  /\ pc \in {"sequence", "picture"} =>
       /\ copyMatrix = DOMAIN load
       /\ \A i \in copyMatrix : newMatrix[i] = load[i]
  /\ pc = "sequence" => copyMatrix = Luma
  /\ pc = "picture" /\ expected # {} => copyMatrix = {}

(* A table whose scale is known was computed from the present matrix.      *)
CacheInv ==
  \A i \in Indices :
    matrix[i] # Zero /\ scaled[i] \in Scales =>
      table[i] = [of |-> matrix[i], scale |-> scaled[i]]

(* The copied matrices are those in force, and not the cleared memory once *)
(* there is a sequence.                                                    *)
ForceInv ==
  /\ \A i \in Luma : /\ matrix[i] = inForce[i]
                     /\ matrix[chroma[i]] = inForce[i + 2]
  /\ pc \in {"picture", "slice_start", "slices"} => valid
  /\ valid => \A i \in Luma : matrix[i] # Zero /\ matrix[chroma[i]] # Zero

(* While slices are decoded, the tables they use have the right scale.     *)
ScaleInv == pc = "slices" => \A i \in Used : scaled[i] = qScale

QInv == TypeOK /\ LoadInv /\ CacheInv /\ ForceInv /\ ScaleInv

-----------------------------------------------------------------------------
LEMMA QuantInitial == Init => QInv
  <1> SUFFICES ASSUME Init PROVE QInv
    OBVIOUS
  <1> USE MatrixAssumption, ScaleAssumption DEF Init, Indices, Luma
  <1>1. TypeOK
    <2>1. chroma \in [Luma -> Indices] /\ \A i \in Luma : chroma[i] \in {i, i + 2}
      OBVIOUS
    <2>2. /\ newMatrix \in [Indices -> Matrices]
          /\ scaled \in [Indices -> Scales \cup {NoScale, Unset}]
          /\ table \in [Indices -> [of : Matrices \cup {Zero},
                                    scale : Scales \cup {Unset}]]
      OBVIOUS
    <2>3. DOMAIN load = {}
      BY DEF NoLoad
    <2> QED BY <2>1, <2>2, <2>3 DEF TypeOK, Types
  <1>2. LoadInv /\ CacheInv /\ ScaleInv
    BY DEF LoadInv, CacheInv, ScaleInv
  <1>3. ForceInv
    BY DEF ForceInv
  <1> QED BY <1>1, <1>2, <1>3 DEF QInv

(* finalize_matrix makes the matrices those in force, and no table of an   *)
(* older matrix keeps a known scale.                                       *)
LEMMA Finalized ==
  ASSUME QInv, pc \in {"sequence", "picture"}, FinalizeMatrix
  PROVE  /\ matrix' \in [Indices -> Matrices \cup {Zero}]
         /\ scaled' \in [Indices -> Scales \cup {NoScale, Unset}]
         /\ chroma' \in [Luma -> Indices]
         /\ inForce' \in [Indices -> Matrices \cup {Zero}]
         /\ load' = NoLoad
         /\ \A i \in Luma : /\ chroma'[i] \in {i, i + 2}
                            /\ matrix'[i] = inForce'[i]
                            /\ matrix'[chroma'[i]] = inForce'[i + 2]
         /\ pc = "sequence" \/ valid =>
              \A i \in Luma : /\ matrix'[i] # Zero
                              /\ matrix'[chroma'[i]] # Zero
         /\ CacheInv'
  <1> USE MatrixAssumption, ScaleAssumption
  <1>1. /\ copyMatrix = DOMAIN load /\ copyMatrix \in SUBSET Indices
        /\ newMatrix \in [Indices -> Matrices]
        /\ \A i \in copyMatrix : newMatrix[i] = load[i]
        /\ matrix \in [Indices -> Matrices \cup {Zero}]
    BY DEF QInv, TypeOK, LoadInv
  <1>2. matrix' \in [Indices -> Matrices \cup {Zero}]
    BY <1>1 DEF FinalizeMatrix, Copied, CopiedLuma, Indices, Luma
  <1>3. scaled' \in [Indices -> Scales \cup {NoScale, Unset}]
    BY DEF QInv, TypeOK, FinalizeMatrix, Scaled
  <1>4. /\ chroma' \in [Luma -> Indices]
        /\ \A i \in Luma : chroma'[i] = ChromaTable(i)
        /\ \A i \in Luma : chroma'[i] \in {i, i + 2}
    BY DEF QInv, TypeOK, FinalizeMatrix, ChromaTable, Indices, Luma
  <1>5. inForce' \in [Indices -> Matrices \cup {Zero}]
    BY <1>1 DEF QInv, TypeOK, FinalizeMatrix, Applied, Indices
  <1>6. ASSUME NEW i \in Luma
        PROVE  matrix'[i] = CopiedLuma[i] /\ matrix'[i] = inForce'[i]
    <2>1. matrix'[i] = CopiedLuma[i]
      BY DEF FinalizeMatrix, Copied, Indices, Luma
    <2>2. inForce[i] = matrix[i]
      BY DEF QInv, ForceInv
    <2>3. i - 2 \notin DOMAIN load
      BY <1>1 DEF Indices, Luma
    <2>4. inForce'[i] = IF i \in DOMAIN load THEN load[i] ELSE inForce[i]
      BY <2>3 DEF FinalizeMatrix, Applied, Indices, Luma
    <2> QED BY <1>1, <2>1, <2>2, <2>4 DEF CopiedLuma
  <1>7. ASSUME NEW i \in Luma
        PROVE  matrix'[chroma'[i]] = inForce'[i + 2]
    <2>1. /\ i + 2 \in Indices /\ i + 2 \notin Luma /\ (i + 2) - 2 = i
          /\ i \in Indices
      BY DEF Indices, Luma
    <2>2. inForce'[i + 2] = CASE i + 2 \in DOMAIN load -> load[i + 2]
                              [] i + 2 \notin DOMAIN load /\ i \in DOMAIN load
                                   -> load[i]
                              [] OTHER -> inForce[i + 2]
      BY <2>1 DEF FinalizeMatrix, Applied
    <2>3. matrix'[i + 2] = IF OwnChroma(i) THEN newMatrix[i + 2]
                                           ELSE matrix[i + 2]
      BY <2>1 DEF FinalizeMatrix, Copied
    <2>4. CASE OwnChroma(i)
      <3>1. chroma'[i] = i + 2
        BY <1>4, <2>4 DEF ChromaTable
      <3> QED BY <1>1, <2>2, <2>3, <2>4, <3>1 DEF OwnChroma
    <2>5. CASE ~OwnChroma(i) /\ {i, i + 2} \cap copyMatrix # {}
      <3>1. chroma'[i] = i
        BY <1>4, <2>5 DEF ChromaTable
      <3>2. CASE i + 2 \in copyMatrix
        BY <1>1, <1>6, <2>2, <2>5, <3>1, <3>2 DEF OwnChroma
      <3>3. CASE i + 2 \notin copyMatrix
        <4>1. i \in copyMatrix
          BY <2>5, <3>3
        <4> QED BY <1>1, <1>6, <2>2, <3>1, <3>3, <4>1 DEF CopiedLuma
      <3> QED BY <3>2, <3>3
    <2>6. CASE ~OwnChroma(i) /\ {i, i + 2} \cap copyMatrix = {}
      <3>1. chroma'[i] = chroma[i]
        BY <1>4, <2>6 DEF ChromaTable
      <3>2. inForce'[i + 2] = inForce[i + 2]
        BY <1>1, <2>2, <2>6
      <3>3. matrix'[i] = matrix[i] /\ matrix'[i + 2] = matrix[i + 2]
        BY <1>6, <2>3, <2>6 DEF CopiedLuma
      <3>4. chroma[i] \in {i, i + 2} /\ matrix[chroma[i]] = inForce[i + 2]
        BY DEF QInv, TypeOK, ForceInv
      <3> QED BY <3>1, <3>2, <3>3, <3>4
    <2> QED BY <2>4, <2>5, <2>6
  <1>8. ASSUME pc = "sequence" \/ valid, NEW i \in Luma
        PROVE  matrix'[i] # Zero /\ matrix'[chroma'[i]] # Zero
    <2>1. CASE pc = "sequence"
      <3>1. /\ i \in copyMatrix /\ i + 2 \notin copyMatrix
            /\ newMatrix[i] \in Matrices
        BY <1>1, <2>1 DEF QInv, LoadInv, Luma, Indices
      <3>2. chroma'[i] = i
        BY <1>4, <3>1 DEF ChromaTable, OwnChroma
      <3> QED BY <1>6, <3>1, <3>2 DEF CopiedLuma
    <2>2. CASE valid
      <3>1. /\ matrix[i] # Zero /\ matrix[chroma[i]] # Zero
            /\ chroma[i] \in {i, i + 2}
        BY <2>2 DEF QInv, ForceInv, TypeOK
      <3>2. matrix'[i] # Zero
        BY <1>1, <1>6, <3>1 DEF CopiedLuma
      <3>3. i + 2 \in copyMatrix => newMatrix[i + 2] # Zero
        BY <1>1
      <3>4. matrix'[i + 2] = IF OwnChroma(i) THEN newMatrix[i + 2]
                                             ELSE matrix[i + 2]
        BY DEF FinalizeMatrix, Copied, Luma, Indices
      <3>5. chroma'[i] = ChromaTable(i)
        BY <1>4
      <3> QED
        BY <3>1, <3>2, <3>3, <3>4, <3>5 DEF ChromaTable, OwnChroma
    <2> QED BY <1>8, <2>1, <2>2
  <1>9. CacheInv'
    <2> SUFFICES ASSUME NEW i \in Indices,
                        matrix'[i] # Zero, scaled'[i] \in Scales
                 PROVE  table'[i] = [of |-> matrix'[i], scale |-> scaled'[i]]
      BY DEF CacheInv
    <2>1. scaled'[i] = scaled[i] /\ matrix'[i] = matrix[i]
      BY DEF FinalizeMatrix, Scaled
    <2> QED BY <2>1 DEF QInv, CacheInv, FinalizeMatrix
  <1> QED
    BY <1>2, <1>3, <1>4, <1>5, <1>6, <1>7, <1>8, <1>9 DEF FinalizeMatrix

(* Loading some matrices keeps the types and records what was loaded.      *)
LEMMA Collected ==
  ASSUME TypeOK, NEW l, Collect(l), DOMAIN l \in SUBSET Indices,
         \A i \in DOMAIN l : l[i] \in Matrices
  PROVE  /\ newMatrix' \in [Indices -> Matrices]
         /\ load' = l /\ \A i \in DOMAIN l : newMatrix'[i] = load'[i]
  BY DEF TypeOK, Collect

LEMMA QuantInductive == QInv /\ [Next]_vars => QInv'
  <1> SUFFICES ASSUME QInv, [Next]_vars PROVE QInv'
    OBVIOUS
  <1> USE MatrixAssumption, ScaleAssumption
  <1>0. TypeOK /\ LoadInv /\ CacheInv /\ ForceInv /\ ScaleInv
    BY DEF QInv
  (* Steps that leave the tables alone keep what is known of them.         *)
  <1>a. ASSUME UNCHANGED tables PROVE
          /\ CacheInv'
          /\ /\ pc' \in {"picture", "slice_start", "slices"} => valid'
             /\ valid' => valid
             => ForceInv'
    BY <1>0, <1>a DEF CacheInv, ForceInv, tables
  <1>1. ASSUME NEW l \in Loads(Luma), SequenceHeader(l) PROVE QInv'
    <2> DEFINE m == [i \in Luma |-> IF i \in DOMAIN l THEN l[i] ELSE Default[i]]
    <2>1. /\ DOMAIN m = Luma /\ Luma \subseteq Indices
          /\ \A i \in DOMAIN m : m[i] \in Matrices
      BY <1>1 DEF Loads, Luma, Indices
    <2>2. Collect(m)
      BY <1>1 DEF SequenceHeader
    <2> HIDE DEF m
    <2>3. /\ newMatrix' \in [Indices -> Matrices] /\ load' = m
          /\ \A i \in DOMAIN m : newMatrix'[i] = load'[i]
      BY <1>0, <2>1, <2>2, Collected
    <2>4. TypeOK'
      BY <1>0, <1>1, <2>1, <2>3 DEF TypeOK, SequenceHeader, tables
    <2>5. LoadInv' /\ ScaleInv'
      BY <1>1, <2>1, <2>3 DEF LoadInv, ScaleInv, SequenceHeader
    <2>6. CacheInv' /\ ForceInv'
      BY <1>1, <1>a DEF SequenceHeader
    <2> QED BY <2>4, <2>5, <2>6 DEF QInv
  <1>2. ASSUME NEW type \in Types, PictureHeader(type) PROVE QInv'
    <2>1. TypeOK' /\ LoadInv' /\ ScaleInv'
      BY <1>0, <1>2
      DEF TypeOK, LoadInv, ScaleInv, PictureHeader, tables, NoLoad
    <2>2. CacheInv' /\ ForceInv'
      BY <1>2, <1>a DEF PictureHeader
    <2> QED BY <2>1, <2>2 DEF QInv
  <1>3. ASSUME NEW s \in Scales, CodingExt(s) PROVE QInv'
    <2>1. TypeOK' /\ LoadInv' /\ ScaleInv'
      BY <1>0, <1>3 DEF TypeOK, LoadInv, ScaleInv, CodingExt, tables
    <2>2. CacheInv' /\ ForceInv'
      BY <1>0, <1>3, <1>a DEF CodingExt, ForceInv
    <2> QED BY <2>1, <2>2 DEF QInv
  <1>5. CASE Abandon
    <2>1. TypeOK' /\ LoadInv' /\ ScaleInv'
      BY <1>0, <1>5 DEF TypeOK, LoadInv, ScaleInv, Abandon, tables, NoLoad
    <2>2. CacheInv' /\ ForceInv'
      BY <1>5, <1>a DEF Abandon
    <2> QED BY <2>1, <2>2 DEF QInv
  <1>6. CASE StateInit
    <2>1. TypeOK' /\ LoadInv' /\ ScaleInv'
      BY <1>0, <1>6
      DEF TypeOK, LoadInv, ScaleInv, StateInit, tables, NoLoad, Types
    <2>2. CacheInv' /\ ForceInv'
      BY <1>6, <1>a DEF StateInit
    <2> QED BY <2>1, <2>2 DEF QInv
  <1>7. CASE SequenceFinalize
    <2>1. pc = "sequence" /\ FinalizeMatrix /\ pc' = "seek"
      BY <1>7 DEF SequenceFinalize
    <2>2. TypeOK' /\ CacheInv'
      BY <1>0, <1>7, <2>1, Finalized
      DEF TypeOK, SequenceFinalize, FinalizeMatrix, NoLoad
    <2>3. LoadInv' /\ ScaleInv'
      BY <2>1 DEF LoadInv, ScaleInv
    <2>4. ForceInv'
      BY <2>1, Finalized DEF ForceInv
    <2> QED BY <2>2, <2>3, <2>4 DEF QInv
  <1>8. CASE PictureFinalize
    <2>1. pc = "picture" /\ FinalizeMatrix /\ pc' = "slice_start" /\ valid
          /\ valid' = valid
      BY <1>0, <1>8 DEF PictureFinalize, ForceInv
    <2>2. TypeOK' /\ CacheInv'
      BY <1>0, <1>8, <2>1, Finalized
      DEF TypeOK, PictureFinalize, FinalizeMatrix, NoLoad
    <2>3. LoadInv' /\ ScaleInv'
      BY <2>1 DEF LoadInv, ScaleInv
    <2>4. ForceInv'
      BY <2>1, Finalized DEF ForceInv
    <2> QED BY <2>2, <2>3, <2>4 DEF QInv
  <1>9. CASE SliceStart
    <2> DEFINE stale == {i \in Used : scaled[i] # qScale}
    <2>1. /\ table' = [i \in Indices |->
                         IF i \in stale THEN [of |-> matrix[i], scale |-> qScale]
                                        ELSE table[i]]
          /\ scaled' = [i \in Indices |-> IF i \in stale THEN qScale
                                                         ELSE scaled[i]]
      BY <1>9 DEF SliceStart
    <2>2. Used \subseteq Indices /\ qScale \in Scales
      BY <1>0 DEF TypeOK, Used, Indices, Luma
    <2>3. TypeOK'
      BY <1>0, <1>9, <2>1, <2>2 DEF TypeOK, SliceStart
    <2>4. CacheInv'
      BY <1>0, <1>9, <2>1, <2>2 DEF CacheInv, SliceStart
    <2>5. Used' = Used
      BY <1>9 DEF Used, SliceStart
    <2>6. LoadInv' /\ ForceInv' /\ ScaleInv'
      BY <1>0, <1>9, <2>1, <2>2, <2>5
      DEF LoadInv, ForceInv, ScaleInv, SliceStart
    <2> QED BY <2>3, <2>4, <2>6 DEF QInv
  <1>10. CASE UNCHANGED vars
    BY <1>0, <1>10
    DEF QInv, TypeOK, LoadInv, CacheInv, ForceInv, ScaleInv, Used, vars
  <1>11. ASSUME NEW l \in Loads(Indices), QuantExt(l) PROVE QInv'
    <2>1. DOMAIN l \in SUBSET Indices /\ \A i \in DOMAIN l : l[i] \in Matrices
      BY DEF Loads
    <2>2. /\ newMatrix' \in [Indices -> Matrices] /\ load' = l
          /\ \A i \in DOMAIN l : newMatrix'[i] = load'[i]
      BY <1>0, <1>11, <2>1, Collected DEF QuantExt
    <2>3. TypeOK'
      BY <1>0, <1>11, <2>1, <2>2 DEF TypeOK, QuantExt, tables
    <2>4. LoadInv' /\ ScaleInv'
      BY <1>0, <1>11, <2>1, <2>2 DEF LoadInv, ScaleInv, QuantExt
    <2>5. CacheInv' /\ ForceInv'
      BY <1>0, <1>11, <1>a DEF QuantExt, ForceInv
    <2> QED BY <2>3, <2>4, <2>5 DEF QInv
  <1> QED
    BY <1>1, <1>2, <1>3, <1>5, <1>6, <1>7, <1>8, <1>9, <1>10, <1>11 DEF Next

(* The tables in use are made from the matrices in force.                  *)
LEMMA TablesFollow == QInv => TablesInForce
  <1> SUFFICES ASSUME QInv, pc = "slices",
                      NEW i \in CASE codingType = "D" -> {}
                                  [] codingType = "I" -> {0}
                                  [] OTHER -> Luma
               PROVE  /\ table[i] = [of |-> inForce[i], scale |-> qScale]
                      /\ table[chroma[i]] =
                           [of |-> inForce[i + 2], scale |-> qScale]
    BY DEF TablesInForce
  <1>1. /\ i \in Luma /\ i \in Used /\ chroma[i] \in Used
        /\ i \in Indices /\ chroma[i] \in Indices /\ qScale \in Scales
    BY DEF QInv, TypeOK, Types, Used, Luma, Indices
  <1>2. /\ matrix[i] = inForce[i] /\ matrix[chroma[i]] = inForce[i + 2]
        /\ matrix[i] # Zero /\ matrix[chroma[i]] # Zero
    BY <1>1 DEF QInv, ForceInv
  <1>3. scaled[i] = qScale /\ scaled[chroma[i]] = qScale
    BY <1>1 DEF QInv, ScaleInv
  <1> QED BY <1>1, <1>2, <1>3 DEF QInv, CacheInv

(* Types are kept, for any matrices and scales.                            *)
THEOREM QuantTypeCorrect == Spec => []TypeOK
  <1>1. QInv => TypeOK
    BY DEF QInv
  <1> QED BY <1>1, QuantInitial, QuantInductive, PTL DEF Spec

(* Whatever matrices the headers load, in whatever succession, also when   *)
(* headers are lost: slices are decoded with the matrices in force and the *)
(* scale of their picture.                                                 *)
THEOREM TablesCorrect == Spec => []TablesInForce
  BY QuantInitial, QuantInductive, TablesFollow, PTL DEF Spec
=============================================================================
