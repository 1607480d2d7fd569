----------------------------- MODULE QuantTables -----------------------------
(***************************************************************************)
(* The quantizer matrices of header.c: how the matrices of sequence headers *)
(* and quant matrix extensions reach the tables that slices are decoded    *)
(* with.  Three optimizations have to agree: matrices are only copied when *)
(* they differ (copy_matrix), tables are only recomputed when matrix or    *)
(* scale changed (scaled), and chroma shares the luma table when it can    *)
(* (chroma_quantizer).                                                     *)
(*                                                                         *)
(* Matrices are numbered as in the code: 0 luma intra, 1 luma non-intra,   *)
(* 2 chroma intra, 3 chroma non-intra.  Headers come in any order that     *)
(* mpeg2_parse_header lets through (module Parser).                        *)
(***************************************************************************)
EXTENDS Integers

CONSTANTS
  Matrices,     \* the matrices of the stream, the default ones included
  Default,      \* the matrices of sequences that load none
  Loaded,       \* the indices for which headers may load matrices
  Zero,         \* the matrix that mpeg2_init clears the memory to
  Scales        \* the values of q_scale_type: 0 linear, 16 non linear

NoScale == -1
Unset == -2                   \* contents of memory that was never written

(* The value zero is forbidden in a quantizer matrix.  A matrix of zeros   *)
(* would not be noticed as new, with scaled still unset.                   *)
ASSUME MatrixAssumption ==
  /\ Zero \notin Matrices
  /\ Default \in [0 .. 1 -> Matrices] /\ Loaded \subseteq 0 .. 3
ASSUME ScaleAssumption ==
  0 \in Scales /\ NoScale \notin Scales /\ Unset \notin Scales

Indices == 0 .. 3
Luma == 0 .. 1
Types == {"I", "P", "D"}      \* B pictures use the tables P pictures use

VARIABLES
  pc,           \* "seek", "sequence", "picture": the header being collected,
                \* "slice_start", "slices"
  valid,        \* sequence.width # (unsigned)-1
  expected,     \* the extensions that ext_state lets through
  newType,      \* the coding type in new_picture
  codingType,   \* decoder.coding_type
  qScale,       \* decoder.q_scale_type
  newMatrix,    \* new_quantizer_matrix
  copyMatrix,   \* the bits of copy_matrix
  matrix,       \* quantizer_matrix
  scaled,       \* scaled: the scale each table was computed with
  table,        \* quantizer_prescale: the matrix and scale in each table
  chroma,       \* the table each chroma_quantizer points to
  load,         \* history: the matrices of the header being collected
  inForce       \* history: the matrices that apply by the headers so far

tables == <<matrix, scaled, table, chroma, inForce>>
vars == <<pc, valid, expected, newType, codingType, qScale, newMatrix,
          copyMatrix, matrix, scaled, table, chroma, load, inForce>>

NoLoad == [i \in {} |-> Zero]

(* mpeg2_init clears only quantizer_matrix.                                *)
Init ==
  /\ pc = "seek" /\ valid = FALSE /\ expected = {}
  /\ newType = "I" /\ codingType = "I" /\ qScale \in Scales
  /\ newMatrix \in {[i \in Indices |-> m] : m \in Matrices}
  /\ copyMatrix = {}
  /\ matrix = [i \in Indices |-> Zero]
  /\ scaled \in {[i \in Indices |-> s] : s \in Scales \cup {Unset}}
  /\ table = [i \in Indices |-> [of |-> Zero, scale |-> Unset]]
  /\ chroma \in {[i \in Luma |-> i], [i \in Luma |-> i + 2]}
  /\ load = NoLoad /\ inForce = [i \in Indices |-> Zero]

-----------------------------------------------------------------------------
(* Headers.                                                                *)

Loads(indices) == UNION {[d -> Matrices] : d \in SUBSET (indices \cap Loaded)}

Collect(l) ==
  /\ newMatrix' = [i \in Indices |-> IF i \in DOMAIN l THEN l[i]
                                                       ELSE newMatrix[i]]
  /\ load' = l

(* mpeg2_header_sequence: both luma matrices, loaded or the default ones.  *)
SequenceHeader(l) ==
  /\ pc \in {"seek", "slices"}
  /\ Collect([i \in Luma |-> IF i \in DOMAIN l THEN l[i] ELSE Default[i]])
  /\ copyMatrix' = Luma
  /\ pc' = "sequence" /\ expected' = {}
  /\ UNCHANGED <<valid, newType, codingType, qScale, tables>>

(* mpeg2_header_picture                                                    *)
PictureHeader(type) ==
  /\ pc \in {"seek", "slices"} /\ valid
  /\ newType' = type
  /\ qScale' = 0 /\ copyMatrix' = {} /\ load' = NoLoad
  /\ pc' = "picture" /\ expected' = {"coding"}
  /\ UNCHANGED <<valid, codingType, newMatrix, tables>>

(* picture_coding_ext                                                      *)
CodingExt(s) ==
  /\ pc = "picture" /\ "coding" \in expected
  /\ qScale' = s
  /\ expected' = {"quant"}
  /\ UNCHANGED <<pc, valid, newType, codingType, newMatrix, copyMatrix, load,
                 tables>>

(* quant_matrix_ext                                                        *)
QuantExt(l) ==
  /\ pc = "picture" /\ "quant" \in expected
  /\ Collect(l)
  /\ copyMatrix' = copyMatrix \cup DOMAIN l
  /\ expected' = {}
  /\ UNCHANGED <<pc, valid, newType, codingType, qScale, tables>>

(* A header that is rejected, too long or followed by an illegal code, and *)
(* a reset that keeps the sequence.                                        *)
Abandon ==
  /\ pc # "seek"
  /\ pc' = "seek" /\ load' = NoLoad
  /\ UNCHANGED <<valid, expected, newType, codingType, qScale, newMatrix,
                 copyMatrix, tables>>

(* mpeg2_header_state_init: a full reset, or the end of the sequence.      *)
StateInit ==
  /\ pc' = "seek" /\ valid' = FALSE /\ codingType' = "I" /\ load' = NoLoad
  /\ UNCHANGED <<expected, newType, qScale, newMatrix, copyMatrix, tables>>

-----------------------------------------------------------------------------
(* finalize_matrix, with copy_matrix.                                      *)

CopiedLuma == [i \in Luma |-> IF i \in copyMatrix THEN newMatrix[i]
                                                  ELSE matrix[i]]

(* Chroma gets a table of its own when its new matrix differs from luma's. *)
OwnChroma(i) == i + 2 \in copyMatrix /\ newMatrix[i + 2] # CopiedLuma[i]

ChromaOffByOne(i) == IF OwnChroma(i) THEN i + 1 ELSE i   \* mutant
ChromaTable(i) ==
  CASE OwnChroma(i) -> i + 2
    [] ~OwnChroma(i) /\ {i, i + 2} \cap copyMatrix # {} -> i
    [] OTHER -> chroma[i]

Copied == [i \in Indices |->
             CASE i \in Luma -> CopiedLuma[i]
               [] i \notin Luma /\ OwnChroma(i - 2) -> newMatrix[i]
               [] OTHER -> matrix[i]]

StillScaled(i) == scaled[i]                              \* mutant
Scaled(i) == IF Copied[i] # matrix[i] THEN NoScale ELSE scaled[i]

(* What the headers mean: matrices stay in force until others are loaded,  *)
(* and a luma matrix is also loaded for chroma unless one for chroma is.   *)
Applied == [i \in Indices |->
              CASE i \in DOMAIN load -> load[i]
                [] i \notin DOMAIN load /\ i - 2 \in DOMAIN load -> load[i - 2]
                [] OTHER -> inForce[i]]

FinalizeMatrix ==
  /\ matrix' = Copied
  /\ scaled' = [i \in Indices |-> Scaled(i)]
  /\ chroma' = [i \in Luma |-> ChromaTable(i)]
  /\ inForce' = Applied /\ load' = NoLoad
  /\ UNCHANGED <<table, newMatrix, copyMatrix>>

(* mpeg2_header_sequence_finalize                                          *)
SequenceFinalize ==
  /\ pc = "sequence"
  /\ FinalizeMatrix
  /\ pc' = "seek" /\ valid' = TRUE
  /\ UNCHANGED <<expected, newType, codingType, qScale>>

(* mpeg2_header_picture_finalize                                           *)
PictureFinalize ==
  /\ pc = "picture"
  /\ FinalizeMatrix
  /\ codingType' = newType
  /\ pc' = "slice_start"
  /\ UNCHANGED <<valid, expected, newType, qScale>>

-----------------------------------------------------------------------------
(* mpeg2_header_slice_start, with prescale.                                *)

Used == CASE codingType = "D" -> {}
          [] codingType = "I" -> {0, chroma[0]}
          [] OTHER -> {0, 1, chroma[0], chroma[1]}

SliceStart ==
  /\ pc = "slice_start"
  /\ LET stale == {i \in Used : scaled[i] # qScale}
     IN /\ table' = [i \in Indices |->
                       IF i \in stale THEN [of |-> matrix[i], scale |-> qScale]
                                      ELSE table[i]]
        /\ scaled' = [i \in Indices |-> IF i \in stale THEN qScale
                                                       ELSE scaled[i]]
  /\ pc' = "slices"
  /\ UNCHANGED <<valid, expected, newType, codingType, qScale, newMatrix,
                 copyMatrix, matrix, chroma, load, inForce>>

Next ==
  \/ \E l \in Loads(Luma) : SequenceHeader(l)
  \/ \E type \in Types : PictureHeader(type)
  \/ \E s \in Scales : CodingExt(s)
  \/ \E l \in Loads(Indices) : QuantExt(l)
  \/ Abandon \/ StateInit
  \/ SequenceFinalize \/ PictureFinalize \/ SliceStart

Spec == Init /\ [][Next]_vars
-----------------------------------------------------------------------------
(* Every variable ranges over its type; a chroma pointer only ever points  *)
(* to luma's table or to its own.                                          *)
TypeOK ==
  /\ pc \in {"seek", "sequence", "picture", "slice_start", "slices"}
  /\ valid \in BOOLEAN /\ expected \in SUBSET {"coding", "quant"}
  /\ newType \in Types /\ codingType \in Types /\ qScale \in Scales
  /\ newMatrix \in [Indices -> Matrices]
  /\ copyMatrix \in SUBSET Indices
  /\ matrix \in [Indices -> Matrices \cup {Zero}]
  /\ scaled \in [Indices -> Scales \cup {NoScale, Unset}]
  /\ table \in [Indices -> [of : Matrices \cup {Zero},
                            scale : Scales \cup {Unset}]]
  /\ chroma \in [Luma -> Indices] /\ \A i \in Luma : chroma[i] \in {i, i + 2}
  /\ DOMAIN load \in SUBSET Indices
  /\ \A i \in DOMAIN load : load[i] \in Matrices
  /\ inForce \in [Indices -> Matrices \cup {Zero}]

(* Slices are decoded with tables made from the matrices in force and the  *)
(* scale of the picture: for intra blocks, and outside I pictures also for *)
(* other blocks, luma and chroma.  D pictures use no table.                *)
TablesInForce ==
  pc = "slices" =>
    \A i \in CASE codingType = "D" -> {}
               [] codingType = "I" -> {0}
               [] OTHER -> Luma :
      /\ table[i] = [of |-> inForce[i], scale |-> qScale]
      /\ table[chroma[i]] = [of |-> inForce[i + 2], scale |-> qScale]
=============================================================================
