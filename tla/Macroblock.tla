----------------------------- MODULE Macroblock -----------------------------
(***************************************************************************)
(* What a macroblock reads and writes: the addresses that slice.c computes *)
(* from motion vectors (the motion_ functions and MOTION_ macros) and for  *)
(* the blocks of coefficients (mpeg2_slice), for frames and fields and     *)
(* each chroma format.  Pixels are left out: a routine leaves in calls     *)
(* what it asked of the motion compensation functions, or of the inverse   *)
(* transform.                                                              *)
(*                                                                         *)
(* An address is a number, row * stride + column of a plane of the whole   *)
(* frame: what the source adds to the pointer to the plane.                *)
(***************************************************************************)
EXTENDS Integers, FiniteSets

CONSTANTS
  Width, Height,   \* of the sequence, multiples of 16 and 32
  Formats,         \* chroma_format, within 0 .. 2: 4:2:0, 4:2:2, 4:4:4
  Structures,      \* picture_structure, within {"frame", "top", "bottom"}
  Vectors,         \* the vectors, <<x, y>> in half samples
  Deltas,          \* what dmv_x and dmv_y may be
  FCode            \* f_code

ASSUME MacroblockAssumption ==
  /\ Width \in Nat \ {0} /\ Width % 16 = 0
  /\ Height \in Nat \ {0} /\ Height % 32 = 0
  /\ Formats \subseteq 0 .. 2
  /\ Structures \subseteq {"frame", "top", "bottom"}
  /\ Vectors \subseteq Int \X Int /\ Deltas \subseteq -1 .. 1
  /\ FCode \in 0 .. 8

VARIABLES
  format, structure,   \* of the picture
  second,              \* second_field, and not of a B picture
  offset, vOffset,     \* the position of the macroblock
  pmv,                 \* f_motion.pmv or b_motion.pmv
  calls                \* what the last routine asked for

picture == <<format, structure, second, offset, vOffset>>
vars == <<picture, pmv, calls>>

Parity(s) == IF s = "bottom" THEN 1 ELSE 0
(* n & ~1 if line is 0, n | 1 if it is 1                                   *)
LineOfPair(n, line) == 2 * (n \div 2) + line

ZeroVectors == <<<<0, 0>>, <<0, 0>>>>

Init ==
  /\ format \in Formats /\ structure \in Structures
  /\ second \in IF structure = "frame" THEN {FALSE} ELSE BOOLEAN
  /\ offset \in {n \in 0 .. Width - 16 : n % 16 = 0}
  /\ vOffset \in {n \in 0 .. (IF structure = "frame" THEN Height
                              ELSE Height \div 2) - 16 : n % 16 = 0}
  /\ pmv = ZeroVectors
  /\ calls = {}

-----------------------------------------------------------------------------
(* mpeg2_init_fbuf: strides, the limits of positions, and the start of a   *)
(* field in a plane.  (The chroma offset is half the luma offset in every  *)
(* format.)                                                                *)
Field == structure # "frame"
stride == IF Field THEN 2 * Width ELSE Width
uvStride == stride \div 2
height == IF Field THEN Height \div 2 ELSE Height
limitX == 2 * Width - 32
limitY16Low == 2 * height - 16   \* Mutant: not less the height of a block.

limitY16 == 2 * height - 32
limitY8 == 2 * height - 16
limitY == height - 16
Base(parity, plane) ==
  LET first == parity * Width IN IF plane = 0 THEN first ELSE first \div 2

(* The stride of a plane that the routines of a chroma format use.         *)
Stride(plane) == IF plane = 0 \/ format = 2 THEN stride ELSE uvStride
(* Mutant: chroma rows are half as high in each format.                    *)
sliceUvStrideHalf == 4 * stride

sliceUvStride == IF format = 0 THEN 4 * stride
                 ELSE IF format = 1 THEN 8 * stride ELSE 16 * stride

(* decoder->dest: where the row of macroblocks starts                      *)
Dest(plane) ==
  Base(Parity(structure), plane) +
  (vOffset \div 16) * (IF plane = 0 THEN 16 * stride ELSE sliceUvStride)

-----------------------------------------------------------------------------
HalfDown(n) == n \div 2   \* Mutant: the division does not truncate.

(* The division of C truncates; its shift goes down.                       *)
Half(n) == IF n < 0 THEN -((-n) \div 2) ELSE n \div 2

(* bound_motion_vector: to a range of 32 << f_code                         *)
Bound(v) ==
  LET range == <<32, 64, 128, 256, 512, 1024, 2048, 4096, 8192>>[FCode + 1]
  IN ((v + range \div 2) % range) - range \div 2

(* A position beyond the picture moves to its edge.  pos_x and pos_y are   *)
(* unsigned: a negative one passes the comparison with the limit too.      *)
Clamp(pos, limit) ==
  IF pos < 0 \/ pos > limit THEN (IF pos < 0 THEN 0 ELSE limit) ELSE pos

(* table[xy_half] (dest, ref, stride, height), with table[4 + xy_half] for *)
(* blocks eight samples wide.  The other field of a second field is in the *)
(* frame being decoded (f_motion.ref[1]).                                  *)
(* Mutant: the field of the same parity is taken from the frame.           *)
CallSameParity(op, field, plane, dest, ref, step, width, rows, x, y) ==
  [op |-> op, plane |-> plane, dest |-> dest, ref |-> ref, step |-> step,
   width |-> width, rows |-> rows, halfX |-> x % 2, halfY |-> y % 2,
   current |-> second /\ field = Parity(structure)]

Call(op, field, plane, dest, ref, step, width, rows, x, y) ==
  [op |-> op, plane |-> plane, dest |-> dest, ref |-> ref, step |-> step,
   width |-> width, rows |-> rows, halfX |-> x % 2, halfY |-> y % 2,
   current |-> second /\ field # Parity(structure)]

Chroma == {1, 2}
ChromaWidth == IF format = 2 THEN 16 ELSE 8
ChromaRows(n) == IF format = 0 THEN n \div 2 ELSE n
ChromaX == IF format = 2 THEN offset ELSE offset \div 2

(* Where the chroma block is, in the macros for each format, for a vector  *)
(* of x half samples; row is its row in 4:2:0.                             *)
Chroma420(x, row) == (offset + Half(x)) \div 2 + row * uvStride
Chroma422(luma, x) == (luma + (IF x < 0 THEN x % 2 ELSE 0)) \div 2
Chroma444(luma) == luma
ChromaAddress(luma, x, row) ==
  <<Chroma420(x, row), Chroma422(luma, x), Chroma444(luma)>>[format + 1]

(* MOTION_420, MOTION_422, MOTION_444: size rows from row y on, of the     *)
(* reference ref[field].                                                   *)
Motion(op, field, mx, my, size, y) ==
  LET posX == Clamp(2 * offset + mx, limitX)
      posY == Clamp(2 * vOffset + my + 2 * y,
                    IF size = 16 THEN limitY16 ELSE limitY8)
      x == posX - 2 * offset
      v == posY - 2 * vOffset - 2 * y
      luma == posX \div 2 + (posY \div 2) * stride
      chroma == ChromaAddress(luma, x, (vOffset + Half(v)) \div 2 + y \div 2)
      halfX == IF format = 2 THEN posX ELSE Half(x)
      halfY == IF format = 0 THEN Half(v) ELSE posY
  IN {Call(op, field, 0, Dest(0) + y * stride + offset, Base(field, 0) + luma,
           stride, 16, size, posX, posY)} \cup
     {Call(op, field, p, Dest(p) + ChromaRows(y) * Stride(p) + ChromaX,
           Base(field, p) + chroma, Stride(p), ChromaWidth, ChromaRows(size),
           halfX, halfY) : p \in Chroma}

(* MOTION_FIELD_420, _422, _444: a field of the macroblock from a field of *)
(* the reference frame.  The op of the macro, & ~1 or | 1, is line 0 or 1. *)
MotionField(op, mx, my, destField, line, srcField) ==
  LET posX == Clamp(2 * offset + mx, limitX)
      posY == Clamp(vOffset + my, limitY)
      x == posX - 2 * offset
      v == posY - vOffset
      luma == posX \div 2 + (LineOfPair(posY, line) + srcField) * stride
      chroma == ChromaAddress(luma, x, vOffset \div 2 +
                                       LineOfPair(Half(v), line) + srcField)
      halfX == IF format = 2 THEN posX ELSE Half(x)
      halfY == IF format = 0 THEN Half(v) ELSE posY
  IN {Call(op, 0, 0, Dest(0) + destField * stride + offset, luma,
           2 * stride, 16, 8, posX, posY)} \cup
     {Call(op, 0, p, Dest(p) + destField * Stride(p) + ChromaX, chroma,
           2 * Stride(p), ChromaWidth, ChromaRows(8), halfX, halfY)
        : p \in Chroma}

(* MOTION_DMV_420, _422, _444: both fields, each from the same field       *)
MotionDmv(op, mx, my) ==
  UNION {MotionField(op, mx, my, field, 0, field) : field \in {0, 1}}

(* MOTION_ZERO_420, _422, _444                                             *)
MotionZero(op, field) ==
  LET luma == offset + vOffset * stride
      chroma == ChromaAddress(luma, 0, vOffset \div 2)
  IN {Call(op, field, 0, Dest(0) + offset, Base(field, 0) + luma, stride, 16, 16,
           0, 0)} \cup
     {Call(op, field, p, Dest(p) + ChromaX, Base(field, p) + chroma, Stride(p), 8,
           ChromaRows(16), 0, 0) : p \in Chroma}

-----------------------------------------------------------------------------
(* The motion routines.  A vector of Vectors is what the predictor and the *)
(* parsed delta add up to: any, so that predictors other than zero need    *)
(* not be tried (the bound of Coded).  put or avg: backward prediction is  *)
(* averaged with forward prediction.                                       *)
Ops == {"put", "avg"}
Own == Parity(structure)
Coded == calls = {} /\ pmv = ZeroVectors
Bounded(v) == <<Bound(v[1]), Bound(v[2])>>

(* motion_mp1, motion_fr_frame                                             *)
FrFrame ==
  /\ Coded /\ ~Field
  /\ \E v \in Vectors, op \in Ops :
       LET m == Bounded(v) IN
       pmv' = <<m, m>> /\ calls' = Motion(op, Own, m[1], m[2], 16, 0)
  /\ UNCHANGED picture

(* motion_fr_field: the vertical predictor is kept in frame units, and is  *)
(* not bounded.                                                            *)
FrField ==
  /\ Coded /\ ~Field
  /\ \E v, w \in Vectors, op \in Ops, field1, field2 \in {0, 1} :
       /\ pmv' = <<<<Bound(v[1]), 2 * v[2]>>, <<Bound(w[1]), 2 * w[2]>>>>
       /\ calls' = MotionField(op, Bound(v[1]), v[2], 0, 0, field1) \cup
                   MotionField(op, Bound(w[1]), w[2], 1, 0, field2)
  /\ UNCHANGED picture

(* A dual prime vector scaled to the distance m of the other field         *)
Scale(n, m) == (n * m + (IF n > 0 THEN 1 ELSE 0)) \div 2

(* motion_fr_dmv; m is 1 or 3 by top_field_first                           *)
FrDmv ==
  /\ Coded /\ ~Field
  /\ \E v \in Vectors, dx, dy \in Deltas, m \in {1, 3} :
       LET x == Bound(v[1])
           y == v[2]
       IN /\ pmv' = <<<<x, 2 * y>>, <<x, 2 * y>>>>
          /\ calls' =
               MotionField("put", Scale(x, m) + dx, Scale(y, m) + dy - 1, 0,
                           1, 0) \cup
               MotionField("put", Scale(x, 4 - m) + dx, Scale(y, 4 - m) + dy + 1,
                           1, 0, 0) \cup
               MotionDmv("avg", x, y)
  /\ UNCHANGED picture

(* motion_reuse, for skipped macroblocks                                   *)
Reuse ==
  /\ calls = {}
  /\ \E op \in Ops : calls' = Motion(op, Own, pmv[1][1], pmv[1][2], 16, 0)
  /\ UNCHANGED <<picture, pmv>>

(* motion_zero                                                             *)
Zero ==
  /\ calls = {}
  /\ \E op \in Ops : calls' = MotionZero(op, Own)
  /\ pmv' = ZeroVectors
  /\ UNCHANGED picture

(* motion_fi_field; the stream selects the field, ref2[select]             *)
FiField ==
  /\ Coded /\ Field
  /\ \E v \in Vectors, op \in Ops, field \in {0, 1} :
       LET m == Bounded(v) IN
       pmv' = <<m, m>> /\ calls' = Motion(op, field, m[1], m[2], 16, 0)
  /\ UNCHANGED picture

(* motion_fi_16x8                                                          *)
Fi16x8 ==
  /\ Coded /\ Field
  /\ \E v, w \in Vectors, op \in Ops, field1, field2 \in {0, 1} :
       LET m == Bounded(v)
           n == Bounded(w)
       IN /\ pmv' = <<m, n>>
          /\ calls' = Motion(op, field1, m[1], m[2], 8, 0) \cup
                      Motion(op, field2, n[1], n[2], 8, 8)
  /\ UNCHANGED picture

(* motion_fi_dmv                                                           *)
FiDmv ==
  /\ Coded /\ Field
  /\ \E v \in Vectors, dx, dy \in Deltas :
       LET m == Bounded(v)
           dmvOffset == IF structure = "bottom" THEN 1 ELSE -1
       IN /\ pmv' = <<m, m>>
          /\ calls' = Motion("put", Own, m[1], m[2], 16, 0) \cup
                      Motion("avg", 1 - Own, Scale(m[1], 1) + dx,
                             Scale(m[2], 1) + dy + dmvOffset, 16, 0)
  /\ UNCHANGED picture

-----------------------------------------------------------------------------
(* The blocks of mpeg2_slice: where mpeg2_idct_copy and mpeg2_idct_add put *)
(* them.  With DCT_TYPE_INTERLACED the luma blocks hold a field each, and  *)
(* so do the chroma blocks unless there is one of each.                    *)
Block(op, plane, dest, step) ==
  Call(op, Own, plane, dest, dest, step, 8, 8, 0, 0)

Blocks(op, interlaced) ==
  LET dctOffset == IF interlaced THEN stride ELSE 8 * stride
      dctStride == IF interlaced THEN 2 * stride ELSE stride
  IN {Block(op, 0, Dest(0) + offset + right + down, dctStride)
        : right \in {0, 8}, down \in {0, dctOffset}} \cup
     UNION {CASE format = 0 -> {Block(op, p, Dest(p) + ChromaX, uvStride)}
              [] format = 1 -> {Block(op, p, Dest(p) + ChromaX + down,
                                      dctStride \div 2)
                                  : down \in {0, dctOffset \div 2}}
              [] format = 2 -> {Block(op, p, Dest(p) + ChromaX + right + down,
                                      dctStride)
                                  : right \in {0, 8}, down \in {0, dctOffset}}
              : p \in Chroma}

Intra ==
  /\ Coded
  /\ \E interlaced \in (IF Field THEN {FALSE} ELSE BOOLEAN) :
       calls' = Blocks("copy", interlaced)
  /\ UNCHANGED <<picture, pmv>>

(* coded_block_pattern leaves out blocks; a pattern of all is the most.    *)
Pattern ==
  /\ Coded
  /\ \E interlaced \in (IF Field THEN {FALSE} ELSE BOOLEAN) :
       calls' = Blocks("add", interlaced)
  /\ UNCHANGED <<picture, pmv>>

(* On to the next macroblock, or to the next slice at the end of the row   *)
NextMacroblock ==
  /\ calls # {} /\ calls' = {}
  /\ IF offset + 16 < Width
       THEN offset' = offset + 16 /\ UNCHANGED pmv
       ELSE offset' = 0 /\ pmv' = ZeroVectors
  /\ UNCHANGED <<format, structure, second, vOffset>>

Next ==
  \/ NextMacroblock
  \/ FrFrame \/ FrField \/ FrDmv \/ Reuse \/ Zero
  \/ FiField \/ Fi16x8 \/ FiDmv \/ Intra \/ Pattern

Spec == Init /\ [][Next]_vars

-----------------------------------------------------------------------------
(* The planes of a frame, as mpeg2_header_sequence lays them out.          *)
PlaneWidth(p) == IF p = 0 \/ format = 2 THEN Width ELSE Width \div 2
PlaneRows(p) == IF p # 0 /\ format = 0 THEN Height \div 2 ELSE Height
Row(address, p) == address \div PlaneWidth(p)
Column(address, p) == address % PlaneWidth(p)
Step(c) == c.step \div PlaneWidth(c.plane)

TypeOK ==
  /\ format \in Formats /\ structure \in Structures /\ second \in BOOLEAN
  /\ offset \in 0 .. Width - 16 /\ vOffset \in 0 .. height - 16
  /\ pmv \in (Int \X Int) \X (Int \X Int)
  /\ \A c \in calls : c.dest \in Int /\ c.ref \in Int

(* Whatever vectors a macroblock has, its prediction blocks lie inside the *)
(* reference plane, with the column and the row that half sample positions *)
(* need besides.                                                           *)
ReadsInside ==
  \A c \in calls :
    /\ c.ref >= 0
    /\ Column(c.ref, c.plane) + c.width + c.halfX <= PlaneWidth(c.plane)
    /\ Row(c.ref, c.plane) + (c.rows - 1 + c.halfY) * Step(c)
         < PlaneRows(c.plane)

(* The macroblock, in cells of one row and eight columns of a plane        *)
MacroblockCells(p) ==
  LET rows == IF p # 0 /\ format = 0 THEN 8 ELSE 16
      top == IF p # 0 /\ format = 0 THEN vOffset \div 2 ELSE vOffset
      Line(n) == IF Field THEN 2 * (top + n) + Own ELSE top + n
      left == IF p = 0 \/ format = 2 THEN offset ELSE offset \div 2
      width == IF p = 0 \/ format = 2 THEN 16 ELSE 8
  IN {<<Line(n), (left + w) \div 8>> : n \in 0 .. rows - 1,
                                      w \in {k \in {0, 8} : k < width}}
Cells(c) ==
  {<<Row(c.dest, c.plane) + n * Step(c), (Column(c.dest, c.plane) + w) \div 8>>
     : n \in 0 .. c.rows - 1, w \in {k \in {0, 8} : k < c.width}}

(* Each operation of a macroblock covers its part of each plane, without a *)
(* gap, an overlap or a sample beside it; fields, 16x8 halves and blocks   *)
(* fit together.                                                           *)
WritesTile ==
  \A op \in {c.op : c \in calls}, p \in 0 .. 2 :
    LET mine == {c \in calls : c.op = op /\ c.plane = p} IN
    /\ UNION {Cells(c) : c \in mine} = MacroblockCells(p)
    /\ \A c, d \in mine : c # d => Cells(c) \cap Cells(d) = {}

(* NEWS:47: "added support for 4:2:2 for 4:4:4 chroma formats".  In a      *)
(* frame of 4:4:4, too, predictions cover the macroblock.                  *)
WritesTile444 == format = 2 => WritesTile

(* The displacement of a prediction, in half samples of its lines, and the *)
(* field it is from and for.                                               *)
Displacement(c) ==
  <<2 * (Column(c.ref, c.plane) - Column(c.dest, c.plane)) + c.halfX,
    2 * (Row(c.ref, c.plane) \div Step(c) - Row(c.dest, c.plane) \div Step(c))
      + c.halfY,
    Row(c.ref, c.plane) % Step(c), Row(c.dest, c.plane) % Step(c)>>

(* The chroma planes are predicted with the vector of the luma plane, cut  *)
(* to half by truncation in the directions in which they have half the     *)
(* samples, and from the same field of the same frame.                     *)
ChromaFollowsLuma ==
  \A c \in {a \in calls : a.op \in Ops /\ a.plane # 0} :
    \E l \in {a \in calls : a.op = c.op /\ a.plane = 0} :
      LET d == Displacement(l) IN
      /\ Displacement(c) =
           <<IF format = 2 THEN d[1] ELSE Half(d[1]),
             IF format = 0 THEN Half(d[2]) ELSE d[2], d[3], d[4]>>
      /\ c.rows = ChromaRows(l.rows) /\ c.current = l.current

(* The field that is being decoded is never the one predicted from: where  *)
(* a second field is predicted from its own frame, it reads the first.     *)
ReadsOtherField ==
  \A c, d \in calls :
    c.current /\ d.plane = c.plane =>
      Row(c.ref, c.plane) % 2 # Row(d.dest, d.plane) % 2 /\ c.step = d.step
=============================================================================
