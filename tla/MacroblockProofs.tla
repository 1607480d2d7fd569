-------------------------- MODULE MacroblockProofs --------------------------
(***************************************************************************)
(* Proofs about Macroblock, for pictures of any size and any vectors.      *)
(***************************************************************************)
EXTENDS Macroblock, TLAPS

PictureInv ==
  /\ format \in 0 .. 1 /\ format \in Formats
  /\ structure \in Structures /\ second \in BOOLEAN
  /\ second => Field
  /\ offset \in 0 .. Width - 16 /\ offset % 16 = 0
  /\ vOffset \in 0 .. height - 16 /\ vOffset % 16 = 0
  /\ pmv \in (Int \X Int) \X (Int \X Int)

-----------------------------------------------------------------------------
(* Rows and columns of an address.                                         *)
LEMMA RowsApart ==
  ASSUME NEW w \in Nat \ {0}, NEW a \in Int, NEW b \in Int, a > b
  PROVE  a * w >= b * w + w
  <1>1. (a - b - 1) * w >= 0
    OBVIOUS
  <1>2. (a - b - 1) * w = a * w - b * w - w
    OBVIOUS
  <1> QED BY <1>1, <1>2

LEMMA DivideRow ==
  ASSUME NEW w \in Nat \ {0}, NEW row \in Int, NEW column \in 0 .. w - 1
  PROVE  (row * w + column) \div w = row /\ (row * w + column) % w = column
  <1> DEFINE a == row * w + column
             d == a \div w
             m == a % w
  <1>1. d \in Int /\ m \in 0 .. w - 1 /\ a = d * w + m
    BY SMT
  <1>2. a \in Int /\ row * w \in Int /\ d * w \in Int
    BY <1>1
  <1>3. ~(d > row)
    BY <1>1, <1>2, RowsApart
  <1>4. ~(row > d)
    BY <1>1, <1>2, RowsApart
  <1> QED BY <1>1, <1>2, <1>3, <1>4

LEMMA Sizes ==
  ASSUME PictureInv
  PROVE  /\ Width \in Nat \ {0} /\ Width % 16 = 0 /\ Width >= 16
         /\ Height \in Nat \ {0} /\ Height % 32 = 0
         /\ Width \div 2 \in Nat \ {0} /\ Width = 2 * (Width \div 2)
         /\ \A p \in 0 .. 2 : PlaneWidth(p) \in Nat \ {0}
         /\ offset \in Nat /\ vOffset \in Nat
  BY MacroblockAssumption DEF PictureInv, PlaneWidth

LEMMA RowColumn ==
  ASSUME PictureInv, NEW p \in 0 .. 2, NEW row \in Int,
         NEW column \in 0 .. PlaneWidth(p) - 1
  PROVE  /\ Row(row * PlaneWidth(p) + column, p) = row
         /\ Column(row * PlaneWidth(p) + column, p) = column
  BY Sizes, DivideRow DEF Row, Column

LEMMA Steps ==
  ASSUME PictureInv, NEW p \in 0 .. 2, NEW k \in Nat
  PROVE  (k * PlaneWidth(p)) \div PlaneWidth(p) = k
  <1>1. PlaneWidth(p) \in Nat \ {0}
    BY Sizes
  <1>2. (k * PlaneWidth(p) + 0) \div PlaneWidth(p) = k
    BY <1>1, DivideRow
  <1> QED BY <1>1, <1>2

-----------------------------------------------------------------------------
(* What the routines ask for, said with rows and columns: rows first on of *)
(* the lines line, line + k, ... of each plane, from the lines from, from  *)
(* + k, ... displaced by <<x, v>> half samples of the luma plane.          *)
Lines == IF Field THEN 2 ELSE 1
ColumnsOf(p, n) == IF p = 0 THEN n ELSE n \div 2
RowsOf(p, n) == IF p # 0 /\ format = 0 THEN n \div 2 ELSE n
AlongX(p, x) == IF p = 0 THEN x ELSE Half(x)
AlongY(p, v) == IF p # 0 /\ format = 0 THEN Half(v) ELSE v

Prediction(op, field, p, first, size, k, line, from, x, v) ==
  Call(op, field, p,
       (k * RowsOf(p, first) + line) * PlaneWidth(p) + ColumnsOf(p, offset),
       (k * (RowsOf(p, first) + AlongY(p, v) \div 2) + from) * PlaneWidth(p)
         + (ColumnsOf(p, offset) + AlongX(p, x) \div 2),
       k * PlaneWidth(p), ColumnsOf(p, 16), RowsOf(p, size),
       AlongX(p, x), AlongY(p, v))
Predictions(op, field, first, size, k, line, from, x, v) ==
  {Prediction(op, field, p, first, size, k, line, from, x, v) : p \in 0 .. 2}

(* The displacements that stay inside the reference.                       *)
Fits(first, size, k, x, v) ==
  /\ x \in Int /\ -2 * offset <= x /\ x <= 2 * (Width - 16 - offset)
  /\ v \in Int /\ -2 * first <= v /\ v <= 2 * ((Height \div k) - size - first)

LEMMA DestRow ==
  ASSUME PictureInv, NEW p \in 0 .. 2
  PROVE  Dest(p) = (Lines * RowsOf(p, vOffset) + Own) * PlaneWidth(p)
  <1> DEFINE w == PlaneWidth(p)
             r == vOffset \div 16
  <1>1. r \in Nat /\ vOffset = 16 * r /\ w \in Nat /\ Own \in {0, 1}
    BY Sizes DEF PictureInv, Own, Parity
  <1>2. CASE p = 0
    <2>1. Dest(p) = Own * w + r * (16 * (Lines * w))
      BY <1>2, <1>1, Sizes DEF Dest, Base, Own, stride, Lines, PlaneWidth
    <2> QED BY <2>1, <1>1, <1>2 DEF RowsOf, Lines
  <1>3. CASE p # 0
    <2>1. Width = 2 * w /\ w = Width \div 2
      BY <1>3, Sizes DEF PlaneWidth, PictureInv
    <2>2. Base(Own, p) = Own * w
      BY <1>1, <1>3, <2>1, Sizes DEF Base
    <2>3. sliceUvStride = (IF format = 0 THEN 8 ELSE 16) * (Lines * w)
      BY <2>1, <1>1 DEF sliceUvStride, stride, Lines, PictureInv
    <2>4. Dest(p) = Own * w + r * ((IF format = 0 THEN 8 ELSE 16) * (Lines * w))
      BY <2>2, <2>3, <1>3 DEF Dest, Own
    <2>5. RowsOf(p, vOffset) = (IF format = 0 THEN 8 ELSE 16) * r
      BY <1>1, <1>3 DEF RowsOf
    <2> QED BY <2>4, <2>5, <1>1 DEF Lines
  <1> QED BY <1>2, <1>3

LEMMA Distribute ==
  ASSUME NEW k \in Int, NEW a \in Int, NEW b \in Int, NEW l \in Int, NEW w \in Int
  PROVE  (k * a + l) * w + b * (k * w) = (k * (a + b) + l) * w
  OBVIOUS

LEMMA SumRows ==
  ASSUME NEW a \in Int, NEW b \in Int, NEW w \in Int
  PROVE  a * w + b * w = (a + b) * w
  OBVIOUS

LEMMA Clamped ==
  ASSUME NEW pos \in Int, NEW limit \in Nat
  PROVE  Clamp(pos, limit) \in 0 .. limit
  BY DEF Clamp

LEMMA HalfProperty ==
  ASSUME NEW n \in Int
  PROVE  /\ Half(n) \in Int
         /\ Half(n) = n \div 2 + (IF n < 0 THEN n % 2 ELSE 0)
  BY DEF Half

LEMMA Strides ==
  ASSUME PictureInv, NEW p \in 0 .. 2
  PROVE  /\ stride = Lines * Width /\ Stride(p) = Lines * PlaneWidth(p)
         /\ PlaneWidth(p) = IF p = 0 THEN Width ELSE Width \div 2
         /\ \A f \in {0, 1} : Base(f, p) = f * PlaneWidth(p)
         /\ Lines \in {1, 2} /\ Own \in {0, 1} /\ Own < Lines
         /\ Height \div Lines = height
  BY Sizes DEF PictureInv, stride, uvStride, Stride, PlaneWidth, Lines, Own,
               Parity, Base, height, Field

LEMMA ChromaColumns ==
  ASSUME offset \in Nat, offset % 16 = 0,
         NEW x \in Int, NEW row \in Int, NEW w \in Nat
  PROVE  /\ (offset + Half(x)) \div 2 = offset \div 2 + Half(x) \div 2
         /\ Chroma422(offset + x \div 2 + row * (2 * w), x) =
              offset \div 2 + Half(x) \div 2 + row * w
  <1> DEFINE adj == IF x < 0 THEN x % 2 ELSE 0
             t == row * w
  <1>1. Half(x) \in Int /\ Half(x) = x \div 2 + adj
    BY HalfProperty
  <1>2. adj \in Int /\ t \in Int /\ x \div 2 \in Int /\ row * (2 * w) = 2 * t
    OBVIOUS
  <1> HIDE DEF adj, t
  <1>3. Chroma422(offset + x \div 2 + row * (2 * w), x) =
          (offset + x \div 2 + 2 * t + adj) \div 2
    BY <1>2 DEF Chroma422, adj
  <1>4. offset + x \div 2 + 2 * t + adj = offset + Half(x) + 2 * t
    BY <1>1, <1>2
  <1>5. (offset + Half(x) + 2 * t) \div 2 = offset \div 2 + Half(x) \div 2 + t
    BY <1>1, <1>2
  <1>6. (offset + Half(x)) \div 2 = offset \div 2 + Half(x) \div 2
    BY <1>1
  <1> QED BY <1>3, <1>4, <1>5, <1>6 DEF t

(* The blocks of a plane, in each format, are those of one prediction.     *)
MotionFits(op, field, mx, my, size, y) ==
  \E x, v \in Int :
    /\ Fits(vOffset + y, size, Lines, x, v)
    /\ Motion(op, field, mx, my, size, y) =
         Predictions(op, field, vOffset + y, size, Lines, Own, field, x, v)

LEMMA MotionPredicts ==
  ASSUME PictureInv, NEW op, NEW field \in {0, 1}, field < Lines,
         NEW mx \in Int, NEW my \in Int,
         NEW size \in {8, 16}, NEW y \in {0, 8}, size + y <= 16
  PROVE  MotionFits(op, field, mx, my, size, y)
  <1> DEFINE posX == Clamp(2 * offset + mx, limitX)
             posY == Clamp(2 * vOffset + my + 2 * y,
                           IF size = 16 THEN limitY16 ELSE limitY8)
             x == posX - 2 * offset
             v == posY - 2 * vOffset - 2 * y
             luma == posX \div 2 + (posY \div 2) * stride
             chroma == ChromaAddress(luma, x, (vOffset + Half(v)) \div 2 + y \div 2)
             r == posY \div 2
             c == posX \div 2
  <1>1. /\ offset \in Nat /\ offset % 16 = 0
        /\ vOffset \in Nat /\ vOffset % 16 = 0 /\ vOffset + 16 <= height
        /\ height \in Nat
    BY Sizes DEF PictureInv, height
  <1>2. posX \in 0 .. 2 * Width - 32
    <2>1. limitX = 2 * Width - 32 /\ limitX \in Nat /\ 2 * offset + mx \in Int
      BY Sizes, <1>1 DEF limitX
    <2> QED BY <2>1, Clamped
  <1>3. posY \in 0 .. 2 * height - 2 * size
    <2> DEFINE limit == IF size = 16 THEN limitY16 ELSE limitY8
    <2>1. limit = 2 * height - 2 * size /\ limit \in Nat
      BY <1>1 DEF limitY16, limitY8
    <2>2. 2 * vOffset + my + 2 * y \in Int
      BY <1>1
    <2> HIDE DEF limit
    <2>3. Clamp(2 * vOffset + my + 2 * y, limit) \in 0 .. limit
      BY <2>1, <2>2, Clamped
    <2> QED BY <2>1, <2>3 DEF limit
  <1> HIDE DEF posX, posY
  <1>4. Fits(vOffset + y, size, Lines, x, v)
    <2>1. x \in Int /\ -2 * offset <= x /\ x <= 2 * (Width - 16 - offset)
      BY <1>1, <1>2, Sizes
    <2>2. /\ v \in Int /\ -2 * (vOffset + y) <= v
          /\ v <= 2 * (height - size - (vOffset + y))
      BY <1>1, <1>3
    <2>3. Height \div Lines = height
      BY Strides
    <2> HIDE DEF x, v
    <2> QED BY <2>1, <2>2, <2>3 DEF Fits
  <1>5. r \in Nat /\ c \in Nat /\ x \in Int /\ v \in Int
    BY <1>1, <1>2, <1>3
  <1>6. /\ Lines \in {1, 2} /\ Own \in {0, 1} /\ stride = Lines * Width
        /\ Width \in Nat /\ Width = 2 * (Width \div 2)
    BY Strides, Sizes
  <1>7. Call(op, field, 0, Dest(0) + y * stride + offset, Base(field, 0) + luma,
             stride, 16, size, posX, posY)
          = Prediction(op, field, 0, vOffset + y, size, Lines, Own, field, x, v)
    <2>1. Dest(0) + y * stride + offset =
            (Lines * (vOffset + y) + Own) * Width + offset
      <3>1. Dest(0) = (Lines * vOffset + Own) * Width
        BY DestRow, Strides DEF RowsOf
      <3>2. y * stride = y * (Lines * Width)
        BY <1>6
      <3>3. (Lines * vOffset + Own) * Width + y * (Lines * Width) =
              (Lines * (vOffset + y) + Own) * Width
        BY <1>1, <1>6, Distribute
      <3> QED BY <3>1, <3>2, <3>3
    <2>2. Base(field, 0) + luma =
            (Lines * (vOffset + y + v \div 2) + field) * Width
              + (offset + x \div 2)
      <3>1. r = vOffset + y + v \div 2 /\ c = offset + x \div 2
        BY <1>1, <1>2, <1>3
      <3>2. Base(field, 0) = field * Width
        BY Strides
      <3>3. field * Width + (c + r * (Lines * Width)) =
              (Lines * r + field) * Width + c
        BY <1>5, <1>6
      <3> HIDE DEF r, c
      <3>4. luma = c + r * (Lines * Width)
        BY <1>6 DEF r, c
      <3> QED BY <3>1, <3>2, <3>3, <3>4
    <2>3. posX % 2 = x % 2 /\ posY % 2 = v % 2
      BY <1>1, <1>2, <1>3
    <2> HIDE DEF luma, x, v
    <2> QED BY <2>1, <2>2, <2>3, <1>6, Strides
            DEF Prediction, Call, ColumnsOf, RowsOf, AlongX, AlongY
  <1>8. ASSUME NEW p \in Chroma
        PROVE  Call(op, field, p, Dest(p) + ChromaRows(y) * Stride(p) + ChromaX,
                    Base(field, p) + chroma, Stride(p), ChromaWidth,
                    ChromaRows(size), IF format = 2 THEN posX ELSE Half(x),
                    IF format = 0 THEN Half(v) ELSE posY)
                 = Prediction(op, field, p, vOffset + y, size, Lines, Own, field,
                              x, v)
    <2> DEFINE w == PlaneWidth(p)
               first == RowsOf(p, vOffset + y)
               row == first + AlongY(p, v) \div 2
    <2>1. /\ p \in 1 .. 2 /\ p # 0 /\ format \in 0 .. 1
          /\ w = Width \div 2 /\ w \in Nat
          /\ Stride(p) = Lines * w /\ uvStride = Lines * w
          /\ Base(field, p) = field * w
      <3>1. p \in 1 .. 2 /\ p # 0 /\ p \in 0 .. 2 /\ format \in 0 .. 1
        BY DEF Chroma, PictureInv
      <3>2. w = Width \div 2 /\ Stride(p) = Lines * w /\ Base(field, p) = field * w
        BY <3>1, Strides
      <3>3. uvStride = Lines * (Width \div 2) /\ Width \div 2 \in Nat
        BY <1>6, Sizes DEF uvStride
      <3> QED BY <3>1, <3>2, <3>3
    <2>2. /\ first = RowsOf(p, vOffset) + ChromaRows(y)
          /\ RowsOf(p, vOffset) \in Nat /\ ChromaRows(y) \in Nat
      BY <1>1, <2>1 DEF RowsOf, ChromaRows
    <2>3. Dest(p) + ChromaRows(y) * Stride(p) + ChromaX =
            (Lines * first + Own) * w + offset \div 2
      <3>1. Dest(p) = (Lines * RowsOf(p, vOffset) + Own) * w
        BY <2>1, DestRow
      <3>2. ChromaX = offset \div 2
        BY <2>1 DEF ChromaX
      <3> HIDE DEF w, first
      <3> QED BY <3>1, <3>2, <2>1, <2>2, <1>1, <1>6
    <2>4. chroma = offset \div 2 + Half(x) \div 2 + row * (Lines * w)
      <3>1. Half(x) \in Int /\ Half(v) \in Int
        BY <1>5, HalfProperty
      <3>2. CASE format = 0
        <4>1. chroma = (offset + Half(x)) \div 2
                       + ((vOffset + Half(v)) \div 2 + y \div 2) * uvStride
          BY <3>2 DEF ChromaAddress, Chroma420
        <4>2. (offset + Half(x)) \div 2 = offset \div 2 + Half(x) \div 2
          BY <1>1, <1>5, <2>1, ChromaColumns
        <4>3. (vOffset + Half(v)) \div 2 + y \div 2 = row
          BY <1>1, <3>1, <3>2, <2>1 DEF RowsOf, AlongY
        <4> HIDE DEF chroma, row, w
        <4> QED BY <4>1, <4>2, <4>3, <2>1
      <3>3. CASE format = 1
        <4>1. chroma = Chroma422(luma, x)
          BY <3>3 DEF ChromaAddress
        <4>2. r = row
          BY <1>1, <1>3, <1>5, <1>6, <2>1, <3>3 DEF RowsOf, AlongY
        <4>3. luma = offset + x \div 2 + r * (2 * (Lines * w))
          <5>1. c = offset + x \div 2
            BY <1>1, <1>2
          <5>2. stride = 2 * (Lines * w)
            BY <1>6, <2>1
          <5> QED BY <5>1, <5>2
        <4>4. r \in Int /\ Lines * w \in Nat /\ x \in Int
          BY <1>5, <1>6, <2>1
        <4> HIDE DEF chroma, luma, r, x, row
        <4> QED BY <4>1, <4>2, <4>3, <4>4, <1>1, ChromaColumns
      <3> QED BY <3>2, <3>3, <2>1
    <2>5. row \in Int /\ Half(x) \in Int
      BY <1>1, <1>5, HalfProperty, <2>1 DEF RowsOf, AlongY
    <2>6. Base(field, p) + chroma =
            (Lines * row + field) * w + (offset \div 2 + Half(x) \div 2)
      <3> HIDE DEF chroma, row, w
      <3> QED BY <2>1, <2>4, <2>5, <1>1, <1>6
    <2>7. format # 0 => posY % 2 = v % 2
      BY <1>1, <1>3
    <2>8. /\ ChromaWidth = ColumnsOf(p, 16) /\ ChromaRows(size) = RowsOf(p, size)
          /\ ColumnsOf(p, offset) = offset \div 2 /\ AlongX(p, x) = Half(x)
          /\ AlongY(p, v) = IF format = 0 THEN Half(v) ELSE v
      BY <2>1 DEF ChromaWidth, ColumnsOf, ChromaRows, RowsOf, AlongX, AlongY
    <2> HIDE DEF chroma, x, v
    <2> QED BY <2>1, <2>3, <2>6, <2>7, <2>8 DEF Prediction, Call
  <1>9. 0 .. 2 = {0} \cup Chroma
    BY DEF Chroma
  <1>10. Motion(op, field, mx, my, size, y) =
           Predictions(op, field, vOffset + y, size, Lines, Own, field, x, v)
    <2>1. Motion(op, field, mx, my, size, y) =
            {Prediction(op, field, 0, vOffset + y, size, Lines, Own, field, x, v)}
            \cup {Prediction(op, field, p, vOffset + y, size, Lines, Own, field,
                             x, v) : p \in Chroma}
      BY <1>7, <1>8 DEF Motion, posX, posY
    <2> QED BY <2>1, <1>9 DEF Predictions
  <1> QED BY <1>4, <1>5, <1>10 DEF MotionFits

(* The motion routines for fields of a frame.  They start two lines apart, *)
(* so that the macroblock is vOffset \div 2 such pairs down.               *)
LEMMA FieldPredicts ==
  ASSUME PictureInv, ~Field, NEW op, NEW mx \in Int, NEW my \in Int,
         NEW destField \in {0, 1}, NEW line \in {0, 1}, NEW srcField \in {0, 1},
         line + srcField <= 1
  PROVE  \E x, v \in Int :
           /\ Fits(vOffset \div 2, 8, 2, x, v)
           /\ MotionField(op, mx, my, destField, line, srcField) =
                Predictions(op, 0, vOffset \div 2, 8, 2, destField,
                            line + srcField, x, v)
  <1> DEFINE posX == Clamp(2 * offset + mx, limitX)
             posY == Clamp(vOffset + my, limitY)
             x == posX - 2 * offset
             v == posY - vOffset
             luma == posX \div 2 + (LineOfPair(posY, line) + srcField) * stride
             chroma == ChromaAddress(luma, x, vOffset \div 2 +
                                     LineOfPair(Half(v), line) + srcField)
             r == LineOfPair(posY, line) + srcField
             c == posX \div 2
             from == line + srcField
  <1>1. /\ offset \in Nat /\ offset % 16 = 0
        /\ vOffset \in Nat /\ vOffset % 16 = 0 /\ vOffset + 16 <= height
        /\ height = Height /\ Height \in Nat /\ Height % 32 = 0
    BY Sizes DEF PictureInv, height
  <1>2. posX \in 0 .. 2 * Width - 32
    <2>1. limitX = 2 * Width - 32 /\ limitX \in Nat /\ 2 * offset + mx \in Int
      BY Sizes, <1>1 DEF limitX
    <2> QED BY <2>1, Clamped
  <1>3. posY \in 0 .. Height - 16
    <2>1. limitY = Height - 16 /\ limitY \in Nat /\ vOffset + my \in Int
      BY <1>1 DEF limitY
    <2> QED BY <2>1, Clamped
  <1> HIDE DEF posX, posY
  <1>4. Fits(vOffset \div 2, 8, 2, x, v)
    <2>1. x \in Int /\ -2 * offset <= x /\ x <= 2 * (Width - 16 - offset)
      BY <1>1, <1>2, Sizes
    <2>2. /\ v \in Int /\ -2 * (vOffset \div 2) <= v
          /\ v <= 2 * (Height \div 2 - 8 - vOffset \div 2)
      BY <1>1, <1>3
    <2> HIDE DEF x, v
    <2> QED BY <2>1, <2>2 DEF Fits
  <1>5. r \in Nat /\ c \in Nat /\ x \in Int /\ v \in Int /\ from \in {0, 1}
    BY <1>1, <1>2, <1>3 DEF LineOfPair
  <1>6. /\ Lines = 1 /\ Own = 0 /\ stride = Width
        /\ Width \in Nat /\ Width = 2 * (Width \div 2)
    BY Sizes DEF Lines, stride, Own, Parity, Field
  <1>7. Call(op, 0, 0, Dest(0) + destField * stride + offset, luma,
             2 * stride, 16, 8, posX, posY)
          = Prediction(op, 0, 0, vOffset \div 2, 8, 2, destField, from, x, v)
    <2>1. Dest(0) + destField * stride + offset =
            (2 * (vOffset \div 2) + destField) * Width + offset
      <3>1. Dest(0) = vOffset * Width
        <4>1. Dest(0) = (1 * vOffset + 0) * Width
          BY DestRow, Strides, <1>6 DEF RowsOf
        <4> QED BY <4>1, <1>1
      <3>2. vOffset = 2 * (vOffset \div 2)
        BY <1>1
      <3>3. vOffset * Width + destField * Width = (vOffset + destField) * Width
        BY <1>1, <1>6
      <3> QED BY <3>1, <3>2, <3>3, <1>6
    <2>2. luma = (2 * (vOffset \div 2 + v \div 2) + from) * Width
                   + (offset + x \div 2)
      <3>1. r = 2 * (vOffset \div 2 + v \div 2) + from
        BY <1>1, <1>3 DEF LineOfPair
      <3>2. c = offset + x \div 2
        BY <1>1, <1>2
      <3>3. luma = c + r * Width
        BY <1>6
      <3>4. r * Width \in Int
        BY <1>5, <1>6
      <3> HIDE DEF r, c, luma, from
      <3> QED BY <3>1, <3>2, <3>3, <3>4, <1>5
    <2>3. posX % 2 = x % 2 /\ posY % 2 = v % 2
      BY <1>1, <1>2, <1>3
    <2>4. 2 * stride = 2 * Width
      BY <1>6
    <2> HIDE DEF luma, x, v, from
    <2> QED BY <2>1, <2>2, <2>3, <2>4, Strides
            DEF Prediction, Call, ColumnsOf, RowsOf, AlongX, AlongY
  <1>8. ASSUME NEW p \in Chroma
        PROVE  Call(op, 0, p, Dest(p) + destField * Stride(p) + ChromaX, chroma,
                    2 * Stride(p), ChromaWidth, ChromaRows(8),
                    IF format = 2 THEN posX ELSE Half(x),
                    IF format = 0 THEN Half(v) ELSE posY)
                 = Prediction(op, 0, p, vOffset \div 2, 8, 2, destField, from,
                              x, v)
    <2> DEFINE w == PlaneWidth(p)
               first == RowsOf(p, vOffset \div 2)
               row == 2 * (first + AlongY(p, v) \div 2) + from
    <2>1. /\ p \in 1 .. 2 /\ p # 0 /\ format \in 0 .. 1
          /\ w = Width \div 2 /\ w \in Nat /\ Stride(p) = w /\ uvStride = w
      <3>1. p \in 1 .. 2 /\ p # 0 /\ p \in 0 .. 2 /\ format \in 0 .. 1
        BY DEF Chroma, PictureInv
      <3>2. w = Width \div 2 /\ Stride(p) = 1 * w
        BY <3>1, Strides, <1>6
      <3>3. uvStride = Width \div 2 /\ Width \div 2 \in Nat
        BY <1>6, Sizes DEF uvStride
      <3> QED BY <3>1, <3>2, <3>3
    <2>2. RowsOf(p, vOffset) = 2 * first /\ first \in Nat
      BY <1>1, <2>1 DEF RowsOf
    <2>3. Dest(p) + destField * Stride(p) + ChromaX =
            (2 * first + destField) * w + offset \div 2
      <3>1. Dest(p) = (1 * RowsOf(p, vOffset) + 0) * w
        BY <2>1, DestRow, <1>6
      <3>2. ChromaX = offset \div 2
        BY <2>1 DEF ChromaX
      <3> HIDE DEF w, first
      <3>3. (2 * first) * w + destField * w = (2 * first + destField) * w
        BY <2>1, <2>2
      <3>4. 1 * RowsOf(p, vOffset) + 0 = 2 * first
        BY <2>2
      <3> QED BY <3>1, <3>2, <3>3, <3>4, <2>1
    <2>4. chroma = offset \div 2 + Half(x) \div 2 + row * w
      <3>1. Half(x) \in Int /\ Half(v) \in Int
        BY <1>5, HalfProperty
      <3>2. CASE format = 0
        <4>1. chroma = (offset + Half(x)) \div 2
                       + (vOffset \div 2 + LineOfPair(Half(v), line) + srcField)
                         * uvStride
          BY <3>2 DEF ChromaAddress, Chroma420
        <4>2. (offset + Half(x)) \div 2 = offset \div 2 + Half(x) \div 2
          BY <1>1, <1>5, <2>1, ChromaColumns
        <4>3. vOffset \div 2 + LineOfPair(Half(v), line) + srcField = row
          BY <1>1, <3>1, <3>2, <2>1 DEF RowsOf, AlongY, LineOfPair
        <4> HIDE DEF chroma, row, w
        <4> QED BY <4>1, <4>2, <4>3, <2>1
      <3>3. CASE format = 1
        <4>1. chroma = Chroma422(luma, x)
          BY <3>3 DEF ChromaAddress
        <4>2. r = row
          BY <1>1, <1>3, <2>1, <3>3 DEF RowsOf, AlongY, LineOfPair
        <4>3. luma = offset + x \div 2 + r * (2 * w)
          <5>1. c = offset + x \div 2
            BY <1>1, <1>2
          <5>2. stride = 2 * w
            BY <1>6, <2>1
          <5> QED BY <5>1, <5>2
        <4>4. r \in Int /\ w \in Nat /\ x \in Int
          BY <1>5, <1>6, <2>1
        <4> HIDE DEF chroma, luma, r, x, row
        <4> QED BY <4>1, <4>2, <4>3, <4>4, <1>1, ChromaColumns
      <3> QED BY <3>2, <3>3, <2>1
    <2>5. row \in Int /\ Half(x) \in Int
      BY <1>1, <1>5, HalfProperty, <2>1 DEF RowsOf, AlongY
    <2>6. chroma = row * w + (offset \div 2 + Half(x) \div 2)
      <3>1. row * w \in Int
        BY <2>1, <2>5
      <3> HIDE DEF chroma, row, w
      <3> QED BY <2>4, <3>1, <2>5, <1>1
    <2>7. format # 0 => posY % 2 = v % 2
      BY <1>1, <1>3
    <2>8. /\ ChromaWidth = ColumnsOf(p, 16) /\ ChromaRows(8) = RowsOf(p, 8)
          /\ ColumnsOf(p, offset) = offset \div 2 /\ AlongX(p, x) = Half(x)
          /\ AlongY(p, v) = IF format = 0 THEN Half(v) ELSE v
      BY <2>1 DEF ChromaWidth, ColumnsOf, ChromaRows, RowsOf, AlongX, AlongY
    <2> HIDE DEF chroma, x, v, from
    <2> QED BY <2>1, <2>3, <2>6, <2>7, <2>8 DEF Prediction, Call
  <1>9. 0 .. 2 = {0} \cup Chroma
    BY DEF Chroma
  <1>10. MotionField(op, mx, my, destField, line, srcField) =
           Predictions(op, 0, vOffset \div 2, 8, 2, destField, from, x, v)
    <2>1. MotionField(op, mx, my, destField, line, srcField) =
            {Prediction(op, 0, 0, vOffset \div 2, 8, 2, destField, from, x, v)}
            \cup {Prediction(op, 0, p, vOffset \div 2, 8, 2, destField, from,
                             x, v) : p \in Chroma}
      BY <1>7, <1>8 DEF MotionField, posX, posY
    <2> QED BY <2>1, <1>9 DEF Predictions
  <1> QED BY <1>4, <1>5, <1>10

LEMMA ZeroPredicts ==
  ASSUME PictureInv, NEW op, NEW field \in {0, 1}, field < Lines
  PROVE  /\ Fits(vOffset, 16, Lines, 0, 0)
         /\ MotionZero(op, field) =
              Predictions(op, field, vOffset, 16, Lines, Own, field, 0, 0)
  <1> DEFINE luma == offset + vOffset * stride
             chroma == ChromaAddress(luma, 0, vOffset \div 2)
  <1>1. /\ offset \in Nat /\ offset % 16 = 0 /\ offset <= Width - 16
        /\ vOffset \in Nat /\ vOffset % 16 = 0 /\ vOffset + 16 <= height
        /\ height \in Nat
    BY Sizes DEF PictureInv, height
  <1>2. /\ Lines \in {1, 2} /\ Own \in {0, 1} /\ stride = Lines * Width
        /\ Width \in Nat /\ Width = 2 * (Width \div 2)
    BY Strides, Sizes
  <1>3. Fits(vOffset, 16, Lines, 0, 0)
    <2>1. Height \div Lines = height
      BY Strides
    <2> QED BY <2>1, <1>1, <1>2 DEF Fits
  <1>4. Half(0) = 0
    BY DEF Half
  <1>5. Call(op, field, 0, Dest(0) + offset, Base(field, 0) + luma, stride, 16, 16,
             0, 0)
          = Prediction(op, field, 0, vOffset, 16, Lines, Own, field, 0, 0)
    <2>1. Dest(0) = (Lines * vOffset + Own) * Width
      BY DestRow, Strides DEF RowsOf
    <2>2. Base(field, 0) + luma =
            (Lines * (vOffset + 0 \div 2) + field) * Width + (offset + 0 \div 2)
      <3>1. Base(field, 0) = field * Width
        BY Strides
      <3>2. field * Width + (offset + vOffset * (Lines * Width)) =
              (Lines * vOffset + field) * Width + offset
        BY <1>1, <1>2
      <3>3. vOffset + 0 \div 2 = vOffset /\ offset + 0 \div 2 = offset
        BY <1>1
      <3> QED BY <3>1, <3>2, <3>3, <1>2
    <2> HIDE DEF luma
    <2> QED BY <2>1, <2>2, <1>2, Strides
            DEF Prediction, Call, ColumnsOf, RowsOf, AlongX, AlongY
  <1>6. ASSUME NEW p \in Chroma
        PROVE  Call(op, field, p, Dest(p) + ChromaX, Base(field, p) + chroma,
                    Stride(p), 8, ChromaRows(16), 0, 0)
                 = Prediction(op, field, p, vOffset, 16, Lines, Own, field, 0, 0)
    <2> DEFINE w == PlaneWidth(p)
               first == RowsOf(p, vOffset)
    <2>1. /\ p \in 1 .. 2 /\ p # 0 /\ p \in 0 .. 2 /\ format \in 0 .. 1
      BY DEF Chroma, PictureInv
    <2>2. /\ w = Width \div 2 /\ w \in Nat
          /\ Stride(p) = Lines * w /\ uvStride = Lines * w
          /\ Base(field, p) = field * w
      <3>1. w = Width \div 2 /\ Stride(p) = Lines * w /\ Base(field, p) = field * w
        BY <2>1, Strides
      <3>2. uvStride = Lines * (Width \div 2) /\ Width \div 2 \in Nat
        BY <1>2, Sizes DEF uvStride
      <3> QED BY <3>1, <3>2
    <2>3. Dest(p) = (Lines * first + Own) * w
      BY <2>1, DestRow
    <2>4. first \in Nat
      BY <1>1, <2>1 DEF RowsOf
    <2>5. chroma = offset \div 2 + first * (Lines * w)
      <3>1. CASE format = 0
        <4>1. chroma = (offset + Half(0)) \div 2 + (vOffset \div 2) * uvStride
          BY <3>1 DEF ChromaAddress, Chroma420
        <4>2. first = vOffset \div 2 /\ (offset + Half(0)) \div 2 = offset \div 2
          BY <3>1, <1>1, <1>4, <2>1 DEF RowsOf
        <4> HIDE DEF chroma, first
        <4> QED BY <4>1, <4>2, <2>2
      <3>2. CASE format = 1
        <4>1. chroma = Chroma422(luma, 0)
          BY <3>2 DEF ChromaAddress
        <4>2. luma = offset + 0 \div 2 + first * (2 * (Lines * w))
          <5>1. stride = 2 * (Lines * w)
            BY <1>2, <2>2
          <5>2. first = vOffset /\ 0 \div 2 = 0 /\ offset + 0 = offset
            BY <3>2, <1>1 DEF RowsOf
          <5> QED BY <5>1, <5>2
        <4>3. Lines * w \in Nat /\ Half(0) \div 2 = 0
          BY <1>2, <2>2, <1>4
        <4>4. offset \div 2 + Half(0) \div 2 = offset \div 2
          BY <4>3, <1>1
        <4> HIDE DEF luma, chroma, first
        <4>5. first \in Int /\ 0 \in Int
          BY <2>4
        <4>6. Chroma422(offset + 0 \div 2 + first * (2 * (Lines * w)), 0) =
                offset \div 2 + Half(0) \div 2 + first * (Lines * w)
          BY <4>3, <4>5, <1>1, ChromaColumns, Zenon
        <4> QED BY <4>1, <4>2, <4>4, <4>6
      <3> QED BY <3>1, <3>2, <2>1
    <2>6. Base(field, p) + chroma =
            (Lines * (first + 0 \div 2) + field) * w + (offset \div 2 + 0 \div 2)
      <3>1. first + 0 \div 2 = first /\ offset \div 2 + 0 \div 2 = offset \div 2
            /\ offset \div 2 \in Nat
        BY <2>4, <1>1
      <3> HIDE DEF chroma, first, w
      <3>2. field * w + (offset \div 2 + first * (Lines * w)) =
              (Lines * first + field) * w + offset \div 2
        BY <3>1, <2>2, <2>4, <1>2
      <3> QED BY <3>1, <3>2, <2>2, <2>5
    <2>7. /\ ColumnsOf(p, 16) = 8 /\ ChromaRows(16) = RowsOf(p, 16)
          /\ ColumnsOf(p, offset) = offset \div 2 /\ ChromaX = offset \div 2
          /\ AlongX(p, 0) = 0 /\ AlongY(p, 0) = 0
      BY <2>1, <1>4 DEF ChromaX, ColumnsOf, ChromaRows, RowsOf, AlongX, AlongY
    <2> HIDE DEF chroma
    <2> QED BY <2>2, <2>3, <2>6, <2>7 DEF Prediction, Call
  <1>7. 0 .. 2 = {0} \cup Chroma
    BY DEF Chroma
  <1>8. MotionZero(op, field) =
          {Prediction(op, field, 0, vOffset, 16, Lines, Own, field, 0, 0)}
          \cup {Prediction(op, field, p, vOffset, 16, Lines, Own, field, 0, 0)
                  : p \in Chroma}
    BY <1>5, <1>6 DEF MotionZero
  <1> QED BY <1>3, <1>7, <1>8 DEF Predictions

-----------------------------------------------------------------------------
(* What a prediction of the routines reads and writes.                     *)
Valid(field, first, size, k, line, from, x, v) ==
  /\ k \in {1, 2} /\ size \in {8, 16} /\ line \in 0 .. k - 1 /\ from \in 0 .. k - 1
  /\ first \in Nat /\ first % 8 = 0 /\ first + size <= Height \div k
  /\ Field => k = 2 /\ line = Own /\ from = field
  /\ Fits(first, size, k, x, v)

LEMMA Along ==
  ASSUME PictureInv, NEW p \in 0 .. 2, NEW field, NEW first, NEW size, NEW k,
         NEW line, NEW from, NEW x, NEW v,
         Valid(field, first, size, k, line, from, x, v)
  PROVE  /\ k \in {1, 2} /\ line \in 0 .. k - 1 /\ from \in 0 .. k - 1
         /\ RowsOf(p, first) \in Nat /\ RowsOf(p, size) \in Nat \ {0}
         /\ AlongX(p, x) \in Int /\ AlongY(p, v) \in Int
         /\ ColumnsOf(p, offset) \in Nat /\ ColumnsOf(p, 16) \in {8, 16}
         /\ ColumnsOf(p, offset) + ColumnsOf(p, 16) <= PlaneWidth(p)
         /\ 0 <= ColumnsOf(p, offset) + AlongX(p, x) \div 2
         /\ ColumnsOf(p, offset) + AlongX(p, x) \div 2 + (AlongX(p, x) % 2)
              + ColumnsOf(p, 16) <= PlaneWidth(p)
         /\ 0 <= RowsOf(p, first) + AlongY(p, v) \div 2
         /\ k * (RowsOf(p, first) + AlongY(p, v) \div 2 + (AlongY(p, v) % 2)
                 + RowsOf(p, size)) <= PlaneRows(p)
  <1>1. /\ k \in {1, 2} /\ size \in {8, 16} /\ first \in Nat /\ first % 8 = 0
        /\ line \in 0 .. k - 1 /\ from \in 0 .. k - 1
        /\ x \in Int /\ -2 * offset <= x /\ x <= 2 * (Width - 16 - offset)
        /\ v \in Int /\ -2 * first <= v
        /\ v <= 2 * ((Height \div k) - size - first)
    BY DEF Valid, Fits
  <1>2. /\ Width \in Nat /\ Width % 16 = 0 /\ Height \in Nat /\ Height % 32 = 0
        /\ offset \in Nat /\ offset % 16 = 0 /\ offset <= Width - 16
        /\ format \in 0 .. 1
    BY Sizes DEF PictureInv
  <1>3. Half(x) \in Int /\ Half(v) \in Int
    BY <1>1, HalfProperty
  <1>4. PlaneWidth(p) = IF p = 0 THEN Width ELSE Width \div 2
    BY Strides
  <1>5. /\ ColumnsOf(p, offset) \in Nat /\ ColumnsOf(p, 16) \in {8, 16}
        /\ ColumnsOf(p, offset) + ColumnsOf(p, 16) <= PlaneWidth(p)
        /\ AlongX(p, x) \in Int
    BY <1>1, <1>2, <1>3, <1>4 DEF ColumnsOf, AlongX
  <1>6. /\ 0 <= ColumnsOf(p, offset) + AlongX(p, x) \div 2
        /\ ColumnsOf(p, offset) + AlongX(p, x) \div 2 + (AlongX(p, x) % 2)
             + ColumnsOf(p, 16) <= PlaneWidth(p)
    <2>1. CASE p = 0
      BY <2>1, <1>1, <1>2, <1>4 DEF ColumnsOf, AlongX
    <2>2. CASE p # 0
      <3>1. /\ -offset <= Half(x) /\ Half(x) <= Width - 16 - offset
        BY <1>1, <1>2 DEF Half
      <3> QED BY <3>1, <2>2, <1>2, <1>3, <1>4 DEF ColumnsOf, AlongX
    <2> QED BY <2>1, <2>2
  <1>7. /\ RowsOf(p, first) \in Nat /\ RowsOf(p, size) \in Nat \ {0}
        /\ AlongY(p, v) \in Int
    BY <1>1, <1>3 DEF RowsOf, AlongY
  <1>8. /\ 0 <= RowsOf(p, first) + AlongY(p, v) \div 2
        /\ k * (RowsOf(p, first) + AlongY(p, v) \div 2 + (AlongY(p, v) % 2)
                + RowsOf(p, size)) <= PlaneRows(p)
    <2> DEFINE h == Height \div k
    <2>1. h \in Nat /\ h % 16 = 0 /\ k * h = Height
      BY <1>1, <1>2
    <2> HIDE DEF h
    <2>2. v <= 2 * (h - size - first)
      BY <1>1 DEF h
    <2>3. CASE p # 0 /\ format = 0
      <3>1. -first <= Half(v) /\ Half(v) <= h - size - first
        BY <2>1, <2>2, <1>1 DEF Half
      <3>2. /\ 0 <= first \div 2 + Half(v) \div 2
            /\ first \div 2 + Half(v) \div 2 + (Half(v) % 2) + size \div 2 <= h \div 2
        BY <3>1, <2>1, <1>1, <1>3
      <3>3. k * (h \div 2) = Height \div 2
        BY <2>1, <1>1, <1>2
      <3>4. PlaneRows(p) = Height \div 2
        BY <2>3 DEF PlaneRows
      <3> QED BY <3>2, <3>3, <3>4, <2>1, <2>3, <1>1, <1>3 DEF RowsOf, AlongY
    <2>4. CASE ~(p # 0 /\ format = 0)
      <3>1. 0 <= first + v \div 2 /\ first + v \div 2 + (v % 2) + size <= h
        BY <2>1, <2>2, <1>1
      <3>2. PlaneRows(p) = Height
        BY <2>4 DEF PlaneRows
      <3>3. /\ RowsOf(p, first) = first /\ RowsOf(p, size) = size
            /\ AlongY(p, v) = v
        BY <2>4 DEF RowsOf, AlongY
      <3>4. k * (first + v \div 2 + (v % 2) + size) <= Height
        BY <3>1, <2>1, <1>1
      <3> QED BY <3>1, <3>2, <3>3, <3>4
    <2> QED BY <2>3, <2>4
  <1> QED BY <1>1, <1>5, <1>6, <1>7, <1>8

(* The rows and columns of the addresses of a prediction.                  *)
LEMMA PredictionPlace ==
  ASSUME PictureInv, NEW p \in 0 .. 2, NEW op, NEW field, NEW first, NEW size,
         NEW k, NEW line, NEW from, NEW x, NEW v,
         Valid(field, first, size, k, line, from, x, v),
         NEW c, c = Prediction(op, field, p, first, size, k, line, from, x, v)
  PROVE  /\ c.op = op /\ c.plane = p /\ c.step = k * PlaneWidth(p) /\ Step(c) = k
         /\ c.width = ColumnsOf(p, 16) /\ c.rows = RowsOf(p, size)
         /\ c.halfX = AlongX(p, x) % 2 /\ c.halfY = AlongY(p, v) % 2
         /\ c.current = (second /\ field # Own)
         /\ c.dest \in Int /\ c.ref \in Nat
         /\ Row(c.dest, p) = k * RowsOf(p, first) + line
         /\ Column(c.dest, p) = ColumnsOf(p, offset)
         /\ Row(c.ref, p) = k * (RowsOf(p, first) + AlongY(p, v) \div 2) + from
         /\ Column(c.ref, p) = ColumnsOf(p, offset) + AlongX(p, x) \div 2
  <1> DEFINE row == k * RowsOf(p, first) + line
             left == ColumnsOf(p, offset)
             refRow == k * (RowsOf(p, first) + AlongY(p, v) \div 2) + from
             refColumn == left + AlongX(p, x) \div 2
             w == PlaneWidth(p)
  <1>1. /\ c.op = op /\ c.plane = p /\ c.step = k * w
        /\ c.width = ColumnsOf(p, 16) /\ c.rows = RowsOf(p, size)
        /\ c.halfX = AlongX(p, x) % 2 /\ c.halfY = AlongY(p, v) % 2
        /\ c.dest = row * w + left
        /\ c.ref = refRow * w + refColumn
    BY DEF Prediction, Call
  <1>2. c.current = (second /\ field # Own)
    BY DEF Prediction, Call, Own
  <1>3. w \in Nat \ {0}
    BY Sizes
  <1>4. /\ row \in Nat /\ refRow \in Nat /\ k \in Nat
        /\ left \in 0 .. w - 1 /\ refColumn \in 0 .. w - 1
    <2>1. /\ k \in {1, 2} /\ line \in 0 .. k - 1 /\ from \in 0 .. k - 1
          /\ RowsOf(p, first) \in Nat
          /\ AlongX(p, x) \in Int /\ AlongY(p, v) \in Int
          /\ left \in Nat /\ ColumnsOf(p, 16) \in {8, 16}
          /\ left + ColumnsOf(p, 16) <= w
          /\ 0 <= refColumn /\ refColumn + (AlongX(p, x) % 2) + ColumnsOf(p, 16) <= w
          /\ 0 <= RowsOf(p, first) + AlongY(p, v) \div 2
      BY Along
    <2> HIDE DEF left, w
    <2>4. refColumn \in Int /\ AlongX(p, x) % 2 \in 0 .. 1
      BY <2>1
    <2> HIDE DEF refColumn
    <2>2. left \in 0 .. w - 1 /\ refColumn \in 0 .. w - 1
      BY <2>1, <2>4, <1>3
    <2>3. RowsOf(p, first) + AlongY(p, v) \div 2 \in Nat
      BY <2>1
    <2> QED BY <2>1, <2>2, <2>3
  <1> HIDE DEF row, left, refRow, refColumn
  <1>5. Row(c.dest, p) = row /\ Column(c.dest, p) = left
    BY <1>1, <1>4, RowColumn
  <1>6. Row(c.ref, p) = refRow /\ Column(c.ref, p) = refColumn
    BY <1>1, <1>4, RowColumn
  <1>7. Step(c) = k
    BY <1>1, <1>4, Steps DEF Step
  <1>8. c.dest \in Int /\ c.ref \in Nat
    BY <1>1, <1>3, <1>4
  <1> QED BY <1>1, <1>2, <1>5, <1>6, <1>7, <1>8
          DEF row, left, refRow, refColumn

-----------------------------------------------------------------------------
(* The properties of Macroblock, of the calls of one routine.              *)
InsideCall(c) ==
  /\ c.ref >= 0
  /\ Column(c.ref, c.plane) + c.width + c.halfX <= PlaneWidth(c.plane)
  /\ Row(c.ref, c.plane) + (c.rows - 1 + c.halfY) * Step(c) < PlaneRows(c.plane)
FollowsCall(c, l) ==
  LET d == Displacement(l) IN
  /\ Displacement(c) =
       <<IF format = 2 THEN d[1] ELSE Half(d[1]),
         IF format = 0 THEN Half(d[2]) ELSE d[2], d[3], d[4]>>
  /\ c.rows = ChromaRows(l.rows) /\ c.current = l.current
OtherField(c, d) ==
  c.current /\ d.plane = c.plane =>
    Row(c.ref, c.plane) % 2 # Row(d.dest, d.plane) % 2 /\ c.step = d.step
Tile(S, p) ==
  /\ UNION {Cells(c) : c \in S} = MacroblockCells(p)
  /\ \A c, d \in S : c # d => Cells(c) \cap Cells(d) = {}

Predicted(S, op) ==
  \E field, first, size, k, line, from, x, v :
    /\ Valid(field, first, size, k, line, from, x, v)
    /\ S = Predictions(op, field, first, size, k, line, from, x, v)

LEMMA PredictedInside ==
  ASSUME PictureInv, NEW op, NEW S, Predicted(S, op), NEW c \in S
  PROVE  InsideCall(c) /\ c.dest \in Int /\ c.ref \in Int
  <1>1. PICK field, first, size, k, line, from, x, v :
          /\ Valid(field, first, size, k, line, from, x, v)
          /\ S = Predictions(op, field, first, size, k, line, from, x, v)
    BY DEF Predicted
  <1>2. PICK p \in 0 .. 2 :
          c = Prediction(op, field, p, first, size, k, line, from, x, v)
    BY <1>1 DEF Predictions
  <1> DEFINE ax == AlongX(p, x)
             ay == AlongY(p, v)
             r == RowsOf(p, first) + ay \div 2
             rows == RowsOf(p, size)
  <1>3. /\ k \in {1, 2} /\ from \in 0 .. k - 1 /\ rows \in Nat \ {0}
        /\ ax \in Int /\ ay \in Int /\ RowsOf(p, first) \in Nat
        /\ ColumnsOf(p, offset) \in Nat /\ ColumnsOf(p, 16) \in {8, 16}
        /\ ColumnsOf(p, offset) + ax \div 2 + (ax % 2) + ColumnsOf(p, 16)
             <= PlaneWidth(p)
        /\ k * (r + (ay % 2) + rows) <= PlaneRows(p)
    BY <1>1, Along
  <1>4. /\ c.plane = p /\ c.ref \in Nat /\ c.dest \in Int
        /\ c.width = ColumnsOf(p, 16)
        /\ c.rows = rows /\ c.halfX = ax % 2 /\ c.halfY = ay % 2 /\ Step(c) = k
        /\ Row(c.ref, p) = k * r + from
        /\ Column(c.ref, p) = ColumnsOf(p, offset) + ax \div 2
    BY <1>1, <1>2, PredictionPlace
  <1>5. PlaneRows(p) \in Nat
    BY Sizes DEF PlaneRows
  <1>6. Column(c.ref, p) + c.width + c.halfX <= PlaneWidth(p)
    <2> HIDE DEF ax
    <2> QED BY <1>3, <1>4, Sizes
  <1>7. Row(c.ref, p) + (c.rows - 1 + c.halfY) * Step(c) < PlaneRows(p)
    <2> HIDE DEF ay
    <2>1. r \in Int /\ ay % 2 \in 0 .. 1
      BY <1>3
    <2> HIDE DEF r, ay, rows
    <2>2. k * r + from + (rows - 1 + (ay % 2)) * k < PlaneRows(p)
      BY <1>3, <1>5, <2>1
    <2> QED BY <2>2, <1>4
  <1> QED BY <1>4, <1>6, <1>7 DEF InsideCall

LEMMA PredictedOtherField ==
  ASSUME PictureInv, NEW op, NEW S, Predicted(S, op), NEW c \in S,
         NEW op2, NEW T, Predicted(T, op2), NEW d \in T
  PROVE  OtherField(c, d)
  <1> SUFFICES ASSUME c.current, d.plane = c.plane
               PROVE  Row(c.ref, c.plane) % 2 # Row(d.dest, d.plane) % 2
                      /\ c.step = d.step
    BY DEF OtherField
  <1>1. PICK field, first, size, k, line, from, x, v :
          /\ Valid(field, first, size, k, line, from, x, v)
          /\ S = Predictions(op, field, first, size, k, line, from, x, v)
    BY DEF Predicted
  <1>2. PICK p \in 0 .. 2 :
          c = Prediction(op, field, p, first, size, k, line, from, x, v)
    BY <1>1 DEF Predictions
  <1>3. PICK field2, first2, size2, k2, line2, from2, x2, v2 :
          /\ Valid(field2, first2, size2, k2, line2, from2, x2, v2)
          /\ T = Predictions(op2, field2, first2, size2, k2, line2, from2, x2, v2)
    BY DEF Predicted
  <1>4. PICK p2 \in 0 .. 2 :
          d = Prediction(op2, field2, p2, first2, size2, k2, line2, from2, x2, v2)
    BY <1>3 DEF Predictions
  <1>5. /\ c.plane = p /\ c.step = k * PlaneWidth(p)
        /\ Row(c.ref, p) = k * (RowsOf(p, first) + AlongY(p, v) \div 2) + from
    BY <1>1, <1>2, PredictionPlace
  <1>12. c.current = (second /\ field # Own)
    BY <1>2 DEF Prediction, Call, Own
  <1>6. /\ d.plane = p2 /\ d.step = k2 * PlaneWidth(p2)
        /\ Row(d.dest, p2) = k2 * RowsOf(p2, first2) + line2
    BY <1>3, <1>4, PredictionPlace
  <1>7. second /\ field # Own /\ Field /\ p = p2
    BY <1>5, <1>6, <1>12 DEF PictureInv
  <1>8. k = 2 /\ from = field /\ k2 = 2 /\ line2 = Own
    BY <1>1, <1>3, <1>7 DEF Valid
  <1>9. /\ from \in 0 .. 1 /\ line2 \in 0 .. 1
        /\ RowsOf(p, first) + AlongY(p, v) \div 2 \in Int
        /\ RowsOf(p2, first2) \in Nat
    <2>1. /\ from \in 0 .. 1 /\ RowsOf(p, first) \in Nat /\ AlongY(p, v) \in Int
      BY <1>1, <1>8, Along
    <2>2. line2 \in 0 .. 1 /\ RowsOf(p2, first2) \in Nat
      BY <1>3, <1>8, Along
    <2> QED BY <2>1, <2>2
  <1>10. Row(c.ref, p) % 2 = from
    BY <1>5, <1>8, <1>9
  <1>11. Row(d.dest, p2) % 2 = line2
    BY <1>6, <1>8, <1>9
  <1> QED BY <1>5, <1>6, <1>7, <1>8, <1>10, <1>11

LEMMA PredictedFollows ==
  ASSUME PictureInv, NEW op, NEW S, Predicted(S, op), NEW c \in S, c.plane # 0
  PROVE  \E l \in S : l.op = c.op /\ l.plane = 0 /\ FollowsCall(c, l)
  <1>1. PICK field, first, size, k, line, from, x, v :
          /\ Valid(field, first, size, k, line, from, x, v)
          /\ S = Predictions(op, field, first, size, k, line, from, x, v)
    BY DEF Predicted
  <1>2. PICK p \in 0 .. 2 :
          c = Prediction(op, field, p, first, size, k, line, from, x, v)
    BY <1>1 DEF Predictions
  <1> DEFINE l == Prediction(op, field, 0, first, size, k, line, from, x, v)
  <1>3. l \in S
    BY <1>1 DEF Predictions
  <1>4. ASSUME NEW q \in 0 .. 2, NEW e,
               e = Prediction(op, field, q, first, size, k, line, from, x, v)
        PROVE  /\ Displacement(e) = <<AlongX(q, x), AlongY(q, v), from, line>>
               /\ e.op = op /\ e.plane = q /\ e.rows = RowsOf(q, size)
               /\ e.current = (second /\ field # Own)
    <2> DEFINE left == ColumnsOf(q, offset)
               f == RowsOf(q, first)
               ax == AlongX(q, x)
               ay == AlongY(q, v)
    <2>1. /\ e.op = op /\ e.plane = q /\ e.rows = RowsOf(q, size)
          /\ Step(e) = k
          /\ e.halfX = ax % 2 /\ e.halfY = ay % 2
          /\ Row(e.dest, q) = k * f + line /\ Column(e.dest, q) = left
          /\ Row(e.ref, q) = k * (f + ay \div 2) + from
          /\ Column(e.ref, q) = left + ax \div 2
      BY <1>1, <1>4, PredictionPlace
    <2>2. /\ k \in {1, 2} /\ from \in 0 .. k - 1 /\ line \in 0 .. k - 1
          /\ ax \in Int /\ ay \in Int /\ f \in Nat /\ left \in Nat
      BY <1>1, Along
    <2> HIDE DEF left, f, ax, ay
    <2>3. /\ (k * f + line) \div k = f /\ (k * f + line) % k = line
          /\ (k * (f + ay \div 2) + from) \div k = f + ay \div 2
          /\ (k * (f + ay \div 2) + from) % k = from
      BY <2>2
    <2>4. /\ 2 * (left + ax \div 2 - left) + (ax % 2) = ax
          /\ 2 * (f + ay \div 2 - f) + (ay % 2) = ay
      BY <2>2
    <2>5. Displacement(e) = <<ax, ay, from, line>>
      <3>1. 2 * (Column(e.ref, e.plane) - Column(e.dest, e.plane)) + e.halfX = ax
        BY <2>1, <2>2, <2>4
      <3>2. 2 * (Row(e.ref, e.plane) \div Step(e)
                   - Row(e.dest, e.plane) \div Step(e)) + e.halfY = ay
        <4>1. /\ Row(e.ref, e.plane) \div Step(e) = f + ay \div 2
              /\ Row(e.dest, e.plane) \div Step(e) = f
          BY <2>1, <2>3
        <4> QED BY <4>1, <2>1, <2>2, <2>4
      <3>3. /\ Row(e.ref, e.plane) % Step(e) = from
            /\ Row(e.dest, e.plane) % Step(e) = line
        BY <2>1, <2>3
      <3> QED BY <3>1, <3>2, <3>3 DEF Displacement
    <2>6. e.current = (second /\ field # Own)
      BY <1>1, <1>4, PredictionPlace
    <2> QED BY <2>1, <2>5, <2>6 DEF ax, ay
  <1>5. /\ Displacement(c) = <<AlongX(p, x), AlongY(p, v), from, line>>
        /\ c.op = op /\ c.plane = p /\ c.rows = RowsOf(p, size)
        /\ c.current = (second /\ field # Own)
    BY <1>2, <1>4
  <1>6. /\ Displacement(l) = <<x, v, from, line>>
        /\ l.op = op /\ l.plane = 0 /\ l.rows = size
        /\ l.current = (second /\ field # Own)
    BY <1>4 DEF AlongX, AlongY, RowsOf
  <1>7. format # 2 /\ p # 0
    BY <1>5 DEF PictureInv
  <1>8. FollowsCall(c, l)
    <2> HIDE DEF l
    <2> QED BY <1>5, <1>6, <1>7 DEF FollowsCall, AlongX, AlongY, RowsOf, ChromaRows
  <1> QED BY <1>3, <1>5, <1>6, <1>8

-----------------------------------------------------------------------------
(* Cells: rows first, first + step, ... of the columns X.                  *)
Strip(first, step, rows, X) ==
  {<<first + n * step, x>> : n \in 0 .. rows - 1, x \in X}

LEMMA Interleave ==
  ASSUME NEW a \in Int, NEW r \in Nat, NEW X
  PROVE  /\ Strip(a, 2, r, X) \cup Strip(a + 1, 2, r, X) = Strip(a, 1, 2 * r, X)
         /\ Strip(a, 2, r, X) \cap Strip(a + 1, 2, r, X) = {}
  <1>1. ASSUME NEW n \in 0 .. 2 * r - 1
        PROVE  \E m \in 0 .. r - 1 : \/ a + n * 1 = a + m * 2
                                     \/ a + n * 1 = a + 1 + m * 2
    <2>1. n \div 2 \in 0 .. r - 1
      BY <1>1
    <2>2. a + n * 1 = a + (n \div 2) * 2 \/ a + n * 1 = a + 1 + (n \div 2) * 2
      BY <1>1
    <2> QED BY <2>1, <2>2
  <1>2. Strip(a, 1, 2 * r, X) \subseteq Strip(a, 2, r, X) \cup Strip(a + 1, 2, r, X)
    <2> SUFFICES ASSUME NEW z \in Strip(a, 1, 2 * r, X)
                 PROVE  z \in Strip(a, 2, r, X) \cup Strip(a + 1, 2, r, X)
      OBVIOUS
    <2>3. PICK n \in 0 .. 2 * r - 1, x \in X : z = <<a + n * 1, x>>
      BY DEF Strip
    <2>1. PICK m \in 0 .. r - 1 : \/ a + n * 1 = a + m * 2
                                  \/ a + n * 1 = a + 1 + m * 2
      BY <1>1
    <2>2. /\ <<a + m * 2, x>> \in Strip(a, 2, r, X)
          /\ <<a + 1 + m * 2, x>> \in Strip(a + 1, 2, r, X)
      BY DEF Strip
    <2> QED BY <2>1, <2>2, <2>3
  <1>3. ASSUME NEW m \in 0 .. r - 1, NEW b \in {0, 1}
        PROVE  \E n \in 0 .. 2 * r - 1 : a + b + m * 2 = a + n * 1
    <2>1. 2 * m + b \in 0 .. 2 * r - 1 /\ a + b + m * 2 = a + (2 * m + b) * 1
      OBVIOUS
    <2> QED BY <2>1
  <1>4. Strip(a, 2, r, X) \subseteq Strip(a, 1, 2 * r, X)
    <2>1. ASSUME NEW m \in 0 .. r - 1
          PROVE  \E n \in 0 .. 2 * r - 1 : a + m * 2 = a + n * 1
      <3>1. a + 0 + m * 2 = a + m * 2
        OBVIOUS
      <3> QED BY <3>1, <1>3
    <2> QED BY <2>1 DEF Strip
  <1>5. Strip(a + 1, 2, r, X) \subseteq Strip(a, 1, 2 * r, X)
    BY <1>3 DEF Strip
  <1>6. ASSUME NEW m \in 0 .. r - 1, NEW n \in 0 .. r - 1
        PROVE  a + m * 2 # a + 1 + n * 2
    OBVIOUS
  <1>7. Strip(a, 2, r, X) \cap Strip(a + 1, 2, r, X) = {}
    BY <1>6 DEF Strip
  <1> QED BY <1>2, <1>4, <1>5, <1>7

LEMMA Stack ==
  ASSUME NEW a \in Int, NEW k \in {1, 2}, NEW r \in Nat, NEW X
  PROVE  /\ Strip(a, k, r, X) \cup Strip(a + k * r, k, r, X) = Strip(a, k, 2 * r, X)
         /\ Strip(a, k, r, X) \cap Strip(a + k * r, k, r, X) = {}
  <1>1. ASSUME NEW n \in 0 .. 2 * r - 1
        PROVE  \E m \in 0 .. r - 1 : \/ a + n * k = a + m * k
                                     \/ a + n * k = a + k * r + m * k
    <2>1. CASE n < r
      BY <2>1
    <2>2. CASE n >= r
      <3>1. n - r \in 0 .. r - 1 /\ a + n * k = a + k * r + (n - r) * k
        BY <2>2
      <3> QED BY <3>1
    <2> QED BY <2>1, <2>2
  <1>2. Strip(a, k, 2 * r, X) \subseteq
          Strip(a, k, r, X) \cup Strip(a + k * r, k, r, X)
    <2> SUFFICES ASSUME NEW z \in Strip(a, k, 2 * r, X)
                 PROVE  z \in Strip(a, k, r, X) \cup Strip(a + k * r, k, r, X)
      OBVIOUS
    <2>3. PICK n \in 0 .. 2 * r - 1, x \in X : z = <<a + n * k, x>>
      BY DEF Strip
    <2>1. PICK m \in 0 .. r - 1 : \/ a + n * k = a + m * k
                                  \/ a + n * k = a + k * r + m * k
      BY <1>1
    <2>2. /\ <<a + m * k, x>> \in Strip(a, k, r, X)
          /\ <<a + k * r + m * k, x>> \in Strip(a + k * r, k, r, X)
      BY DEF Strip
    <2> QED BY <2>1, <2>2, <2>3
  <1>3. Strip(a, k, r, X) \subseteq Strip(a, k, 2 * r, X)
    <2>1. 0 .. r - 1 \subseteq 0 .. 2 * r - 1
      OBVIOUS
    <2> QED BY <2>1 DEF Strip
  <1>4. Strip(a + k * r, k, r, X) \subseteq Strip(a, k, 2 * r, X)
    <2>1. ASSUME NEW m \in 0 .. r - 1
          PROVE  \E n \in 0 .. 2 * r - 1 : a + k * r + m * k = a + n * k
      <3>1. r + m \in 0 .. 2 * r - 1 /\ a + k * r + m * k = a + (r + m) * k
        OBVIOUS
      <3> QED BY <3>1
    <2> SUFFICES ASSUME NEW z \in Strip(a + k * r, k, r, X)
                 PROVE  z \in Strip(a, k, 2 * r, X)
      OBVIOUS
    <2>4. PICK m \in 0 .. r - 1, x \in X : z = <<a + k * r + m * k, x>>
      BY DEF Strip
    <2>2. PICK n \in 0 .. 2 * r - 1 : a + k * r + m * k = a + n * k
      BY <2>1
    <2>3. <<a + n * k, x>> \in Strip(a, k, 2 * r, X)
      BY DEF Strip
    <2> QED BY <2>2, <2>3, <2>4
  <1>5. ASSUME NEW m \in 0 .. r - 1, NEW n \in 0 .. r - 1
        PROVE  a + m * k # a + k * r + n * k
    OBVIOUS
  <1>6. Strip(a, k, r, X) \cap Strip(a + k * r, k, r, X) = {}
    BY <1>5 DEF Strip
  <1> QED BY <1>2, <1>3, <1>4, <1>6

LEMMA Beside ==
  ASSUME NEW a, NEW k, NEW r, NEW X, NEW Y
  PROVE  Strip(a, k, r, X) \cup Strip(a, k, r, Y) = Strip(a, k, r, X \cup Y)
  BY DEF Strip

LEMMA Apart ==
  ASSUME NEW a, NEW b, NEW k, NEW r, NEW X, NEW Y, X \cap Y = {}
  PROVE  Strip(a, k, r, X) \cap Strip(b, k, r, Y) = {}
  BY DEF Strip

(* The columns of a macroblock, and its cells.                             *)
Columns(p) == {(ColumnsOf(p, offset) + w) \div 8
                 : w \in {j \in {0, 8} : j < ColumnsOf(p, 16)}}
Target(p) == Strip(Lines * RowsOf(p, vOffset) + Own, Lines, RowsOf(p, 16), Columns(p))

LEMMA MacroblockStrip ==
  ASSUME PictureInv, NEW p \in 0 .. 2
  PROVE  MacroblockCells(p) = Target(p)
  <1> DEFINE top == RowsOf(p, vOffset)
             Line(n) == IF Field THEN 2 * (top + n) + Own ELSE top + n
  <1>1. format # 2 /\ top \in Nat /\ RowsOf(p, 16) \in {8, 16}
    BY Sizes DEF PictureInv, RowsOf
  <1>2. Own \in {0, 1} /\ (~Field => Own = 0)
    BY DEF Own, Parity, Field
  <1>3. MacroblockCells(p) = {<<Line(n), x>> : n \in 0 .. RowsOf(p, 16) - 1,
                                               x \in Columns(p)}
    BY <1>1 DEF MacroblockCells, RowsOf, ColumnsOf, Columns
  <1>4. ASSUME NEW n \in 0 .. RowsOf(p, 16) - 1
        PROVE  Line(n) = Lines * top + Own + n * Lines
    <2> HIDE DEF top
    <2> QED BY <1>1, <1>2, <1>4 DEF Lines
  <1> HIDE DEF top, Line
  <1>5. {<<Line(n), x>> : n \in 0 .. RowsOf(p, 16) - 1, x \in Columns(p)} =
          Strip(Lines * top + Own, Lines, RowsOf(p, 16), Columns(p))
    BY <1>4 DEF Strip
  <1> QED BY <1>3, <1>5 DEF Target, top

LEMMA PredictionStrip ==
  ASSUME PictureInv, NEW p \in 0 .. 2, NEW op, NEW field, NEW first, NEW size,
         NEW k, NEW line, NEW from, NEW x, NEW v,
         Valid(field, first, size, k, line, from, x, v)
  PROVE  Cells(Prediction(op, field, p, first, size, k, line, from, x, v)) =
           Strip(k * RowsOf(p, first) + line, k, RowsOf(p, size), Columns(p))
  <1> DEFINE c == Prediction(op, field, p, first, size, k, line, from, x, v)
  <1>1. /\ c.plane = p /\ Step(c) = k
        /\ c.width = ColumnsOf(p, 16) /\ c.rows = RowsOf(p, size)
        /\ Row(c.dest, p) = k * RowsOf(p, first) + line
        /\ Column(c.dest, p) = ColumnsOf(p, offset)
    BY PredictionPlace
  <1> HIDE DEF c
  <1>2. Cells(c) =
          {<<k * RowsOf(p, first) + line + n * k, (ColumnsOf(p, offset) + w) \div 8>>
             : n \in 0 .. RowsOf(p, size) - 1,
               w \in {j \in {0, 8} : j < ColumnsOf(p, 16)}}
    BY <1>1 DEF Cells
  <1> QED BY <1>2 DEF c, Strip, Columns

-----------------------------------------------------------------------------
(* The predictions that cover a macroblock: one of all its lines, one of   *)
(* each field, one of each half.                                           *)
OfPlane(S, p) == {c \in S : c.plane = p}
Tiles(S, op) ==
  /\ \A c \in S : c.op = op /\ c.plane \in 0 .. 2
  /\ \A p \in 0 .. 2 : Tile(OfPlane(S, p), p)

LEMMA PlaneOfPredictions ==
  ASSUME NEW op, NEW field, NEW first, NEW size, NEW k, NEW line, NEW from,
         NEW x, NEW v
  PROVE  LET S == Predictions(op, field, first, size, k, line, from, x, v) IN
         /\ \A c \in S : c.op = op /\ c.plane \in 0 .. 2
         /\ \A p \in 0 .. 2 :
              OfPlane(S, p) =
                {Prediction(op, field, p, first, size, k, line, from, x, v)}
  <1>1. \A p \in 0 .. 2 :
          LET c == Prediction(op, field, p, first, size, k, line, from, x, v)
          IN  c.op = op /\ c.plane = p
    BY DEF Prediction, Call
  <1> QED BY <1>1 DEF Predictions, OfPlane

LEMMA TileOfOne ==
  ASSUME NEW p, NEW c, Cells(c) = MacroblockCells(p)
  PROVE  Tile({c}, p)
  BY DEF Tile

LEMMA TileOfTwo ==
  ASSUME NEW p, NEW c, NEW d, Cells(c) \cup Cells(d) = MacroblockCells(p),
         Cells(c) \cap Cells(d) = {}
  PROVE  Tile({c, d}, p)
  <1>1. UNION {Cells(e) : e \in {c, d}} = Cells(c) \cup Cells(d)
    OBVIOUS
  <1> QED BY <1>1 DEF Tile

LEMMA TileRows ==
  ASSUME PictureInv, NEW p \in 0 .. 2
  PROVE  /\ RowsOf(p, vOffset) \in Nat /\ RowsOf(p, 8) \in Nat
         /\ RowsOf(p, vOffset \div 2) \in Nat
         /\ RowsOf(p, 16) = 2 * RowsOf(p, 8)
         /\ RowsOf(p, vOffset) = 2 * RowsOf(p, vOffset \div 2)
         /\ RowsOf(p, vOffset + 8) = RowsOf(p, vOffset) + RowsOf(p, 8)
  <1>1. vOffset \in Nat /\ vOffset % 16 = 0
    BY Sizes DEF PictureInv
  <1> QED BY <1>1 DEF RowsOf

LEMMA FrameTiles ==
  ASSUME PictureInv, NEW op, NEW field, NEW from, NEW x, NEW v,
         Valid(field, vOffset, 16, Lines, Own, from, x, v)
  PROVE  Tiles(Predictions(op, field, vOffset, 16, Lines, Own, from, x, v), op)
  <1> DEFINE S == Predictions(op, field, vOffset, 16, Lines, Own, from, x, v)
             C(p) == Prediction(op, field, p, vOffset, 16, Lines, Own, from, x, v)
  <1>1. /\ \A c \in S : c.op = op /\ c.plane \in 0 .. 2
        /\ \A p \in 0 .. 2 : OfPlane(S, p) = {C(p)}
    BY PlaneOfPredictions
  <1>2. ASSUME NEW p \in 0 .. 2
        PROVE  Cells(C(p)) = MacroblockCells(p)
    BY PredictionStrip, MacroblockStrip DEF Target
  <1> HIDE DEF S, C
  <1>3. ASSUME NEW p \in 0 .. 2
        PROVE  Tile(OfPlane(S, p), p)
    BY <1>1, <1>2, TileOfOne
  <1> QED BY <1>1, <1>3 DEF Tiles, S

LEMMA TwoTiles ==
  ASSUME NEW p, NEW A, NEW B, NEW c, NEW d,
         OfPlane(A, p) = {c}, OfPlane(B, p) = {d},
         Cells(c) \cup Cells(d) = MacroblockCells(p), Cells(c) \cap Cells(d) = {}
  PROVE  Tile(OfPlane(A \cup B, p), p)
  <1>1. OfPlane(A \cup B, p) = {c, d}
    BY DEF OfPlane
  <1>2. Tile({c, d}, p)
    BY TileOfTwo
  <1> QED BY <1>1, <1>2

LEMMA FieldTiles ==
  ASSUME PictureInv, ~Field, NEW op, NEW f, NEW g, NEW x, NEW v, NEW y, NEW w,
         Valid(0, vOffset \div 2, 8, 2, 0, f, x, v),
         Valid(0, vOffset \div 2, 8, 2, 1, g, y, w)
  PROVE  Tiles(Predictions(op, 0, vOffset \div 2, 8, 2, 0, f, x, v) \cup
               Predictions(op, 0, vOffset \div 2, 8, 2, 1, g, y, w), op)
  <1> DEFINE A == Predictions(op, 0, vOffset \div 2, 8, 2, 0, f, x, v)
             B == Predictions(op, 0, vOffset \div 2, 8, 2, 1, g, y, w)
             C(p) == Prediction(op, 0, p, vOffset \div 2, 8, 2, 0, f, x, v)
             D(p) == Prediction(op, 0, p, vOffset \div 2, 8, 2, 1, g, y, w)
  <1>1. /\ \A c \in A \cup B : c.op = op /\ c.plane \in 0 .. 2
        /\ \A p \in 0 .. 2 : OfPlane(A, p) = {C(p)} /\ OfPlane(B, p) = {D(p)}
    BY PlaneOfPredictions
  <1>2. ASSUME NEW p \in 0 .. 2
        PROVE  /\ Cells(C(p)) \cup Cells(D(p)) = MacroblockCells(p)
               /\ Cells(C(p)) \cap Cells(D(p)) = {}
    <2> DEFINE a == RowsOf(p, vOffset)
               r == RowsOf(p, 8)
    <2>1. /\ Cells(C(p)) = Strip(2 * RowsOf(p, vOffset \div 2) + 0, 2, r, Columns(p))
          /\ Cells(D(p)) = Strip(2 * RowsOf(p, vOffset \div 2) + 1, 2, r, Columns(p))
      BY PredictionStrip
    <2>2. MacroblockCells(p) = Strip(a, 1, 2 * r, Columns(p))
      <3>1. Lines = 1 /\ Own = 0
        BY DEF Lines, Own, Parity, Field
      <3>2. MacroblockCells(p) = Strip(1 * a + 0, 1, RowsOf(p, 16), Columns(p))
        BY <3>1, MacroblockStrip DEF Target
      <3>3. 1 * a + 0 = a /\ RowsOf(p, 16) = 2 * r
        BY TileRows
      <3> QED BY <3>2, <3>3
    <2>3. /\ 2 * RowsOf(p, vOffset \div 2) + 0 = a
          /\ 2 * RowsOf(p, vOffset \div 2) + 1 = a + 1
          /\ a \in Int /\ r \in Nat
      BY TileRows
    <2> HIDE DEF C, D, a, r
    <2> QED BY <2>1, <2>2, <2>3, Interleave
  <1> HIDE DEF A, B, C, D
  <1>3. ASSUME NEW p \in 0 .. 2
        PROVE  Tile(OfPlane(A \cup B, p), p)
    BY <1>1, <1>2, TwoTiles
  <1>4. Tiles(A \cup B, op)
    BY <1>1, <1>3 DEF Tiles
  <1> QED BY <1>4 DEF A, B

LEMMA HalfTiles ==
  ASSUME PictureInv, Field, NEW op, NEW f, NEW g, NEW x, NEW v, NEW y, NEW w,
         Valid(f, vOffset, 8, Lines, Own, f, x, v),
         Valid(g, vOffset + 8, 8, Lines, Own, g, y, w)
  PROVE  Tiles(Predictions(op, f, vOffset, 8, Lines, Own, f, x, v) \cup
               Predictions(op, g, vOffset + 8, 8, Lines, Own, g, y, w), op)
  <1> DEFINE A == Predictions(op, f, vOffset, 8, Lines, Own, f, x, v)
             B == Predictions(op, g, vOffset + 8, 8, Lines, Own, g, y, w)
             C(p) == Prediction(op, f, p, vOffset, 8, Lines, Own, f, x, v)
             D(p) == Prediction(op, g, p, vOffset + 8, 8, Lines, Own, g, y, w)
  <1>1. /\ \A c \in A \cup B : c.op = op /\ c.plane \in 0 .. 2
        /\ \A p \in 0 .. 2 : OfPlane(A, p) = {C(p)} /\ OfPlane(B, p) = {D(p)}
    BY PlaneOfPredictions
  <1>2. ASSUME NEW p \in 0 .. 2
        PROVE  /\ Cells(C(p)) \cup Cells(D(p)) = MacroblockCells(p)
               /\ Cells(C(p)) \cap Cells(D(p)) = {}
    <2> DEFINE a == Lines * RowsOf(p, vOffset) + Own
               r == RowsOf(p, 8)
    <2>1. /\ Cells(C(p)) = Strip(a, Lines, r, Columns(p))
          /\ Cells(D(p)) =
               Strip(Lines * RowsOf(p, vOffset + 8) + Own, Lines, r, Columns(p))
      BY PredictionStrip
    <2>2. MacroblockCells(p) = Strip(a, Lines, 2 * r, Columns(p))
      BY MacroblockStrip, TileRows DEF Target
    <2>3. /\ Lines * RowsOf(p, vOffset + 8) + Own = a + Lines * r
          /\ a \in Int /\ r \in Nat /\ Lines \in {1, 2}
      BY TileRows, Strides
    <2> HIDE DEF C, D, a, r
    <2> QED BY <2>1, <2>2, <2>3, Stack
  <1> HIDE DEF A, B, C, D
  <1>3. ASSUME NEW p \in 0 .. 2
        PROVE  Tile(OfPlane(A \cup B, p), p)
    BY <1>1, <1>2, TwoTiles
  <1>4. Tiles(A \cup B, op)
    BY <1>1, <1>3 DEF Tiles
  <1> QED BY <1>4 DEF A, B

-----------------------------------------------------------------------------
(* The blocks of coefficients, said with rows and columns: of each plane   *)
(* those at the lines Downs and the columns Rights.                        *)
BlockAt(op, p, row, step, right) ==
  Block(op, p, row * PlaneWidth(p) + (ColumnsOf(p, offset) + right),
        step * PlaneWidth(p))
Single(p) == p # 0 /\ format = 0
Down(interlaced) == IF interlaced THEN 1 ELSE 8 * Lines
Downs(p, interlaced) == IF Single(p) THEN {0} ELSE {0, Down(interlaced)}
Rights(p) == IF p = 0 THEN {0, 8} ELSE {0}
Skip(p, interlaced) == IF interlaced /\ ~Single(p) THEN 2 ELSE Lines
FirstRow(p) == Lines * RowsOf(p, vOffset) + Own
BlockOf(op, p, interlaced, down, right) ==
  BlockAt(op, p, FirstRow(p) + down, Skip(p, interlaced), right)
PlaneBlocks(op, p, interlaced) ==
  {BlockOf(op, p, interlaced, down, right)
     : down \in Downs(p, interlaced), right \in Rights(p)}
BlockColumn(p, right) == {(ColumnsOf(p, offset) + right) \div 8}

LEMMA BlocksPlaced ==
  ASSUME PictureInv, NEW op, NEW interlaced \in BOOLEAN, interlaced => ~Field
  PROVE  Blocks(op, interlaced) = UNION {PlaneBlocks(op, p, interlaced) : p \in 0 .. 2}
  <1> DEFINE dctOffset == IF interlaced THEN stride ELSE 8 * stride
             dctStride == IF interlaced THEN 2 * stride ELSE stride
             d == Down(interlaced)
             k == IF interlaced THEN 2 ELSE Lines
             ChromaBlocks(p) ==
               CASE format = 0 -> {Block(op, p, Dest(p) + ChromaX, uvStride)}
                 [] format = 1 -> {Block(op, p, Dest(p) + ChromaX + down,
                                         dctStride \div 2)
                                     : down \in {0, dctOffset \div 2}}
                 [] format = 2 -> {Block(op, p, Dest(p) + ChromaX + right + down,
                                         dctStride)
                                     : right \in {0, 8}, down \in {0, dctOffset}}
  <1>1. /\ Lines \in {1, 2} /\ Own \in {0, 1} /\ stride = Lines * Width
        /\ Width \in Nat /\ Width = 2 * (Width \div 2)
        /\ offset \in Nat /\ offset % 16 = 0 /\ format \in 0 .. 1
    BY Strides, Sizes DEF PictureInv
  <1>2. d \in Nat /\ k \in Nat
    BY <1>1 DEF Down
  <1>3. dctOffset = d * Width /\ dctStride = k * Width
    <2>1. CASE interlaced
      <3>1. Lines = 1
        BY <2>1 DEF Lines
      <3> QED BY <2>1, <3>1, <1>1 DEF Down
    <2>2. CASE ~interlaced
      BY <2>2, <1>1 DEF Down
    <2> QED BY <2>1, <2>2
  <1> HIDE DEF dctOffset, dctStride, d, k
  <1>4. {Block(op, 0, Dest(0) + offset + right + down, dctStride)
           : right \in {0, 8}, down \in {0, dctOffset}}
          = PlaneBlocks(op, 0, interlaced)
    <2>1. Dest(0) = FirstRow(0) * Width
      BY DestRow, Strides DEF FirstRow
    <2>2. FirstRow(0) \in Nat /\ PlaneWidth(0) = Width
      BY <1>1, TileRows, Strides DEF FirstRow
    <2>3. ASSUME NEW right \in {0, 8}, NEW n \in {0, d}
          PROVE  Dest(0) + offset + right + n * Width =
                   (FirstRow(0) + n) * Width + (offset + right)
      <3>3. n \in Nat
        BY <1>2
      <3>4. FirstRow(0) \in Int /\ n \in Int /\ Width \in Int
        BY <3>3, <2>2, <1>1
      <3>1. FirstRow(0) * Width + n * Width = (FirstRow(0) + n) * Width
        BY <3>4, SumRows, Zenon
      <3>2. FirstRow(0) * Width \in Int /\ n * Width \in Int
        BY <3>3, <2>2, <1>1
      <3> QED BY <2>1, <3>1, <3>2, <1>1
    <2>4. ASSUME NEW right \in {0, 8}, NEW n \in {0, d}
          PROVE  Block(op, 0, Dest(0) + offset + right + n * Width, k * Width) =
                   BlockAt(op, 0, FirstRow(0) + n, k, right)
      BY <2>2, <2>3 DEF BlockAt, ColumnsOf
    <2>5. 0 * Width = 0
      BY <1>1
    <2>6. {Block(op, 0, Dest(0) + offset + right + down, dctStride)
             : right \in {0, 8}, down \in {0, dctOffset}}
            = {BlockAt(op, 0, FirstRow(0) + n, k, right)
                 : n \in {0, d}, right \in {0, 8}}
      <3>1. \A right \in {0, 8} :
              /\ Block(op, 0, Dest(0) + offset + right + 0, dctStride) =
                   BlockAt(op, 0, FirstRow(0) + 0, k, right)
              /\ Block(op, 0, Dest(0) + offset + right + dctOffset, dctStride) =
                   BlockAt(op, 0, FirstRow(0) + d, k, right)
        BY <2>4, <2>5, <1>3
      <3> QED BY <3>1
    <2>7. /\ Downs(0, interlaced) = {0, d} /\ Rights(0) = {0, 8}
          /\ Skip(0, interlaced) = k
      BY DEF Downs, Single, Rights, Skip, d, k
    <2> QED BY <2>6, <2>7 DEF PlaneBlocks, BlockOf
  <1>5. ASSUME NEW p \in Chroma
        PROVE  ChromaBlocks(p) = PlaneBlocks(op, p, interlaced)
    <2> DEFINE w == PlaneWidth(p)
    <2>1. /\ p \in 1 .. 2 /\ p # 0 /\ p \in 0 .. 2
      BY DEF Chroma
    <2>2. w = Width \div 2 /\ w \in Nat /\ uvStride = Lines * w
      <3>1. w = Width \div 2
        BY <2>1, Strides
      <3>2. uvStride = Lines * (Width \div 2) /\ Width \div 2 \in Nat
        BY <1>1, Sizes DEF uvStride
      <3> QED BY <3>1, <3>2
    <2>3. Dest(p) = FirstRow(p) * w /\ FirstRow(p) \in Nat
      BY <1>1, <2>1, DestRow, TileRows DEF FirstRow
    <2>4. ChromaX = offset \div 2 /\ ColumnsOf(p, offset) = offset \div 2
      BY <1>1, <2>1 DEF ChromaX, ColumnsOf
    <2>5. Rights(p) = {0}
      BY <2>1 DEF Rights
    <2>6. ASSUME NEW n \in Nat
          PROVE  Dest(p) + ChromaX + n * w =
                   (FirstRow(p) + n) * w + (ColumnsOf(p, offset) + 0)
      <3> HIDE DEF w
      <3>1. FirstRow(p) * w + n * w = (FirstRow(p) + n) * w
        BY <2>2, <2>3
      <3>2. FirstRow(p) * w \in Int /\ n * w \in Int
        BY <2>2, <2>3
      <3> QED BY <2>3, <2>4, <3>1, <3>2, <1>1
    <2>7. 0 * w = 0 /\ Dest(p) + ChromaX + 0 = Dest(p) + ChromaX
      <3> HIDE DEF w
      <3>1. Dest(p) \in Int
        BY <2>2, <2>3
      <3> QED BY <2>2, <2>4, <3>1, <1>1
    <2>8. CASE format = 0
      <3>1. Downs(p, interlaced) = {0} /\ Skip(p, interlaced) = Lines
        BY <2>1, <2>8 DEF Downs, Single, Skip
      <3>2. Block(op, p, Dest(p) + ChromaX, uvStride) =
              BlockAt(op, p, FirstRow(p) + 0, Lines, 0)
        BY <2>2, <2>6, <2>7 DEF BlockAt
      <3>3. PlaneBlocks(op, p, interlaced) =
              {BlockAt(op, p, FirstRow(p) + 0, Lines, 0)}
        BY <3>1, <2>5 DEF PlaneBlocks, BlockOf
      <3> QED BY <3>2, <3>3, <2>8
    <2>9. CASE format = 1
      <3>1. Downs(p, interlaced) = {0, d} /\ Skip(p, interlaced) = k
        BY <2>1, <2>9 DEF Downs, Single, Skip, d, k
      <3>2. dctOffset \div 2 = d * w /\ dctStride \div 2 = k * w
        <4>1. d * (2 * w) = 2 * (d * w) /\ k * (2 * w) = 2 * (k * w)
              /\ d * w \in Int /\ k * w \in Int
          BY <1>2, <2>2
        <4>2. dctOffset = 2 * (d * w) /\ dctStride = 2 * (k * w)
          BY <4>1, <1>1, <1>3, <2>2
        <4> HIDE DEF w
        <4> QED BY <4>1, <4>2
      <3>3. /\ Block(op, p, Dest(p) + ChromaX + 0, dctStride \div 2) =
                 BlockAt(op, p, FirstRow(p) + 0, k, 0)
            /\ Block(op, p, Dest(p) + ChromaX + dctOffset \div 2, dctStride \div 2) =
                 BlockAt(op, p, FirstRow(p) + d, k, 0)
        <4>1. Dest(p) + ChromaX + 0 * w =
                (FirstRow(p) + 0) * w + (ColumnsOf(p, offset) + 0)
          BY <2>6
        <4>2. Dest(p) + ChromaX + d * w =
                (FirstRow(p) + d) * w + (ColumnsOf(p, offset) + 0)
          BY <2>6, <1>2
        <4> QED BY <4>1, <4>2, <3>2, <2>7 DEF BlockAt
      <3>4. PlaneBlocks(op, p, interlaced) =
              {BlockAt(op, p, FirstRow(p) + 0, k, 0),
               BlockAt(op, p, FirstRow(p) + d, k, 0)}
        BY <3>1, <2>5 DEF PlaneBlocks, BlockOf
      <3>5. {Block(op, p, Dest(p) + ChromaX + down, dctStride \div 2)
               : down \in {0, dctOffset \div 2}} =
              {BlockAt(op, p, FirstRow(p) + 0, k, 0),
               BlockAt(op, p, FirstRow(p) + d, k, 0)}
        BY <3>3
      <3> QED BY <3>4, <3>5, <2>9
    <2> QED BY <2>8, <2>9, <1>1
  <1>6. Blocks(op, interlaced) =
          PlaneBlocks(op, 0, interlaced) \cup
          UNION {PlaneBlocks(op, p, interlaced) : p \in Chroma}
    <2>1. Blocks(op, interlaced) =
            {Block(op, 0, Dest(0) + offset + right + down, dctStride)
               : right \in {0, 8}, down \in {0, dctOffset}}
            \cup UNION {ChromaBlocks(p) : p \in Chroma}
      BY DEF Blocks, dctOffset, dctStride
    <2> HIDE DEF ChromaBlocks
    <2>2. {ChromaBlocks(p) : p \in Chroma} =
            {PlaneBlocks(op, p, interlaced) : p \in Chroma}
      BY <1>5
    <2> QED BY <2>1, <2>2, <1>4
  <1>7. 0 .. 2 = {0} \cup Chroma
    BY DEF Chroma
  <1> QED BY <1>6, <1>7

Placed(c, op, p, row, step, column) ==
  /\ c.op = op /\ c.plane = p /\ c.rows = 8 /\ c.width = 8
  /\ c.halfX = 0 /\ c.halfY = 0 /\ ~c.current
  /\ c.ref \in Nat /\ c.dest = c.ref
  /\ Step(c) = step /\ step \in {1, 2}
  /\ Row(c.ref, p) = row /\ row \in Nat /\ row + 7 * step < PlaneRows(p)
  /\ Column(c.ref, p) = column /\ column \in Nat /\ column + 8 <= PlaneWidth(p)

LEMMA BlockPlace ==
  ASSUME PictureInv, NEW op, NEW interlaced \in BOOLEAN, interlaced => ~Field,
         NEW p \in 0 .. 2, NEW down \in Downs(p, interlaced), NEW right \in Rights(p),
         NEW c, c = BlockAt(op, p, FirstRow(p) + down, Skip(p, interlaced), right)
  PROVE  Placed(c, op, p, FirstRow(p) + down, Skip(p, interlaced),
                ColumnsOf(p, offset) + right)
  <1> DEFINE row == FirstRow(p) + down
             column == ColumnsOf(p, offset) + right
             k == Skip(p, interlaced)
             w == PlaneWidth(p)
  <1>1. /\ c.op = op /\ c.plane = p /\ c.rows = 8 /\ c.width = 8
        /\ c.halfX = 0 /\ c.halfY = 0
        /\ c.dest = row * w + column /\ c.ref = row * w + column
        /\ c.step = k * w
    BY DEF BlockAt, Block, Call
  <1>2. ~c.current
    BY DEF BlockAt, Block, Call, Own
  <1>3. /\ Lines \in {1, 2} /\ Own \in {0, 1} /\ Own < Lines
        /\ RowsOf(p, vOffset) \in Nat /\ w \in Nat \ {0}
        /\ format \in 0 .. 1 /\ offset \in Nat /\ offset % 16 = 0
        /\ offset <= Width - 16 /\ Width \in Nat /\ w = IF p = 0 THEN Width
                                                       ELSE Width \div 2
    <2>1. Lines \in {1, 2} /\ Own \in {0, 1} /\ Own < Lines
      BY Strides
    <2>2. RowsOf(p, vOffset) \in Nat /\ w \in Nat \ {0}
      BY TileRows, Sizes
    <2>3. /\ format \in 0 .. 1 /\ offset \in Nat /\ offset % 16 = 0
          /\ offset <= Width - 16 /\ Width \in Nat
      BY Sizes DEF PictureInv
    <2>4. w = IF p = 0 THEN Width ELSE Width \div 2
      BY Strides
    <2> QED BY <2>1, <2>2, <2>3, <2>4
  <1>4. column \in Nat /\ column + 8 <= w
    BY <1>3 DEF ColumnsOf, Rights
  <1>5. interlaced => Lines = 1
    BY DEF Lines
  <1>6. k \in {1, 2}
    BY <1>3 DEF Skip
  <1>7. down \in Nat /\ row \in Nat
    BY <1>3 DEF Downs, Down, FirstRow
  <1>8. row + 7 * k < PlaneRows(p)
    <2> DEFINE a == RowsOf(p, vOffset)
    <2>1. Lines * (a + RowsOf(p, 16)) <= PlaneRows(p) /\ PlaneRows(p) \in Nat
      <3>1. /\ vOffset \in Nat /\ vOffset % 16 = 0 /\ vOffset + 16 <= height
            /\ Height \in Nat /\ Height % 32 = 0
            /\ height = IF Field THEN Height \div 2 ELSE Height
        BY Sizes DEF PictureInv, height
      <3> QED BY <3>1, <1>3 DEF Lines, RowsOf, PlaneRows
    <2>2. row = Lines * a + Own + down
      BY DEF FirstRow
    <2> HIDE DEF a, row
    <2>3. CASE Single(p)
      <3>1. down = 0 /\ k = Lines /\ RowsOf(p, 16) = 8
        BY <2>3 DEF Downs, Skip, Single, RowsOf
      <3> QED BY <3>1, <2>1, <2>2, <1>3 DEF a
    <2>4. CASE ~Single(p) /\ interlaced
      <3>1. down \in {0, 1} /\ k = 2 /\ RowsOf(p, 16) = 16 /\ Lines = 1
        BY <2>4, <1>5 DEF Downs, Down, Skip, Single, RowsOf
      <3> QED BY <3>1, <2>1, <2>2, <1>3 DEF a
    <2>5. CASE ~Single(p) /\ ~interlaced
      <3>1. down \in {0, 8 * Lines} /\ k = Lines /\ RowsOf(p, 16) = 16
        BY <2>5 DEF Downs, Down, Skip, Single, RowsOf
      <3> QED BY <3>1, <2>1, <2>2, <1>3 DEF a
    <2> QED BY <2>3, <2>4, <2>5
  <1> HIDE DEF row, column, w, k
  <1>9. Row(c.ref, p) = row /\ Column(c.ref, p) = column
    <2>1. column \in 0 .. PlaneWidth(p) - 1
      BY <1>4, <1>3 DEF w
    <2> QED BY <2>1, <1>1, <1>7, RowColumn DEF w
  <1>10. Step(c) = k
    BY <1>1, <1>6, Steps DEF Step, w
  <1>11. c.ref \in Nat /\ c.dest = c.ref
    BY <1>1, <1>3, <1>4, <1>7
  <1>12. Placed(c, op, p, row, k, column)
    BY <1>1, <1>2, <1>4, <1>6, <1>7, <1>8, <1>9, <1>10, <1>11 DEF Placed, w
  <1> QED BY <1>12 DEF row, column, k

LEMMA BlocksInside ==
  ASSUME PictureInv, NEW op, NEW interlaced \in BOOLEAN, interlaced => ~Field,
         NEW c \in Blocks(op, interlaced)
  PROVE  /\ InsideCall(c) /\ c.op = op /\ ~c.current /\ c.plane \in 0 .. 2
         /\ c.dest \in Int /\ c.ref \in Int
  <1>1. PICK p \in 0 .. 2 : c \in PlaneBlocks(op, p, interlaced)
    BY BlocksPlaced
  <1>2. PICK down \in Downs(p, interlaced), right \in Rights(p) :
          c = BlockAt(op, p, FirstRow(p) + down, Skip(p, interlaced), right)
    BY <1>1 DEF PlaneBlocks, BlockOf
  <1> DEFINE k == Skip(p, interlaced)
             row == FirstRow(p) + down
             column == ColumnsOf(p, offset) + right
  <1> HIDE DEF k, row, column
  <1>3. Placed(c, op, p, row, k, column)
    BY <1>2, BlockPlace DEF k, row, column
  <1> QED BY <1>3 DEF InsideCall, Placed

LEMMA BlockStrip ==
  ASSUME PictureInv, NEW op, NEW interlaced \in BOOLEAN, interlaced => ~Field,
         NEW p \in 0 .. 2, NEW down \in Downs(p, interlaced), NEW right \in Rights(p)
  PROVE  Cells(BlockOf(op, p, interlaced, down, right)) =
           Strip(FirstRow(p) + down, Skip(p, interlaced), 8, BlockColumn(p, right))
  <1> DEFINE c == BlockAt(op, p, FirstRow(p) + down, Skip(p, interlaced), right)
             k == Skip(p, interlaced)
             row == FirstRow(p) + down
             column == ColumnsOf(p, offset) + right
  <1>1. Placed(c, op, p, row, k, column)
    BY BlockPlace
  <1>2. /\ c.plane = p /\ c.rows = 8 /\ c.width = 8 /\ c.dest = c.ref /\ Step(c) = k
        /\ Row(c.dest, p) = row /\ Column(c.dest, p) = column /\ column \in Nat
    BY <1>1 DEF Placed
  <1> HIDE DEF c, k, row, column
  <1>4. Cells(c) = {<<row + n * k, (column + w) \div 8>>
                      : n \in 0 .. 8 - 1, w \in {j \in {0, 8} : j < 8}}
    BY <1>2 DEF Cells
  <1>5. {j \in {0, 8} : j < 8} = {0} /\ column + 0 = column
    BY <1>2
  <1>6. Cells(c) = {<<row + n * k, x>> : n \in 0 .. 8 - 1, x \in {column \div 8}}
    BY <1>4, <1>5
  <1> QED BY <1>6 DEF Strip, BlockColumn, BlockOf, c, k, row, column

(* Two blocks, one below the other or line by line, fill sixteen lines.    *)
LEMMA BlockPair ==
  ASSUME PictureInv, NEW interlaced \in BOOLEAN, interlaced => ~Field,
         NEW p \in 0 .. 2, ~Single(p), NEW X
  PROVE  LET k == Skip(p, interlaced)
             A == Strip(FirstRow(p) + 0, k, 8, X)
             B == Strip(FirstRow(p) + Down(interlaced), k, 8, X)
         IN  /\ A \cup B = Strip(FirstRow(p), Lines, 16, X)
             /\ A \cap B = {}
  <1>1. FirstRow(p) \in Nat /\ FirstRow(p) + 0 = FirstRow(p) /\ Lines \in {1, 2}
    BY TileRows, Strides DEF FirstRow
  <1>2. CASE interlaced
    <2>1. Lines = 1 /\ Skip(p, interlaced) = 2 /\ Down(interlaced) = 1
      BY <1>2 DEF Lines, Skip, Down
    <2>2. 2 * 8 = 16
      OBVIOUS
    <2> QED BY <1>1, <2>1, <2>2, Interleave
  <1>3. CASE ~interlaced
    <2>1. Skip(p, interlaced) = Lines /\ Down(interlaced) = Lines * 8
      BY <1>1, <1>3 DEF Skip, Down
    <2>2. 2 * 8 = 16 /\ 8 \in Nat
      OBVIOUS
    <2> QED BY <1>1, <2>1, <2>2, Stack
  <1> QED BY <1>2, <1>3

LEMMA BlocksTile ==
  ASSUME PictureInv, NEW op, NEW interlaced \in BOOLEAN, interlaced => ~Field
  PROVE  Tiles(Blocks(op, interlaced), op)
  <1> DEFINE S == Blocks(op, interlaced)
  <1>1. \A c \in S : c.op = op /\ c.plane \in 0 .. 2
    BY BlocksInside
  <1>2. ASSUME NEW p \in 0 .. 2
        PROVE  OfPlane(S, p) = PlaneBlocks(op, p, interlaced)
    <2>1. ASSUME NEW q \in 0 .. 2, NEW c \in PlaneBlocks(op, q, interlaced)
          PROVE  c.plane = q
      BY DEF PlaneBlocks, BlockOf, BlockAt, Block, Call
    <2> QED BY <2>1, BlocksPlaced DEF OfPlane
  <1>3. ASSUME NEW p \in 0 .. 2
        PROVE  Tile(PlaneBlocks(op, p, interlaced), p)
    <2> DEFINE k == Skip(p, interlaced)
               X(right) == BlockColumn(p, right)
               C(down, right) == BlockOf(op, p, interlaced, down, right)
               d == Down(interlaced)
    <2>1. ASSUME NEW down \in Downs(p, interlaced), NEW right \in Rights(p)
          PROVE  Cells(C(down, right)) = Strip(FirstRow(p) + down, k, 8, X(right))
      BY BlockStrip
    <2>2. MacroblockCells(p) =
            Strip(FirstRow(p), Lines, RowsOf(p, 16), Columns(p))
      BY MacroblockStrip DEF Target, FirstRow
    <2>3. PlaneBlocks(op, p, interlaced) =
            {C(down, right) : down \in Downs(p, interlaced), right \in Rights(p)}
      BY DEF PlaneBlocks
    <2> HIDE DEF k, C, d
    <2>4. CASE Single(p)
      <3>1. /\ Downs(p, interlaced) = {0} /\ Rights(p) = {0} /\ k = Lines
            /\ RowsOf(p, 16) = 8
        BY <2>4 DEF Downs, Rights, Single, Skip, RowsOf, k
      <3>2. Columns(p) = X(0)
        <4>1. ColumnsOf(p, 16) = 8
          BY <2>4 DEF ColumnsOf, Single
        <4>2. {j \in {0, 8} : j < 8} = {0}
          OBVIOUS
        <4> QED BY <4>1, <4>2 DEF Columns, BlockColumn
      <3>3. FirstRow(p) + 0 = FirstRow(p)
        BY TileRows, Strides DEF FirstRow
      <3>4. Cells(C(0, 0)) = MacroblockCells(p)
        BY <2>1, <2>2, <3>1, <3>2, <3>3
      <3>5. PlaneBlocks(op, p, interlaced) = {C(0, 0)}
        BY <2>3, <3>1
      <3> QED BY <3>4, <3>5, TileOfOne
    <2>5. CASE ~Single(p)
      <3>1. Downs(p, interlaced) = {0, d} /\ RowsOf(p, 16) = 16
        BY <2>5 DEF Downs, Single, RowsOf, d
      <3>2. ASSUME NEW right \in Rights(p)
            PROVE  /\ Cells(C(0, right)) \cup Cells(C(d, right)) =
                        Strip(FirstRow(p), Lines, 16, X(right))
                   /\ Cells(C(0, right)) \cap Cells(C(d, right)) = {}
        <4>1. /\ Cells(C(0, right)) = Strip(FirstRow(p) + 0, k, 8, X(right))
              /\ Cells(C(d, right)) = Strip(FirstRow(p) + d, k, 8, X(right))
          BY <2>1, <3>1
        <4> HIDE DEF X
        <4> QED BY <4>1, <2>5, BlockPair DEF k, d
      <3>3. CASE p # 0
        <4>1. Rights(p) = {0} /\ Columns(p) = X(0)
          <5>1. ColumnsOf(p, 16) = 8
            BY <3>3 DEF ColumnsOf
          <5>2. {j \in {0, 8} : j < 8} = {0}
            OBVIOUS
          <5> QED BY <5>1, <5>2, <3>3 DEF Columns, Rights, BlockColumn
        <4>2. PlaneBlocks(op, p, interlaced) = {C(0, 0), C(d, 0)}
          BY <2>3, <3>1, <4>1
        <4>3. /\ Cells(C(0, 0)) \cup Cells(C(d, 0)) = MacroblockCells(p)
              /\ Cells(C(0, 0)) \cap Cells(C(d, 0)) = {}
          BY <2>2, <3>1, <3>2, <4>1
        <4> QED BY <4>2, <4>3, TileOfTwo
      <3>4. CASE p = 0
        <4>1. /\ Rights(p) = {0, 8} /\ Columns(p) = X(0) \cup X(8)
              /\ X(0) \cap X(8) = {}
          <5>1. /\ ColumnsOf(p, 16) = 16 /\ ColumnsOf(p, offset) = offset
                /\ offset \in Nat
            BY <3>4, Sizes DEF ColumnsOf
          <5>2. {j \in {0, 8} : j < 16} = {0, 8}
            OBVIOUS
          <5>3. (offset + 0) \div 8 # (offset + 8) \div 8
            BY <5>1
          <5> QED BY <5>1, <5>2, <5>3, <3>4 DEF Columns, Rights, BlockColumn
        <4>2. PlaneBlocks(op, p, interlaced) = {C(0, 0), C(d, 0), C(0, 8), C(d, 8)}
          BY <2>3, <3>1, <4>1
        <4>3. Strip(FirstRow(p), Lines, 16, X(0)) \cup
              Strip(FirstRow(p), Lines, 16, X(8)) = MacroblockCells(p)
          BY <2>2, <3>1, <4>1, Beside
        <4>4. ASSUME NEW a \in {0, d}, NEW b \in {0, d}
              PROVE  Cells(C(a, 0)) \cap Cells(C(b, 8)) = {}
          <5>1. /\ Cells(C(a, 0)) = Strip(FirstRow(p) + a, k, 8, X(0))
                /\ Cells(C(b, 8)) = Strip(FirstRow(p) + b, k, 8, X(8))
            BY <2>1, <3>1, <4>1
          <5> HIDE DEF X
          <5> QED BY <5>1, <4>1, Apart
        <4>5. /\ Cells(C(0, 0)) \cup Cells(C(d, 0)) =
                   Strip(FirstRow(p), Lines, 16, X(0))
              /\ Cells(C(0, 8)) \cup Cells(C(d, 8)) =
                   Strip(FirstRow(p), Lines, 16, X(8))
              /\ Cells(C(0, 0)) \cap Cells(C(d, 0)) = {}
              /\ Cells(C(0, 8)) \cap Cells(C(d, 8)) = {}
          BY <3>2, <4>1
        <4> DEFINE T == {C(0, 0), C(d, 0), C(0, 8), C(d, 8)}
        <4>6. UNION {Cells(c) : c \in T} = MacroblockCells(p)
          <5>1. UNION {Cells(c) : c \in T} =
                  (Cells(C(0, 0)) \cup Cells(C(d, 0)))
                  \cup (Cells(C(0, 8)) \cup Cells(C(d, 8)))
            OBVIOUS
          <5> QED BY <5>1, <4>3, <4>5
        <4>7. \A c, e \in T : c # e => Cells(c) \cap Cells(e) = {}
          BY <4>4, <4>5
        <4> QED BY <4>2, <4>6, <4>7 DEF Tile
      <3> QED BY <3>3, <3>4
    <2> QED BY <2>4, <2>5
  <1> HIDE DEF S
  <1>4. ASSUME NEW p \in 0 .. 2
        PROVE  Tile(OfPlane(S, p), p)
    BY <1>2, <1>3
  <1> QED BY <1>1, <1>4 DEF Tiles, S

-----------------------------------------------------------------------------
(* The properties hold of what each routine asks for.                      *)
Sound(S) ==
  /\ \A c \in S : InsideCall(c) /\ c.dest \in Int /\ c.ref \in Int
  /\ \A op \in {c.op : c \in S}, p \in 0 .. 2 :
       Tile({c \in S : c.op = op /\ c.plane = p}, p)
  /\ \A c \in {a \in S : a.op \in Ops /\ a.plane # 0} :
       \E l \in {a \in S : a.op = c.op /\ a.plane = 0} : FollowsCall(c, l)
  /\ \A c, d \in S : OtherField(c, d)

Pieces(S) == \A c \in S : \E op, T : c \in T /\ T \subseteq S /\ Predicted(T, op)

LEMMA PiecesSound ==
  ASSUME PictureInv, NEW S, Pieces(S),
         \A op \in {c.op : c \in S}, p \in 0 .. 2 :
           Tile({c \in S : c.op = op /\ c.plane = p}, p)
  PROVE  Sound(S)
  <1>1. ASSUME NEW c \in S
        PROVE  InsideCall(c) /\ c.dest \in Int /\ c.ref \in Int
    BY PredictedInside DEF Pieces
  <1>2. ASSUME NEW c \in S, c.plane # 0
        PROVE  \E l \in S : l.op = c.op /\ l.plane = 0 /\ FollowsCall(c, l)
    <2>1. PICK op, T : c \in T /\ T \subseteq S /\ Predicted(T, op)
      BY DEF Pieces
    <2>2. \E l \in T : l.op = c.op /\ l.plane = 0 /\ FollowsCall(c, l)
      BY <1>2, <2>1, PredictedFollows
    <2> QED BY <2>1, <2>2
  <1>3. ASSUME NEW c \in S, NEW d \in S
        PROVE  OtherField(c, d)
    <2>1. PICK op, T : c \in T /\ T \subseteq S /\ Predicted(T, op)
      BY DEF Pieces
    <2>2. PICK op2, U : d \in U /\ U \subseteq S /\ Predicted(U, op2)
      BY DEF Pieces
    <2> QED BY <2>1, <2>2, PredictedOtherField
  <1> QED BY <1>1, <1>2, <1>3 DEF Sound

LEMMA PiecesOfTwo ==
  ASSUME NEW A, NEW B, Pieces(A), Pieces(B)
  PROVE  Pieces(A \cup B)
  <1>1. ASSUME NEW c \in A \cup B
        PROVE  \E op, T : c \in T /\ T \subseteq A \cup B /\ Predicted(T, op)
    <2>1. CASE c \in A
      <3>1. PICK op, T : c \in T /\ T \subseteq A /\ Predicted(T, op)
        BY <2>1 DEF Pieces
      <3> QED BY <3>1
    <2>2. CASE c \in B
      <3>1. PICK op, T : c \in T /\ T \subseteq B /\ Predicted(T, op)
        BY <2>2 DEF Pieces
      <3> QED BY <3>1
    <2> QED BY <2>1, <2>2
  <1> QED BY <1>1 DEF Pieces

LEMMA OneSound ==
  ASSUME PictureInv, NEW S, NEW op, Pieces(S), Tiles(S, op)
  PROVE  Sound(S)
  <1>1. ASSUME NEW o \in {c.op : c \in S}, NEW p \in 0 .. 2
        PROVE  Tile({c \in S : c.op = o /\ c.plane = p}, p)
    <2>1. {c \in S : c.op = o /\ c.plane = p} = OfPlane(S, p)
      BY DEF Tiles, OfPlane
    <2> QED BY <2>1 DEF Tiles
  <1> QED BY <1>1, PiecesSound

LEMMA BothSound ==
  ASSUME PictureInv, NEW A, NEW B, Pieces(A), Pieces(B),
         Tiles(A, "put"), Tiles(B, "avg")
  PROVE  Sound(A \cup B)
  <1> DEFINE S == A \cup B
  <1>1. ASSUME NEW o \in {c.op : c \in S}, NEW p \in 0 .. 2
        PROVE  Tile({c \in S : c.op = o /\ c.plane = p}, p)
    <2>1. CASE o = "put"
      <3>1. {c \in S : c.op = o /\ c.plane = p} = OfPlane(A, p)
        BY <2>1 DEF Tiles, OfPlane
      <3> QED BY <3>1 DEF Tiles
    <2>2. CASE o = "avg"
      <3>1. {c \in S : c.op = o /\ c.plane = p} = OfPlane(B, p)
        BY <2>2 DEF Tiles, OfPlane
      <3> QED BY <3>1 DEF Tiles
    <2> QED BY <2>1, <2>2 DEF Tiles
  <1>2. Pieces(S)
    BY PiecesOfTwo
  <1> QED BY <1>1, <1>2, PiecesSound

LEMMA BlocksSound ==
  ASSUME PictureInv, NEW op, op \notin Ops, NEW interlaced \in BOOLEAN,
         interlaced => ~Field
  PROVE  Sound(Blocks(op, interlaced))
  <1> DEFINE S == Blocks(op, interlaced)
  <1>1. \A c \in S : /\ InsideCall(c) /\ c.op = op /\ ~c.current
                     /\ c.dest \in Int /\ c.ref \in Int
    BY BlocksInside
  <1>2. Tiles(S, op)
    BY BlocksTile
  <1> HIDE DEF S
  <1>3. ASSUME NEW o \in {c.op : c \in S}, NEW p \in 0 .. 2
        PROVE  Tile({c \in S : c.op = o /\ c.plane = p}, p)
    <2>1. {c \in S : c.op = o /\ c.plane = p} = OfPlane(S, p)
      BY <1>1 DEF OfPlane
    <2> QED BY <2>1, <1>2 DEF Tiles
  <1>4. \A c, d \in S : OtherField(c, d)
    BY <1>1 DEF OtherField
  <1>5. Sound(S)
    BY <1>1, <1>3, <1>4 DEF Sound
  <1> QED BY <1>5 DEF S

-----------------------------------------------------------------------------
LEMMA PredictionsPieces ==
  ASSUME NEW op, NEW field, NEW first, NEW size, NEW k, NEW line, NEW from,
         NEW x, NEW v, Valid(field, first, size, k, line, from, x, v)
  PROVE  Pieces(Predictions(op, field, first, size, k, line, from, x, v))
  <1> DEFINE S == Predictions(op, field, first, size, k, line, from, x, v)
  <1>1. Predicted(S, op)
    BY DEF Predicted
  <1> HIDE DEF S
  <1>2. Pieces(S)
    BY <1>1 DEF Pieces
  <1> QED BY <1>2 DEF S

MotionIs(op, field, mx, my, size, y) ==
  \E x, v :
    /\ Valid(field, vOffset + y, size, Lines, Own, field, x, v)
    /\ Motion(op, field, mx, my, size, y) =
         Predictions(op, field, vOffset + y, size, Lines, Own, field, x, v)

LEMMA MotionValid ==
  ASSUME PictureInv, NEW op, NEW field \in {0, 1}, field < Lines,
         NEW mx \in Int, NEW my \in Int,
         NEW size \in {8, 16}, NEW y \in {0, 8}, size + y <= 16
  PROVE  MotionIs(op, field, mx, my, size, y)
  <1>1. PICK x \in Int, v \in Int :
          /\ Fits(vOffset + y, size, Lines, x, v)
          /\ Motion(op, field, mx, my, size, y) =
               Predictions(op, field, vOffset + y, size, Lines, Own, field, x, v)
    <2>1. MotionFits(op, field, mx, my, size, y)
      BY MotionPredicts
    <2> QED BY <2>1 DEF MotionFits
  <1>2. /\ vOffset \in Nat /\ vOffset % 16 = 0 /\ vOffset + 16 <= height
        /\ height \in Nat
    BY Sizes DEF PictureInv, height
  <1>3. /\ Lines \in {1, 2} /\ Own \in {0, 1} /\ Own < Lines
        /\ Height \div Lines = height /\ (Field => Lines = 2)
    BY Strides DEF Lines
  <1>4. /\ vOffset + y \in Nat /\ (vOffset + y) % 8 = 0
        /\ vOffset + y + size <= height
    BY <1>2
  <1>5. Valid(field, vOffset + y, size, Lines, Own, field, x, v)
    BY <1>1, <1>3, <1>4 DEF Valid
  <1> QED BY <1>1, <1>5 DEF MotionIs

(* A prediction of a whole macroblock                                      *)
LEMMA MotionSound ==
  ASSUME PictureInv, NEW op, NEW field \in {0, 1}, field < Lines,
         NEW mx \in Int, NEW my \in Int
  PROVE  /\ Pieces(Motion(op, field, mx, my, 16, 0))
         /\ Tiles(Motion(op, field, mx, my, 16, 0), op)
  <1>1. PICK x, v :
          /\ Valid(field, vOffset + 0, 16, Lines, Own, field, x, v)
          /\ Motion(op, field, mx, my, 16, 0) =
               Predictions(op, field, vOffset + 0, 16, Lines, Own, field, x, v)
    <2>1. MotionIs(op, field, mx, my, 16, 0)
      BY MotionValid
    <2> QED BY <2>1 DEF MotionIs
  <1>2. vOffset + 0 = vOffset
    BY Sizes
  <1> QED BY <1>1, <1>2, PredictionsPieces, FrameTiles

LEMMA HalvesSound ==
  ASSUME PictureInv, Field, NEW op, NEW f \in {0, 1}, NEW g \in {0, 1},
         NEW mx \in Int, NEW my \in Int, NEW nx \in Int, NEW ny \in Int
  PROVE  LET S == Motion(op, f, mx, my, 8, 0) \cup Motion(op, g, nx, ny, 8, 8)
         IN  Pieces(S) /\ Tiles(S, op)
  <1>1. f < Lines /\ g < Lines
    BY DEF Lines
  <1>2. PICK x, v :
          /\ Valid(f, vOffset + 0, 8, Lines, Own, f, x, v)
          /\ Motion(op, f, mx, my, 8, 0) =
               Predictions(op, f, vOffset + 0, 8, Lines, Own, f, x, v)
    <2>1. 8 \in {8, 16} /\ 0 \in {0, 8} /\ 8 + 0 <= 16
      OBVIOUS
    <2>2. MotionIs(op, f, mx, my, 8, 0)
      BY <1>1, <2>1, MotionValid, Zenon
    <2> QED BY <2>2 DEF MotionIs
  <1>3. PICK y, w :
          /\ Valid(g, vOffset + 8, 8, Lines, Own, g, y, w)
          /\ Motion(op, g, nx, ny, 8, 8) =
               Predictions(op, g, vOffset + 8, 8, Lines, Own, g, y, w)
    <2>1. 8 \in {8, 16} /\ 8 \in {0, 8} /\ 8 + 8 <= 16
      OBVIOUS
    <2>2. MotionIs(op, g, nx, ny, 8, 8)
      BY <1>1, <2>1, MotionValid, Zenon
    <2> QED BY <2>2 DEF MotionIs
  <1>4. vOffset + 0 = vOffset
    BY Sizes
  <1> QED BY <1>2, <1>3, <1>4, PredictionsPieces, PiecesOfTwo, HalfTiles

LEMMA FieldsSound ==
  ASSUME PictureInv, ~Field, NEW op, NEW mx \in Int, NEW my \in Int,
         NEW nx \in Int, NEW ny \in Int,
         NEW line0 \in {0, 1}, NEW src0 \in {0, 1}, line0 + src0 <= 1,
         NEW line1 \in {0, 1}, NEW src1 \in {0, 1}, line1 + src1 <= 1
  PROVE  LET S == MotionField(op, mx, my, 0, line0, src0) \cup
                  MotionField(op, nx, ny, 1, line1, src1)
         IN  Pieces(S) /\ Tiles(S, op)
  <1>1. PICK x \in Int, v \in Int :
          /\ Fits(vOffset \div 2, 8, 2, x, v)
          /\ MotionField(op, mx, my, 0, line0, src0) =
               Predictions(op, 0, vOffset \div 2, 8, 2, 0, line0 + src0, x, v)
    BY FieldPredicts
  <1>2. PICK y \in Int, w \in Int :
          /\ Fits(vOffset \div 2, 8, 2, y, w)
          /\ MotionField(op, nx, ny, 1, line1, src1) =
               Predictions(op, 0, vOffset \div 2, 8, 2, 1, line1 + src1, y, w)
    BY FieldPredicts
  <1>3. /\ vOffset \div 2 \in Nat /\ (vOffset \div 2) % 8 = 0
        /\ vOffset \div 2 + 8 <= Height \div 2
    <2>1. /\ vOffset \in Nat /\ vOffset % 16 = 0 /\ vOffset + 16 <= Height
          /\ Height \in Nat /\ Height % 32 = 0
      BY Sizes DEF PictureInv, height
    <2> QED BY <2>1
  <1>4. line0 + src0 \in 0 .. 2 - 1 /\ line1 + src1 \in 0 .. 2 - 1
    OBVIOUS
  <1>5. /\ Valid(0, vOffset \div 2, 8, 2, 0, line0 + src0, x, v)
        /\ Valid(0, vOffset \div 2, 8, 2, 1, line1 + src1, y, w)
    BY <1>1, <1>2, <1>3, <1>4 DEF Valid
  <1> QED BY <1>1, <1>2, <1>5, PredictionsPieces, PiecesOfTwo, FieldTiles

-----------------------------------------------------------------------------
LEMMA Bounds ==
  ASSUME NEW n \in Int
  PROVE  Bound(n) \in Int
  <1> DEFINE range == <<32, 64, 128, 256, 512, 1024, 2048, 4096, 8192>>[FCode + 1]
  <1>1. range \in Nat \ {0}
    BY MacroblockAssumption
  <1> HIDE DEF range
  <1>2. (n + range \div 2) % range \in Int
    BY <1>1
  <1>3. ((n + range \div 2) % range) - range \div 2 \in Int
    BY <1>1, <1>2
  <1> QED BY <1>3 DEF Bound, range

LEMMA VectorsInt ==
  ASSUME NEW v \in Vectors
  PROVE  /\ v[1] \in Int /\ v[2] \in Int
         /\ Bound(v[1]) \in Int /\ Bound(v[2]) \in Int
  <1>1. v[1] \in Int /\ v[2] \in Int
    BY MacroblockAssumption
  <1> QED BY <1>1, Bounds

LEMMA Scales ==
  ASSUME NEW n \in Int, NEW m \in 1 .. 3, NEW d \in Deltas
  PROVE  /\ Scale(n, m) + d \in Int /\ Scale(n, m) + d - 1 \in Int
         /\ Scale(n, m) + d + 1 \in Int
  <1>1. d \in Int
    BY MacroblockAssumption
  <1>2. n * m \in Int
    OBVIOUS
  <1> QED BY <1>1, <1>2 DEF Scale

LEMMA Parities ==
  ASSUME PictureInv
  PROVE  /\ Own \in {0, 1} /\ Own < Lines
         /\ Field => /\ Lines = 2 /\ 1 - Own \in {0, 1}
                     /\ \A f \in {0, 1} : f < Lines
  <1>1. Own \in {0, 1} /\ Own < Lines
    BY Strides
  <1> QED BY <1>1 DEF Lines

(* Each routine leaves a vector for the next one.                          *)
Moves == /\ UNCHANGED picture /\ Sound(calls')
         /\ pmv' \in (Int \X Int) \X (Int \X Int)

LEMMA FrFrameSound ==
  ASSUME PictureInv, FrFrame
  PROVE  Moves
  <1>1. PICK v \in Vectors, op \in Ops :
          /\ pmv' = <<Bounded(v), Bounded(v)>>
          /\ calls' = Motion(op, Own, Bounded(v)[1], Bounded(v)[2], 16, 0)
    BY DEF FrFrame
  <1>2. Bounded(v)[1] \in Int /\ Bounded(v)[2] \in Int /\ Bounded(v) \in Int \X Int
    BY VectorsInt DEF Bounded
  <1>3. Sound(calls')
    BY <1>1, <1>2, Parities, MotionSound, OneSound
  <1> QED BY <1>1, <1>2, <1>3 DEF Moves, FrFrame

LEMMA FrFieldSound ==
  ASSUME PictureInv, FrField
  PROVE  Moves
  <1>1. PICK v \in Vectors, w \in Vectors, op \in Ops, field1 \in {0, 1},
             field2 \in {0, 1} :
          /\ pmv' = <<<<Bound(v[1]), 2 * v[2]>>, <<Bound(w[1]), 2 * w[2]>>>>
          /\ calls' = MotionField(op, Bound(v[1]), v[2], 0, 0, field1) \cup
                      MotionField(op, Bound(w[1]), w[2], 1, 0, field2)
    BY DEF FrField
  <1>2. /\ v[2] \in Int /\ Bound(v[1]) \in Int /\ 2 * v[2] \in Int
        /\ w[2] \in Int /\ Bound(w[1]) \in Int /\ 2 * w[2] \in Int
    BY VectorsInt
  <1>3. 0 \in {0, 1} /\ 0 + field1 <= 1 /\ 0 + field2 <= 1 /\ ~Field
    BY DEF FrField
  <1>4. Pieces(calls') /\ Tiles(calls', op)
    BY <1>1, <1>2, <1>3, FieldsSound
  <1>5. Sound(calls')
    BY <1>4, OneSound
  <1> QED BY <1>1, <1>2, <1>5 DEF Moves, FrField

LEMMA FrDmvSound ==
  ASSUME PictureInv, FrDmv
  PROVE  Moves
  <1>1. PICK v \in Vectors, dx \in Deltas, dy \in Deltas, m \in {1, 3} :
          /\ pmv' = <<<<Bound(v[1]), 2 * v[2]>>, <<Bound(v[1]), 2 * v[2]>>>>
          /\ calls' =
               MotionField("put", Scale(Bound(v[1]), m) + dx,
                           Scale(v[2], m) + dy - 1, 0, 1, 0) \cup
               MotionField("put", Scale(Bound(v[1]), 4 - m) + dx,
                           Scale(v[2], 4 - m) + dy + 1, 1, 0, 0) \cup
               MotionDmv("avg", Bound(v[1]), v[2])
    BY DEF FrDmv
  <1>2. v[2] \in Int /\ Bound(v[1]) \in Int /\ 2 * v[2] \in Int
    BY VectorsInt
  <1>3. m \in 1 .. 3 /\ 4 - m \in 1 .. 3 /\ ~Field
    BY DEF FrDmv
  <1> DEFINE A == MotionField("put", Scale(Bound(v[1]), m) + dx,
                              Scale(v[2], m) + dy - 1, 0, 1, 0) \cup
                  MotionField("put", Scale(Bound(v[1]), 4 - m) + dx,
                              Scale(v[2], 4 - m) + dy + 1, 1, 0, 0)
             B == MotionField("avg", Bound(v[1]), v[2], 0, 0, 0) \cup
                  MotionField("avg", Bound(v[1]), v[2], 1, 0, 1)
  <1>4. Pieces(A) /\ Tiles(A, "put")
    <2>1. /\ Scale(Bound(v[1]), m) + dx \in Int /\ Scale(v[2], m) + dy - 1 \in Int
          /\ Scale(Bound(v[1]), 4 - m) + dx \in Int
          /\ Scale(v[2], 4 - m) + dy + 1 \in Int
      BY <1>2, <1>3, Scales
    <2>2. 0 \in {0, 1} /\ 1 \in {0, 1} /\ 1 + 0 <= 1 /\ 0 + 0 <= 1
      OBVIOUS
    <2> QED BY <2>1, <2>2, <1>3, FieldsSound
  <1>5. Pieces(B) /\ Tiles(B, "avg")
    <2>1. 0 \in {0, 1} /\ 1 \in {0, 1} /\ 0 + 0 <= 1 /\ 0 + 1 <= 1
      OBVIOUS
    <2> QED BY <2>1, <1>2, <1>3, FieldsSound
  <1>6. calls' = A \cup B
    BY <1>1 DEF MotionDmv
  <1> HIDE DEF A, B
  <1>7. Sound(calls')
    BY <1>4, <1>5, <1>6, BothSound
  <1> QED BY <1>1, <1>2, <1>7 DEF Moves, FrDmv

LEMMA ReuseSound ==
  ASSUME PictureInv, Reuse
  PROVE  Moves
  <1>1. PICK op \in Ops : calls' = Motion(op, Own, pmv[1][1], pmv[1][2], 16, 0)
    BY DEF Reuse
  <1>2. pmv[1][1] \in Int /\ pmv[1][2] \in Int
    BY DEF PictureInv
  <1>3. Sound(calls')
    BY <1>1, <1>2, Parities, MotionSound, OneSound
  <1> QED BY <1>3 DEF Moves, Reuse, PictureInv

LEMMA ZeroSound ==
  ASSUME PictureInv, Zero
  PROVE  Moves
  <1>1. PICK op \in Ops : calls' = MotionZero(op, Own)
    BY DEF Zero
  <1>2. /\ Fits(vOffset, 16, Lines, 0, 0)
        /\ calls' = Predictions(op, Own, vOffset, 16, Lines, Own, Own, 0, 0)
    BY <1>1, Parities, ZeroPredicts
  <1>3. Valid(Own, vOffset, 16, Lines, Own, Own, 0, 0)
    <2>1. /\ vOffset \in Nat /\ vOffset % 16 = 0 /\ vOffset + 16 <= height
          /\ height \in Nat
      BY Sizes DEF PictureInv, height
    <2>2. /\ Lines \in {1, 2} /\ Own \in 0 .. Lines - 1
          /\ Height \div Lines = height /\ (Field => Lines = 2)
      BY Strides DEF Lines
    <2> QED BY <1>2, <2>1, <2>2 DEF Valid
  <1>4. Sound(calls')
    BY <1>2, <1>3, PredictionsPieces, FrameTiles, OneSound
  <1> QED BY <1>4 DEF Moves, Zero, ZeroVectors

LEMMA FiFieldSound ==
  ASSUME PictureInv, FiField
  PROVE  Moves
  <1>1. PICK v \in Vectors, op \in Ops, field \in {0, 1} :
          /\ pmv' = <<Bounded(v), Bounded(v)>>
          /\ calls' = Motion(op, field, Bounded(v)[1], Bounded(v)[2], 16, 0)
    BY DEF FiField
  <1>2. Bounded(v)[1] \in Int /\ Bounded(v)[2] \in Int /\ Bounded(v) \in Int \X Int
    BY VectorsInt DEF Bounded
  <1>3. field < Lines
    BY Parities DEF FiField
  <1>4. Sound(calls')
    BY <1>1, <1>2, <1>3, MotionSound, OneSound
  <1> QED BY <1>1, <1>2, <1>4 DEF Moves, FiField

LEMMA Fi16x8Sound ==
  ASSUME PictureInv, Fi16x8
  PROVE  Moves
  <1>1. PICK v \in Vectors, w \in Vectors, op \in Ops, field1 \in {0, 1},
             field2 \in {0, 1} :
          /\ pmv' = <<Bounded(v), Bounded(w)>>
          /\ calls' = Motion(op, field1, Bounded(v)[1], Bounded(v)[2], 8, 0) \cup
                      Motion(op, field2, Bounded(w)[1], Bounded(w)[2], 8, 8)
    BY DEF Fi16x8
  <1>2. /\ Bounded(v)[1] \in Int /\ Bounded(v)[2] \in Int /\ Bounded(v) \in Int \X Int
        /\ Bounded(w)[1] \in Int /\ Bounded(w)[2] \in Int /\ Bounded(w) \in Int \X Int
    BY VectorsInt DEF Bounded
  <1>3. Pieces(calls') /\ Tiles(calls', op)
    BY <1>1, <1>2, HalvesSound DEF Fi16x8
  <1>4. Sound(calls')
    BY <1>3, OneSound
  <1> QED BY <1>1, <1>2, <1>4 DEF Moves, Fi16x8

LEMMA FiDmvSound ==
  ASSUME PictureInv, FiDmv
  PROVE  Moves
  <1> DEFINE dmvOffset == IF structure = "bottom" THEN 1 ELSE -1
  <1>1. PICK v \in Vectors, dx \in Deltas, dy \in Deltas :
          /\ pmv' = <<Bounded(v), Bounded(v)>>
          /\ calls' =
               Motion("put", Own, Bounded(v)[1], Bounded(v)[2], 16, 0) \cup
               Motion("avg", 1 - Own, Scale(Bounded(v)[1], 1) + dx,
                      Scale(Bounded(v)[2], 1) + dy + dmvOffset, 16, 0)
    BY DEF FiDmv
  <1>2. Bounded(v)[1] \in Int /\ Bounded(v)[2] \in Int /\ Bounded(v) \in Int \X Int
    BY VectorsInt DEF Bounded
  <1>3. /\ Scale(Bounded(v)[1], 1) + dx \in Int
        /\ Scale(Bounded(v)[2], 1) + dy + dmvOffset \in Int
    <2>1. /\ Scale(Bounded(v)[1], 1) + dx \in Int
          /\ Scale(Bounded(v)[2], 1) + dy \in Int
      BY <1>2, Scales
    <2> QED BY <2>1
  <1>4. 1 - Own \in {0, 1} /\ 1 - Own < Lines /\ Own \in {0, 1} /\ Own < Lines
    BY Parities DEF FiDmv
  <1> HIDE DEF dmvOffset
  <1>5. Sound(calls')
    BY <1>1, <1>2, <1>3, <1>4, MotionSound, BothSound
  <1> QED BY <1>1, <1>2, <1>5 DEF Moves, FiDmv

LEMMA BlockRoutinesSound ==
  ASSUME PictureInv, Intra \/ Pattern
  PROVE  Moves
  <1>1. PICK op \in {"copy", "add"}, interlaced \in BOOLEAN :
          calls' = Blocks(op, interlaced) /\ (interlaced => ~Field)
    BY DEF Intra, Pattern
  <1>2. op \notin Ops
    BY DEF Ops
  <1>3. Sound(calls')
    BY <1>1, <1>2, BlocksSound
  <1> QED BY <1>3 DEF Moves, Intra, Pattern, PictureInv

-----------------------------------------------------------------------------
(* The properties stay true while the picture does.                        *)
LEMMA SamePicture ==
  ASSUME UNCHANGED picture
  PROVE  /\ Field' = Field /\ Own' = Own /\ height' = height
         /\ \A p : PlaneWidth(p)' = PlaneWidth(p) /\ PlaneRows(p)' = PlaneRows(p)
         /\ \A n : ChromaRows(n)' = ChromaRows(n)
  BY DEF picture, Field, Own, Parity, height, PlaneWidth, PlaneRows, ChromaRows

LEMMA SameCalls ==
  ASSUME UNCHANGED picture
  PROVE  /\ \A c : InsideCall(c)' <=> InsideCall(c)
         /\ \A c : Cells(c)' = Cells(c)
         /\ \A p : MacroblockCells(p)' = MacroblockCells(p)
         /\ \A c, l : FollowsCall(c, l)' <=> FollowsCall(c, l)
         /\ \A c, d : OtherField(c, d)' <=> OtherField(c, d)
  <1>1. \A c : InsideCall(c)' <=> InsideCall(c)
    BY SamePicture DEF InsideCall, Row, Column, Step
  <1>2. ASSUME NEW c PROVE Cells(c)' = Cells(c)
    BY SamePicture DEF Cells, Row, Column, Step
  <1>3. ASSUME NEW p PROVE MacroblockCells(p)' = MacroblockCells(p)
    BY SamePicture DEF MacroblockCells, picture
  <1>4. ASSUME NEW c PROVE Displacement(c)' = Displacement(c)
    BY SamePicture DEF Displacement, Row, Column, Step
  <1>5. ASSUME NEW c, NEW l PROVE FollowsCall(c, l)' <=> FollowsCall(c, l)
    BY <1>4, SamePicture DEF FollowsCall, picture
  <1>6. ASSUME NEW c, NEW d PROVE OtherField(c, d)' <=> OtherField(c, d)
    BY SamePicture DEF OtherField, Row
  <1> QED BY <1>1, <1>2, <1>3, <1>5, <1>6

LEMMA SoundStays ==
  ASSUME UNCHANGED picture, Sound(calls')
  PROVE  Sound(calls)'
  <1>1. \A c \in calls' : InsideCall(c)' /\ c.dest \in Int /\ c.ref \in Int
    BY SameCalls DEF Sound
  <1>2. ASSUME NEW op \in {c.op : c \in calls'}, NEW p \in 0 .. 2
        PROVE  Tile({c \in calls : c.op = op /\ c.plane = p}, p)'
    <2> DEFINE S == {c \in calls' : c.op = op /\ c.plane = p}
    <2>1. Tile(S, p)
      BY DEF Sound
    <2>2. UNION {Cells(c)' : c \in S} = UNION {Cells(c) : c \in S}
      BY SameCalls
    <2> QED BY <2>1, <2>2, SameCalls DEF Tile
  <1>3. \A c \in {a \in calls' : a.op \in Ops /\ a.plane # 0} :
          \E l \in {a \in calls' : a.op = c.op /\ a.plane = 0} : FollowsCall(c, l)'
    BY SameCalls DEF Sound
  <1>4. \A c, d \in calls' : OtherField(c, d)'
    BY SameCalls DEF Sound
  <1> QED BY <1>1, <1>2, <1>3, <1>4 DEF Sound

-----------------------------------------------------------------------------
LEMMA ZeroInt == ZeroVectors \in (Int \X Int) \X (Int \X Int)
  BY DEF ZeroVectors

(* The inductive invariant: the position and the vector are what the       *)
(* routines rely on, and the calls of the last one are sound.              *)
IInv == PictureInv /\ Sound(calls)

LEMMA InitIInv ==
  ASSUME Formats \subseteq {0, 1}, Init
  PROVE  IInv
  <1>1. height \in Nat /\ height >= 16 /\ Width \in Nat
    BY MacroblockAssumption DEF height, Init
  <1>2. offset \in 0 .. Width - 16 /\ offset % 16 = 0
    BY DEF Init
  <1>3. vOffset \in 0 .. height - 16 /\ vOffset % 16 = 0
    BY MacroblockAssumption DEF Init, height, Field
  <1>4. second \in BOOLEAN /\ (second => Field)
    BY Zenon DEF Init, Field
  <1>5. /\ format \in 0 .. 1 /\ format \in Formats /\ structure \in Structures
        /\ pmv \in (Int \X Int) \X (Int \X Int)
    BY ZeroInt DEF Init
  <1>6. Sound(calls)
    BY DEF Init, Sound
  <1> QED BY <1>2, <1>3, <1>4, <1>5, <1>6 DEF IInv, PictureInv

LEMMA StepIInv ==
  ASSUME IInv, [Next]_vars
  PROVE  IInv'
  <1>1. ASSUME Moves PROVE IInv'
    <2>1. PictureInv'
      BY <1>1, SamePicture DEF Moves, IInv, PictureInv, picture
    <2> QED BY <1>1, <2>1, SoundStays DEF Moves, IInv
  <1>2. CASE NextMacroblock
    <2>1. /\ Field' = Field /\ height' = height
          /\ offset \in 0 .. Width - 16 /\ offset % 16 = 0
          /\ Width \in Nat /\ Width % 16 = 0 /\ Width >= 16
      BY <1>2, Sizes DEF NextMacroblock, Field, height, IInv, PictureInv
    <2>2. offset' \in 0 .. Width - 16 /\ offset' % 16 = 0
      BY <1>2, <2>1 DEF NextMacroblock
    <2>3. pmv' \in (Int \X Int) \X (Int \X Int)
      BY <1>2, ZeroInt DEF NextMacroblock, IInv, PictureInv
    <2>4. second' \in BOOLEAN /\ (second' => Field')
      BY <1>2, <2>1 DEF NextMacroblock, IInv, PictureInv
    <2>5. /\ format' \in 0 .. 1 /\ format' \in Formats
          /\ structure' \in Structures
          /\ vOffset' \in 0 .. height' - 16 /\ vOffset' % 16 = 0
      BY <1>2, <2>1 DEF NextMacroblock, IInv, PictureInv
    <2>6. Sound(calls)'
      BY <1>2 DEF NextMacroblock, Sound
    <2> QED BY <2>2, <2>3, <2>4, <2>5, <2>6 DEF IInv, PictureInv
  <1>3. CASE FrFrame \/ FrField \/ FrDmv
    BY <1>1, <1>3, FrFrameSound, FrFieldSound, FrDmvSound DEF IInv
  <1>4. CASE Reuse \/ Zero
    BY <1>1, <1>4, ReuseSound, ZeroSound DEF IInv
  <1>5. CASE FiField \/ Fi16x8 \/ FiDmv
    BY <1>1, <1>5, FiFieldSound, Fi16x8Sound, FiDmvSound DEF IInv
  <1>6. CASE Intra \/ Pattern
    BY <1>1, <1>6, BlockRoutinesSound DEF IInv
  <1>7. CASE UNCHANGED vars
    <2>1. UNCHANGED picture /\ Sound(calls') /\ pmv' = pmv
      BY <1>7 DEF vars, IInv
    <2> QED BY <1>1, <2>1 DEF Moves, IInv, PictureInv
  <1> QED BY <1>2, <1>3, <1>4, <1>5, <1>6, <1>7 DEF Next

LEMMA SpecIInv ==
  ASSUME Formats \subseteq {0, 1}
  PROVE  Spec => []IInv
  BY InitIInv, StepIInv, PTL DEF Spec

-----------------------------------------------------------------------------
(* The position stays in the picture from macroblock to macroblock, and    *)
(* what the motion routines compute are numbers.                           *)
THEOREM MacroblockTypeCorrect ==
  ASSUME Formats \subseteq {0, 1}
  PROVE  Spec => []TypeOK
  <1>1. IInv => TypeOK
    BY DEF IInv, PictureInv, Sound, TypeOK
  <1> QED BY <1>1, SpecIInv, PTL

(* Whatever vectors the stream codes, in a picture of any size, of 4:2:0   *)
(* or 4:2:2, no prediction block of the motion_ functions leaves the       *)
(* reference plane: the clamping of pos_x and pos_y is enough.             *)
THEOREM PredictionsInside ==
  ASSUME Formats \subseteq {0, 1}
  PROVE  Spec => []ReadsInside
  <1>1. IInv => ReadsInside
    BY DEF IInv, Sound, ReadsInside, InsideCall
  <1> QED BY <1>1, SpecIInv, PTL

(* The predictions of one operation, and the blocks of one macroblock,     *)
(* cover the macroblock in each plane and nothing else, each part once.    *)
THEOREM MacroblockTiled ==
  ASSUME Formats \subseteq {0, 1}
  PROVE  Spec => []WritesTile
  <1>1. IInv => WritesTile
    BY DEF IInv, Sound, WritesTile, Tile
  <1> QED BY <1>1, SpecIInv, PTL

(* A chroma block is predicted with the luma vector, halved by truncation  *)
(* in each direction of fewer samples, from the same field and frame.      *)
THEOREM ChromaMoves ==
  ASSUME Formats \subseteq {0, 1}
  PROVE  Spec => []ChromaFollowsLuma
  <1>1. IInv => ChromaFollowsLuma
    BY DEF IInv, Sound, ChromaFollowsLuma, FollowsCall
  <1> QED BY <1>1, SpecIInv, PTL

(* A second field that is predicted from its own frame reads the lines of  *)
(* the first field, never those that it is writing.                        *)
THEOREM OtherFieldRead ==
  ASSUME Formats \subseteq {0, 1}
  PROVE  Spec => []ReadsOtherField
  <1>1. IInv => ReadsOtherField
    BY DEF IInv, Sound, ReadsOtherField, OtherField
  <1> QED BY <1>1, SpecIInv, PTL
=============================================================================
