-------------------------------- MODULE Slice --------------------------------
(***************************************************************************)
(* mpeg2_slice: one slice of a picture, parsed and reconstructed           *)
(* macroblock by macroblock.  The state is the part of mpeg2_decoder_s     *)
(* that lives from one macroblock to the next.  An action is the parsing   *)
(* of one syntax element with all that the code does on account of it; the *)
(* stream decides which code is found, so every code of a table may be.    *)
(*                                                                         *)
(* Positions count macroblocks: x is offset / 16, y is v_offset / 16.      *)
(* Coefficient values, predictions and pixels are left out (what the       *)
(* vectors address is in module Macroblock); of a block it is kept which   *)
(* coefficients may differ from zero, of a predictor whether it is reset.  *)
(***************************************************************************)
EXTENDS BitReader, VlcTables, Sequences, FiniteSets

CONSTANTS
  Width, Rows,     \* the picture, in macroblocks
  Pictures,        \* the kinds of pictures, records as in PictureKinds
  BlockSize,       \* the coefficients of a block, 64 in the code
  MaxRun,          \* the longest run in a code of the tables, 32 there
  Fx, Fy,          \* the values of f_code[0] and f_code[1]
  F1               \* the values of f_code[0] in MPEG-1 streams

PictureKinds ==
  [type : {"I", "P", "B", "D", "other"}, frame : BOOLEAN, framePred : BOOLEAN,
   conceal : BOOLEAN, mpeg1 : BOOLEAN, intraVlc : BOOLEAN, format : 0 .. 2,
   convert : BOOLEAN, tall : BOOLEAN]

(* The vectors of a valid MPEG-2 stream have f_code at most 9 and 5, those *)
(* of MPEG-1 at most 7; the decoder keeps them less one.                   *)
ASSUME SliceAssumption ==
  /\ Width \in Nat \ {0} /\ Rows \in Nat \ {0}
  /\ BlockSize \in Nat \ {0, 1} /\ MaxRun \in 1 .. BlockSize
  /\ Fx \subseteq 0 .. 8 /\ Fy \subseteq 0 .. 4 /\ F1 \subseteq 0 .. 6
  /\ Pictures \subseteq PictureKinds

VARIABLES
  pc,
  pic,         \* the picture the slice belongs to
  b,           \* bitstream_buf and bitstream_bits
  x, y, row,   \* offset, v_offset, and the row dest points to
  intra,       \* macroblock_modes & MACROBLOCK_INTRA
  todo,        \* the syntax elements of this macroblock still to come
  i,           \* i of get_*_block, 0 outside them
  filled,      \* the coefficients, in scan order, that may not be zero
  wrapped,     \* history: see BlockClear
  inc,         \* mba_inc, or the address increment of slice_init
  dc,          \* "reset", or "kept" from an earlier intra block
  fpmv, bpmv,  \* "zero", or "any" vectors
  saved,       \* mpeg2_cpu_state_save without its restore
  from,        \* history: the row of the first macroblock
  converted,   \* history: the rows passed to convert
  prev         \* history: the macroblock before this one

position == <<x, y, row, from, converted>>
predictors == <<dc, fpmv, bpmv>>
block == <<i, filled, wrapped>>
vars == <<pc, pic, b, position, intra, todo, block, inc, predictors, saved,
          prev>>

Init ==
  /\ pc = "idle" /\ pic \in Pictures /\ b = FirstBits
  /\ x = 0 /\ y = 0 /\ row = 0 /\ from = 0 /\ converted = {}
  /\ intra = FALSE /\ todo = <<>> /\ i = 0 /\ filled = {}
  /\ wrapped = FALSE /\ inc = 0
  /\ dc = "reset" /\ fpmv = "zero" /\ bpmv = "zero"
  /\ saved = FALSE /\ prev = "none"

Cap(n) == IF n < Width * Rows THEN n ELSE Width * Rows
SingleRow == pic.convert /\ pic.type = "B"

-----------------------------------------------------------------------------
(* slice_init                                                              *)

(* The slice start code names a row; tall pictures extend it.  Rows beyond *)
(* the picture are alike.                                                  *)
Start ==
  /\ pc = "idle"
  /\ pic' \in Pictures
  /\ y' \in 0 .. Rows
  /\ row' = IF pic'.convert /\ pic'.type = "B" THEN 0 ELSE y'
  /\ b' = Take(IF pic'.tall THEN Take(FirstBits, 3) ELSE FirstBits, 5)
  /\ dc' = "reset" /\ fpmv' = "zero" /\ bpmv' = "zero"
  /\ pc' = "info" /\ inc' = 0 /\ prev' = "none"
  /\ UNCHANGED <<x, from, converted, intra, todo, block, saved>>

ExtraInformation ==
  /\ pc = "info"
  /\ b' = NeedBits(Dump(Look(b, 1), 9))
  /\ UNCHANGED <<pc, pic, position, intra, todo, block, inc, predictors, saved,
                 prev>>

NoMoreInformation ==
  /\ pc = "info"
  /\ b' = Look(b, 1)
  /\ pc' = "first"
  /\ UNCHANGED <<pic, position, intra, todo, block, inc, predictors, saved, prev>>

(* Address increments: escapes add up, stuffing is passed over.            *)
FirstEscape ==
  /\ pc = "first"
  /\ inc' \in {inc, Cap(inc + 33)}
  /\ b' = NeedBits(Dump(Look(b, 12), 11))
  /\ UNCHANGED <<pc, pic, position, intra, todo, block, predictors, saved, prev>>

FirstError ==
  /\ pc = "first"
  /\ b' = Look(b, 12)
  /\ pc' = "idle"
  /\ UNCHANGED <<pic, position, intra, todo, block, inc, predictors, saved, prev>>

(* Mutant: the row of the first macroblock is tested before the increment  *)
(* is added to it.                                                         *)
FirstMacroblockUnchecked ==
  /\ pc = "first" /\ y < Rows
  /\ \E look \in {6, 12} : \E mba \in (IF look = 6 THEN MBA_5 ELSE MBA_11) :
       LET total == Cap(inc + mba[1])
           down == total \div Width
       IN /\ b' = Dump(Look(b, look), mba[2] + 1)
          /\ x' = total % Width /\ y' = y + down
          /\ row' = IF SingleRow THEN row ELSE row + down
  /\ pc' = "mb" /\ saved' = TRUE
  /\ from' = y' /\ converted' = {}
  /\ UNCHANGED <<pic, intra, todo, block, inc, predictors, prev>>

(* The first macroblock may be rows below the start code's; convert is     *)
(* not called for the rows passed over.  mpeg2_slice saves the state of    *)
(* the floating point unit only now.                                       *)
FirstMacroblock ==
  /\ pc = "first"
  /\ \E look \in {6, 12} : \E mba \in (IF look = 6 THEN MBA_5 ELSE MBA_11) :
       LET total == Cap(inc + mba[1])
           down == total \div Width
       IN /\ b' = Dump(Look(b, look), mba[2] + 1)
          /\ x' = total % Width /\ y' = y + down
          /\ row' = IF SingleRow THEN row ELSE row + down
  /\ IF y' < Rows
       THEN pc' = "mb" /\ saved' = TRUE
       ELSE pc' = "idle" /\ UNCHANGED saved
  /\ from' = y' /\ converted' = {}
  /\ UNCHANGED <<pic, intra, todo, block, inc, predictors, prev>>

-----------------------------------------------------------------------------
(* Mutant: a slice that fills the picture does not restore the state of    *)
(* the floating point unit.                                                *)
NextMacroblockKeepsState(next) ==
  IF x + 1 < Width
    THEN /\ x' = x + 1 /\ pc' = next
         /\ UNCHANGED <<y, row, from, converted, saved>>
    ELSE /\ converted' = IF pic.convert THEN converted \cup {y} ELSE converted
         /\ row' = IF SingleRow THEN row ELSE row + 1
         /\ y' = y + 1
         /\ IF y' < Rows THEN x' = 0 /\ pc' = next
                         ELSE x' = x + 1 /\ pc' = "idle"
         /\ UNCHANGED <<from, saved>>

(* Mutant: the position moves on before the row is converted.              *)
NextMacroblockConvertsBelow(next) ==
  IF x + 1 < Width
    THEN /\ x' = x + 1 /\ pc' = next
         /\ UNCHANGED <<y, row, from, converted, saved>>
    ELSE /\ y' = y + 1
         /\ converted' = IF pic.convert /\ y' < Rows THEN converted \cup {y'}
                                                     ELSE converted
         /\ row' = IF SingleRow THEN row ELSE row + 1
         /\ IF y' < Rows
              THEN x' = 0 /\ pc' = next /\ UNCHANGED saved
              ELSE x' = x + 1 /\ pc' = "idle" /\ saved' = FALSE
         /\ UNCHANGED from

(* NEXT_MACROBLOCK; the slice goes on at next unless the picture is full.  *)
NextMacroblock(next) ==
  IF x + 1 < Width
    THEN /\ x' = x + 1 /\ pc' = next
         /\ UNCHANGED <<y, row, from, converted, saved>>
    ELSE /\ converted' = IF pic.convert THEN converted \cup {y} ELSE converted
         /\ row' = IF SingleRow THEN row ELSE row + 1
         /\ y' = y + 1
         /\ IF y' < Rows
              THEN x' = 0 /\ pc' = next /\ UNCHANGED saved
              ELSE x' = x + 1 /\ pc' = "idle" /\ saved' = FALSE
         /\ UNCHANGED from

-----------------------------------------------------------------------------
(* get_macroblock_modes and get_quantizer_scale                            *)

(* The macroblock types of this picture.                                   *)
Types ==
  CASE pic.type = "I" -> MB_I
    [] pic.type = "P" -> MB_P
    [] pic.type = "B" -> MB_B
    [] pic.type = "D" -> {<<{"intra"}, 1>>}
    [] OTHER -> {<<{}, 0>>}
TypeLook ==
  CASE pic.type = "I" -> 1 [] pic.type = "P" -> 5 [] pic.type = "B" -> 6
    [] OTHER -> 0

(* The stream gives the motion type and the transform type.                *)
HasMotionType(m) ==
  \/ pic.type = "P" /\ "forward" \in m /\ ~(pic.frame /\ pic.framePred)
  \/ pic.type = "B" /\ "intra" \notin m /\ ~(pic.frame /\ pic.framePred)
HasTransformType(m) ==
  /\ pic.type \in {"I", "P", "B"} /\ pic.frame /\ ~pic.framePred
  /\ m \cap {"intra", "pattern"} # {}

(* The motion types: 0, MC_FIELD, MC_FRAME (or MC_16X8), MC_DMV.           *)
MotionTypes(m) ==
  IF HasMotionType(m) THEN 0 .. 3
  ELSE IF pic.frame /\ pic.framePred /\
          (pic.type = "B" \/ (pic.type = "P" /\ "forward" \in m)) THEN {2}
  ELSE {0}

AfterModes(m, len) ==
  LET t == Dump(Look(NeedBits(b), TypeLook), len)
      u == IF HasMotionType(m) THEN Take(t, 2) ELSE t
      v == IF HasTransformType(m) THEN Take(u, 1) ELSE u
  IN IF "quant" \in m THEN Take(v, 5) ELSE v

(* motion_parser: the vectors a routine reads.                             *)
Vectors(type) ==
  IF pic.mpeg1 THEN (IF type = 2 THEN <<"mp1", "mp1">> ELSE <<>>)
  ELSE IF pic.frame
    THEN <<<<"fx", "y", "fx", "y">>, <<"x", "y">>, <<"x", "dmv">>>>[type]
    ELSE <<<<"fx", "y">>, <<"fx", "y", "fx", "y">>, <<"x", "dmv">>>>[type]

Twice(s) == s \o s
IntraBlocks ==
  <<"luma", "luma", "luma", "luma">> \o
  CASE pic.format = 0 -> <<"chroma", "chroma">> \o
                         (IF pic.type = "D" THEN <<"marker">> ELSE <<>>)
    [] pic.format = 1 -> <<"chroma", "chroma", "chroma", "chroma">>
    [] pic.format = 2 -> Twice(<<"chroma", "chroma", "chroma", "chroma">>)

IntraMacroblock(m) ==
  /\ "intra" \in m
  /\ IF pic.conceal
       THEN /\ todo' = (IF pic.frame THEN <<"x", "ym">> ELSE <<"fx", "ym">>)
                       \o IntraBlocks
            /\ fpmv' = "any" /\ UNCHANGED bpmv
       ELSE todo' = IntraBlocks /\ fpmv' = "zero" /\ bpmv' = "zero"

(* MOTION_CALL, forward then backward.  A P macroblock always has forward  *)
(* prediction; motion_parser[0] resets the vectors, motion_dummy of MPEG-1 *)
(* leaves them.  The break marked Illegal in the source cannot be reached: *)
(* the motion type is two bits.                                            *)
MotionCalls(m, type) ==
  LET directions == IF pic.type = "P" THEN m \cup {"forward"} ELSE m
      After(pmv) == IF type = 0 THEN "zero"
                    ELSE IF Vectors(type) = <<>> THEN pmv ELSE "any"
      vectors == IF type = 0 THEN <<>> ELSE Vectors(type)
  IN /\ fpmv' = IF "forward" \in directions THEN After(fpmv) ELSE fpmv
     /\ bpmv' = IF "backward" \in directions THEN After(bpmv) ELSE bpmv
     /\ todo' = (IF "forward" \in directions THEN vectors ELSE <<>>) \o
                (IF "backward" \in directions THEN vectors ELSE <<>>) \o
                (IF "pattern" \in m THEN <<"cbp">> ELSE <<>>)

Modes ==
  /\ pc = "mb"
  /\ \E t \in Types : \E type \in MotionTypes(t[1]) :
       /\ b' = AfterModes(t[1], t[2])
       /\ intra' = ("intra" \in t[1])
       /\ \/ IntraMacroblock(t[1])
          \/ "intra" \notin t[1] /\ MotionCalls(t[1], type)
  /\ pc' = "parse"
  /\ UNCHANGED <<pic, position, block, inc, dc, saved, prev>>

-----------------------------------------------------------------------------
(* The syntax elements of a macroblock.  What an element does to the bit   *)
(* buffer, and the buffers it may leave, depending on the code found.      *)

(* get_motion_delta                                                        *)
Sign(c) == Shift(Look(c, 1), 1)
ShortDelta(c, len, f) ==
  Shift(Look(Sign(Shift(Count(Look(c, 6), len + f + 1), len)), f), f)
(* Mutant: the bits after a long code are read without a NEEDBITS.         *)
LongDeltaShort(c, len, f) ==
  LET s == Sign(Shift(Count(Look(c, 10), len + 1), len))
  IN IF f = 0 THEN s ELSE Take(s, f)

LongDelta(c, len, f) ==
  LET s == Sign(Shift(Count(Look(c, 10), len + 1), len))
  IN IF f = 0 THEN s ELSE Take(NeedBits(s), f)
Delta(c, fcodes) ==
  {Take(c, 1)} \cup {ShortDelta(c, len, f) : len \in MV_4, f \in fcodes}
               \cup {LongDelta(c, len, f) : len \in MV_10, f \in fcodes}

(* get_dmv                                                                 *)
Dmv(c) == {Dump(Look(c, 2), len) : len \in DMV_2}

(* get_luma_dc_dct_diff, get_chroma_dc_dct_diff: the chroma codes are one  *)
(* bit longer when the table is DC_long.                                   *)
ShortDC(c, size, len) ==
  IF size = 0 THEN Dump(Look(c, 5), len)
              ELSE Shift(Look(Shift(Count(Look(c, 5), len + size), len), size),
                         size)
LongDC(c, size, len, look) == Take(NeedBits(Dump(Look(c, look), len)), size)
DcDiff(c, table, extra) ==
  {ShortDC(c, d[1], d[2]) : d \in table} \cup
  {LongDC(c, d[1], d[2] + extra, 9 + extra) : d \in DC_long}

(* get_coded_block_pattern, and the bits 4:2:2 and 4:4:4 add to it         *)
Pattern(c) ==
  LET more == CASE pic.format = 0 -> 0 [] pic.format = 1 -> 2 [] OTHER -> 6
  IN {Take(Dump(Look(c, 7), len), more) : len \in CBP_7} \cup
     {Take(Dump(Look(c, 9), len), more) : len \in CBP_9}

(* Each element starts with a NEEDBITS.                                    *)
Element(e) ==
  LET c == NeedBits(b) IN
  CASE e = "x" -> Delta(c, Fx)
    [] e = "y" -> Delta(c, Fy)
    [] e = "fx" -> Delta(Take(c, 1), Fx)
    [] e = "mp1" -> Delta(c, F1)
    [] e = "ym" -> {Dump(d, 1) : d \in Delta(c, Fy)}
    [] e = "dmv" -> UNION {Dmv(d) : d \in UNION {Delta(a, Fy) : a \in Dmv(c)}}
    [] e = "cbp" -> Pattern(c)
    [] e = "luma" -> DcDiff(c, DC_lum_5, 0)
    [] e = "chroma" -> DcDiff(c, DC_chrom_5, 1)
    [] e = "marker" -> {Dump(c, 1)}
    [] e = "block" -> {c}

(* motion_* (without the prediction), motion_*_conceal, the pattern, and   *)
(* the marker of a D picture.  The pattern says which blocks are coded.    *)
MaxBlocks == CASE pic.format = 0 -> 6 [] pic.format = 1 -> 8 [] OTHER -> 12
Plain ==
  /\ pc = "parse" /\ todo # <<>>
  /\ Head(todo) \notin {"luma", "chroma", "block"}
  /\ b' \in Element(Head(todo))
  /\ IF Head(todo) = "cbp"
       THEN \E n \in 0 .. MaxBlocks : todo' = [k \in 1 .. n |-> "block"]
       ELSE todo' = Tail(todo)
  /\ UNCHANGED <<pc, pic, position, intra, block, inc, predictors, saved, prev>>

(* slice_intra_DCT up to the coefficients.  A D picture of MPEG-1 has none *)
(* and the block is transformed and cleared at once (mpeg2_idct_copy).     *)
IntraBlock ==
  /\ pc = "parse" /\ todo # <<>> /\ Head(todo) \in {"luma", "chroma"}
  /\ todo' = Tail(todo)
  /\ dc' = "kept"
  /\ IF pic.mpeg1 /\ pic.type = "D"
       THEN /\ b' \in Element(Head(todo)) /\ filled' = {} /\ wrapped' = FALSE
            /\ UNCHANGED <<pc, i>>
       ELSE /\ b' \in {NeedBits(d) : d \in Element(Head(todo))}
            /\ filled' = filled \cup {0}
            /\ i' = 0 /\ pc' = "coef" /\ UNCHANGED wrapped
  /\ UNCHANGED <<pic, position, intra, inc, fpmv, bpmv, saved, prev>>

(* slice_non_intra_DCT up to the coefficients                              *)
NonIntraBlock ==
  /\ pc = "parse" /\ todo # <<>> /\ Head(todo) = "block"
  /\ todo' = Tail(todo)
  /\ b' \in Element("block")
  /\ i' = -1 /\ pc' = "coef"
  /\ UNCHANGED <<pic, position, intra, filled, wrapped, inc, predictors, saved,
                 prev>>

-----------------------------------------------------------------------------
(* get_intra_block_B14, get_intra_block_B15, get_non_intra_block,          *)
(* get_mpeg1_intra_block, get_mpeg1_non_intra_block                        *)
B15 == intra /\ pic.intraVlc /\ ~pic.mpeg1

(* The codes for a run and a level: the bits that find the code, and its   *)
(* length.  The first coefficient of a non-intra block has its own table,  *)
(* without an end of block.                                                *)
Codes ==
  ({13} \X DCT_13) \cup ({15} \X DCT_15) \cup ({16} \X DCT_16) \cup
  IF B15 THEN ({8} \X DCT_B15_8) \cup ({10} \X DCT_B15_10)
  ELSE ({8} \X DCT_B14_8) \cup ({10} \X DCT_B14_10) \cup
       ({5} \X (IF i = -1 THEN DCT_B14DC_5 ELSE DCT_B14AC_5))

(* The 16 bits of the longest codes are used up before the code is known.  *)
Find(look) ==
  IF look = 16 THEN GetWord(Shift(Look(b, 16), 16), b.bits + 16)
               ELSE Look(b, look)

(* mpeg2_idct_copy clears the block; mpeg2_idct_add clears all of it, or   *)
(* only the first and the last coefficient if last says the others are     *)
(* zero and the first is not too close to half a level.  MPEG-2 sets the   *)
(* last coefficient against mismatch.                                      *)
OnlyFirst == 2 * BlockSize + 1
(* Mutant: last is compared like the index of a coefficient.               *)
EndBlockEarly(last) ==
  LET set == IF pic.mpeg1 THEN filled ELSE filled \cup {BlockSize - 1}
  IN /\ filled' \in IF intra \/ last > OnlyFirst
                     THEN {{}} ELSE {{}, set \ {0, BlockSize - 1}}
     /\ wrapped' = (wrapped /\ filled' # {})
     /\ i' = 0
     /\ pc' = "parse"

EndBlock(last) ==
  LET set == IF pic.mpeg1 THEN filled ELSE filled \cup {BlockSize - 1}
  IN /\ filled' \in IF intra \/ last # OnlyFirst
                     THEN {{}} ELSE {{}, set \ {0, BlockSize - 1}}
     /\ wrapped' = (wrapped /\ filled' # {})
     /\ i' = 0
     /\ pc' = "parse"

(* A code of DCT_B14_8 or DCT_B15_8 whose run leaves the block is taken as *)
(* an escape code, which is the entry with the longest run there: the six  *)
(* bits after the first six are added, a whole block is taken off.  If the *)
(* result is in the block, a level follows and the parsing goes on there:  *)
(* an escape code leads ahead, any other code ahead or back.               *)
FallThrough(run, len) ==
  \E u \in 0 .. BlockSize - 1 :
    LET c == Look(Look(b, 8), 12)
        j == i + run + u - BlockSize
        Level == LET d == NeedBits(Dump(c, 12)) IN
                 IF pic.mpeg1 THEN {Dump(Look(d, 8), 8),
                                    Dump(Look(Dump(Look(d, 8), 8), 8), 8)}
                              ELSE {Dump(Look(d, 12), 12)}
    IN IF j < BlockSize
         THEN /\ i' = j /\ filled' = filled \cup {j}
              /\ wrapped' = (wrapped \/ (i > 0 /\ j = 0))
              /\ b' \in {NeedBits(d) : d \in Level}
              /\ UNCHANGED pc
         ELSE EndBlock(j) /\ b' = Dump(c, len)

(* In the other tables a code whose run leaves the block ends it.          *)
Coefficient ==
  /\ pc = "coef"
  /\ \E code \in Codes, run \in 1 .. MaxRun :
       LET c == Find(code[1]) IN
       \/ /\ i + run < BlockSize
          /\ i' = i + run /\ filled' = filled \cup {i + run}
          /\ b' = NeedBits(Sign(Count(Shift(c, code[2]), code[2] + 1)))
          /\ UNCHANGED <<pc, wrapped>>
       \/ /\ i + run >= BlockSize /\ code[1] # 8
          /\ EndBlock(i + run) /\ b' = Dump(c, code[2])
       \/ /\ i + run >= BlockSize /\ code[1] = 8
          /\ FallThrough(run, code[2])
  /\ UNCHANGED <<pic, position, intra, todo, inc, predictors, saved, prev>>

Escape ==
  /\ pc = "coef"
  /\ FallThrough(BlockSize + 1, EscapeLength)
  /\ UNCHANGED <<pic, position, intra, todo, inc, predictors, saved, prev>>

(* The end of block code is a code whose run leads far out of the block.   *)
(* In table B15 it passes through the test for an escape.                  *)
EndOfBlock ==
  /\ pc = "coef" /\ i >= 0
  /\ IF B15
       THEN FallThrough(OnlyFirst, EndLength_B15)
       ELSE EndBlock(i + OnlyFirst) /\ b' = Dump(Look(b, 5), EndLength_B14)
  /\ UNCHANGED <<pic, position, intra, todo, inc, predictors, saved, prev>>

(* Sixteen bits that are no code end the block like an end of block code.  *)
Illegal ==
  /\ pc = "coef"
  /\ EndBlock(i + OnlyFirst) /\ b' = Find(16)
  /\ UNCHANGED <<pic, position, intra, todo, inc, predictors, saved, prev>>

-----------------------------------------------------------------------------
(* Between two macroblocks                                                 *)
MacroblockDone ==
  /\ pc = "parse" /\ todo = <<>>
  /\ dc' = IF intra THEN dc ELSE "reset"
  /\ prev' = IF intra THEN "intra" ELSE "inter"
  /\ NextMacroblock("next")
  /\ b' = IF pc' = "idle" THEN b ELSE NeedBits(b)
  /\ inc' = 0
  /\ UNCHANGED <<pic, intra, todo, block, fpmv, bpmv>>

NextEscape ==
  /\ pc = "next"
  /\ inc' \in {inc, Cap(inc + 33)}
  /\ b' = NeedBits(Dump(Look(b, 11), 11))
  /\ UNCHANGED <<pc, pic, position, intra, todo, block, predictors, saved, prev>>

EndOfSlice ==
  /\ pc = "next"
  /\ b' = Look(b, 11)
  /\ pc' = "idle" /\ saved' = FALSE
  /\ UNCHANGED <<pic, position, intra, todo, block, inc, predictors, prev>>

(* Mutant: skipped macroblocks leave the DC predictors.                    *)
NextIncrementKeepsDC ==
  /\ pc = "next"
  /\ \E look \in {5, 11} : \E mba \in (IF look = 5 THEN MBA_5 ELSE MBA_11) :
       /\ b' = Dump(Look(b, look), mba[2])
       /\ inc' = Cap(inc + mba[1])
  /\ pc' = IF inc' = 0 THEN "mb" ELSE "skip"
  /\ UNCHANGED <<pic, position, intra, todo, block, predictors, saved, prev>>

NextIncrement ==
  /\ pc = "next"
  /\ \E look \in {5, 11} : \E mba \in (IF look = 5 THEN MBA_5 ELSE MBA_11) :
       /\ b' = Dump(Look(b, look), mba[2])
       /\ inc' = Cap(inc + mba[1])
  /\ IF inc' = 0 THEN pc' = "mb" /\ UNCHANGED dc
                 ELSE pc' = "skip" /\ dc' = "reset"
  /\ UNCHANGED <<pic, position, intra, todo, block, fpmv, bpmv, saved, prev>>

(* A skipped macroblock: in a P picture predicted without a vector, else   *)
(* with the vectors and in the directions of the one before.               *)
SkippedMacroblock ==
  /\ pc = "skip"
  /\ inc' = inc - 1 /\ prev' = "skipped"
  /\ fpmv' = IF pic.type = "P" THEN "zero" ELSE fpmv
  /\ NextMacroblock(IF inc' = 0 THEN "mb" ELSE "skip")
  /\ UNCHANGED <<pic, b, intra, todo, block, dc, bpmv>>

Next ==
  \/ Start \/ ExtraInformation \/ NoMoreInformation
  \/ FirstEscape \/ FirstError \/ FirstMacroblock
  \/ Modes \/ Plain \/ IntraBlock \/ NonIntraBlock
  \/ Coefficient \/ Escape \/ EndOfBlock \/ Illegal
  \/ MacroblockDone \/ NextEscape \/ EndOfSlice \/ NextIncrement
  \/ SkippedMacroblock

Spec == Init /\ [][Next]_vars

-----------------------------------------------------------------------------
TypeOK ==
  /\ pc \in {"idle", "info", "first", "mb", "parse", "coef", "next", "skip"}
  /\ pic \in Pictures
  /\ b \in [bits : Int, valid : Int, ok : BOOLEAN]
  /\ x \in 0 .. Width /\ y \in Nat /\ row \in Nat /\ from \in Nat
  /\ converted \subseteq 0 .. Rows - 1
  /\ intra \in BOOLEAN
  /\ todo \in Seq({"x", "y", "fx", "ym", "mp1", "dmv", "cbp", "luma",
                   "chroma", "marker", "block"})
  /\ i \in -1 .. BlockSize - 1 /\ filled \subseteq 0 .. BlockSize - 1
  /\ wrapped \in BOOLEAN
  /\ inc \in 0 .. Width * Rows
  /\ dc \in {"reset", "kept"}
  /\ fpmv \in {"zero", "any"} /\ bpmv \in {"zero", "any"}
  /\ saved \in BOOLEAN /\ prev \in {"none", "intra", "inter", "skipped"}

(* slice.c refills the bit buffer at hand-placed NEEDBITS only, and checks *)
(* nothing: every bit it looks at has been read from the stream, and every *)
(* word is put right behind the bits already there, whatever codes a valid *)
(* stream combines.                                                        *)
BitsInOrder == b.ok

(* DCTblock is never cleared before it is filled: the transforms leave it  *)
(* zero, also where mpeg2_idct_add takes the short cut for blocks of which *)
(* last says that only the first coefficient was set.  One thing deceives  *)
(* last, and the code does not guard against it: a run out of the block    *)
(* that leads back to the first coefficient (see FallThrough).  wrapped is *)
(* kept from there until a block is cleared whole, and used nowhere else.  *)
BlockClear == pc # "coef" /\ ~wrapped => filled = {}

(* A macroblock is decoded or skipped inside the picture only, whatever    *)
(* the increments and the row in the start code add up to, and dest has    *)
(* moved with it (or stays, where the output buffer is one row high).      *)
InsidePicture ==
  /\ saved => x < Width /\ y < Rows
  /\ pc \notin {"idle", "info", "first"} => row = IF SingleRow THEN 0 ELSE y

(* A macroblock is predicted from what the standard says: DC values only   *)
(* from an intra macroblock right before it, vectors not from before an    *)
(* intra macroblock without vectors or a skipped one of a P picture.       *)
PredictorsReset ==
  pc = "mb" =>
    /\ prev # "intra" => dc = "reset"
    /\ prev = "intra" /\ ~pic.conceal => fpmv = "zero" /\ bpmv = "zero"
    /\ prev = "skipped" /\ pic.type = "P" => fpmv = "zero"
    /\ prev = "none" => fpmv = "zero" /\ bpmv = "zero"

(* mpeg2_slice leaves the state of the floating point unit as it was, on   *)
(* each of its ways out.                                                   *)
CpuStateRestored == saved <=> pc \notin {"idle", "info", "first"}

(* With an output conversion, a row is converted when its last macroblock  *)
(* is done, before the slice goes on below it, and no other row is.        *)
RowsConverted ==
  saved /\ pic.convert => converted = from .. y - 1
=============================================================================
