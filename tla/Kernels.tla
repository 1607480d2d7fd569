------------------------------- MODULE Kernels -------------------------------
(***************************************************************************)
(* A call of a motion compensation function, for any processor.  All of    *)
(* them must compute what the functions in C compute; they differ in how   *)
(* far ahead they load rows, in which registers, and in the arithmetic.    *)
(*                                                                         *)
(* An action is the prologue, one turn of the loop or the epilogue of the  *)
(* function.  What is stored in a row is kept as the expression it was     *)
(* computed by, over the samples of the block.  It is one of the means of  *)
(* KernelMeans, and its value for samples out of Values is compared with   *)
(* the C function's.                                                       *)
(***************************************************************************)
EXTENDS KernelMeans, VisKernels, AltivecKernels, MmxKernels, ScalarKernels, TLC
LOCAL INSTANCE SequencesExt

CONSTANTS
  Processors,   \* whose functions are called
  Heights,      \* of blocks
  Alignments,   \* of the block: its address, modulo 16
  Values        \* of samples

ASSUME KernelsAssumption ==
  /\ Processors \subseteq {"c", "mmx", "mmxext", "3dnow", "altivec", "alpha",
                            "vis", "arm"}
  /\ Heights \subseteq {4, 8, 16}
  /\ Alignments \subseteq 0 .. 15 /\ Values \subseteq 0 .. 255

VARIABLES
  call,     \* the function and its arguments
  pc,
  left,     \* height, as the loop counts it down
  regs,     \* registers
  ref, dest,   \* the rows the pointers are at
  gsr,      \* the alignment VIS shifts by
  step,     \* line_size of Alpha, 1 or 0
  out,      \* the rows stored
  reads     \* history: rows loaded, and where the last word or sample is

machine == <<regs, ref, dest, gsr, step, out, reads>>
vars == <<call, pc, left, machine>>

-----------------------------------------------------------------------------
(* mpeg2_mc_t: functions for blocks sixteen wide, then eight wide, in the  *)
(* order o, x, y, xy.                                                      *)
MPEG2_MC_EXTERN(put16, put8, avg16, avg8) ==
  [put |-> put16 \o put8, avg |-> avg16 \o avg8]

mpeg2_mc_c ==
  LET puts == <<put(predict_o), put(predict_x), put(predict_y), put(predict_xy)>>
      avgs == <<avg(predict_o), avg(predict_x), avg(predict_y), avg(predict_xy)>>
  IN MPEG2_MC_EXTERN(puts, puts, avgs, avgs)

mpeg2_mc_arm ==
  LET puts == <<MC_put_o_arm, MC_put_x_arm, put(predict_y), put(predict_xy)>>
  IN [mpeg2_mc_c EXCEPT !.put = puts \o puts]

mpeg2_mc_mmx ==
  LET puts == <<MC_put_mmx, MC_put_x_mmx, MC_put_y_mmx, MC_put_xy_mmx>>
      avgs == <<MC_avg_mmx, MC_avg_x_mmx, MC_avg_y_mmx, MC_avg_xy_mmx>>
  IN MPEG2_MC_EXTERN(puts, puts, avgs, avgs)

mpeg2_mc_mmxext ==
  LET puts == <<MC_put1, MC_put2(Row(0, 1)), MC_put2(Row(1, 0))>>
      avgs == <<MC_avg1, MC_avg2(Row(0, 1)), MC_avg2(Row(1, 0))>>
  IN MPEG2_MC_EXTERN(Append(puts, MC_put4_16), Append(puts, MC_put4_8),
                     Append(avgs, MC_avg4_16), Append(avgs, MC_avg4_8))

(* The same functions, with the instruction pavgusb                        *)
mpeg2_mc_3dnow == mpeg2_mc_mmxext

mpeg2_mc_alpha ==
  LET Ops(back) == <<OP16(back), OP16_X2(back), OP16_Y2(back), OP16_XY2(back)>>
  IN MPEG2_MC_EXTERN(Ops(FALSE), Ops(FALSE), Ops(TRUE), Ops(TRUE))

mpeg2_mc_vis ==
  MPEG2_MC_EXTERN(
    <<MC_put_o_16_vis, MC_put_x_16_vis, MC_put_y_16_vis, MC_put_xy_16_vis>>,
    <<MC_put_o_8_vis, MC_put_x_8_vis, MC_put_y_8_vis, MC_put_xy_8_vis>>,
    <<MC_avg_o_16_vis, MC_avg_x_16_vis, MC_avg_y_16_vis, MC_avg_xy_16_vis>>,
    <<MC_avg_o_8_vis, MC_avg_x_8_vis, MC_avg_y_8_vis, MC_avg_xy_8_vis>>)

mpeg2_mc_altivec ==
  MPEG2_MC_EXTERN(
    <<MC_put_o_16_altivec, MC_put_x_16_altivec, MC_put_y_16_altivec,
      MC_put_xy_16_altivec>>,
    <<MC_put_o_8_altivec, MC_put_x_8_altivec, MC_put_y_8_altivec,
      MC_put_xy_8_altivec>>,
    <<MC_avg_o_16_altivec, MC_avg_x_16_altivec, MC_avg_y_16_altivec,
      MC_avg_xy_16_altivec>>,
    <<MC_avg_o_8_altivec, MC_avg_x_8_altivec, MC_avg_y_8_altivec,
      MC_avg_xy_8_altivec>>)

mpeg2_mc ==
  [c |-> mpeg2_mc_c, arm |-> mpeg2_mc_arm, mmx |-> mpeg2_mc_mmx,
   mmxext |-> mpeg2_mc_mmxext, 3dnow |-> mpeg2_mc_3dnow,
   alpha |-> mpeg2_mc_alpha, vis |-> mpeg2_mc_vis, altivec |-> mpeg2_mc_altivec]

(* slice.c: table[xy_half], table[4 + xy_half]                             *)
Function ==
  mpeg2_mc[call.arch][call.op]
    [1 + call.halfX + 2 * call.halfY + (IF call.width = 8 THEN 4 ELSE 0)]

-----------------------------------------------------------------------------
(* Alignment matters where words are loaded.  A row of a plane is a        *)
(* multiple of 8 bytes long, so that in Altivec's words of 16 the rows of  *)
(* chroma blocks may alternate.                                            *)
WordSize == IF call.arch = "altivec" THEN 16 ELSE 8
Off(row) == (call.align + (IF row % 2 = 1 THEN call.skew ELSE 0)) % WordSize

Calls ==
  {c \in [arch : Processors, op : {"put", "avg"}, width : {8, 16},
          halfX : {0, 1}, halfY : {0, 1}, height : Heights,
          align : Alignments, skew : {0, 8}] :
     /\ c.arch \in {"vis", "altivec"} \/ c.align = 0
     /\ c.arch = "vis" => c.align < 8
     /\ c.skew = 8 => c.arch = "altivec" /\ c.width = 8}

(* Every function starts with the alignment of ref: alignaddr, lvsl.       *)
Init ==
  /\ call \in Calls
  /\ pc = "called" /\ left = 0
  /\ regs = [r \in {"A", "B", "C", "D", "E", "M", "N", "P", "X", "Y"} |-> Junk]
  /\ ref = 0 /\ dest = 0 /\ gsr = Off(0) /\ step = 1
  /\ out = <<>> /\ reads = {}

(* The last sample of a row that the words loaded for it reach to.         *)
Reach(row, e) ==
  IF e.f = "words"
    THEN call.width - 1 +
         (IF e.p[2] \/ Off(row) # 0 THEN 8 - Off(row) ELSE 0)
    ELSE WordSize * ((Off(row) + e.p[2]) \div WordSize) + WordSize - 1 - Off(row)

(* Taking the row from sample column on out of its words                   *)
Extract(words, column) ==
  IF words.f = "loaded" /\ column >= 0 /\ column + call.width - 1 <= words.p[2]
    THEN Node("ref", <<words.p[1], column>>, <<>>) ELSE Junk

(* What an expression stands for in state s                                *)
RECURSIVE Resolve(_, _)
Resolve(e, s) ==
  LET a == [n \in DOMAIN e.a |-> Resolve(e.a[n], s)]
      row == s.ref + e.p[1]
  IN CASE e.f = "reg" -> s.regs[e.p]
       [] e.f = "row" -> Node("ref", <<s.ref + e.p[1], e.p[2]>>, <<>>)
       [] e.f \in {"words", "vectors"} ->
            Node("loaded", <<row, Reach(row, e)>>, <<>>)
       [] e.f = "old" -> IF s.dest + e.p \in DOMAIN s.out
                           THEN s.out[s.dest + e.p]
                           ELSE Node("dest", <<s.dest + e.p>>, <<>>)
       [] e.f = "align" -> Extract(a[1], s.gsr - Off(0))
       [] e.f = "alignnext" ->
            Extract(a[1], IF Off(0) = 7 THEN 1 ELSE s.gsr - Off(0))
       [] e.f = "perm" /\ a[1].f = "loaded" ->
            Extract(a[1], Off(e.p[1]) + e.p[2] - Off(a[1].p[1]))
       [] e.f = "perm" /\ a[1].f # "loaded" -> Junk
       [] OTHER -> [e EXCEPT !.a = a]

RECURSIVE Loaded(_, _)
Loaded(e, s) ==
  LET row == s.ref + e.p[1] IN
  CASE e.f = "row" -> {<<row, e.p[2] + call.width - 1>>}
    [] e.f \in {"words", "vectors"} -> {<<row, Reach(row, e) - WordSize + 1>>}
    [] OTHER -> UNION {Loaded(e.a[n], s) : n \in DOMAIN e.a}

Exec(s, i) ==
  CASE i.op = "set" -> [s EXCEPT !.regs[i.k] = Resolve(i.e, s),
                                 !.reads = @ \cup Loaded(i.e, s)]
    [] i.op = "store" -> [s EXCEPT !.out = (s.dest + i.k :> Resolve(i.e, s)) @@ @,
                                   !.reads = @ \cup Loaded(i.e, s)]
    [] i.op = "ref" -> [s EXCEPT !.ref = @ + s.step]
    [] i.op = "dest" -> [s EXCEPT !.dest = @ + s.step]
    [] i.op = "gsr" -> [s EXCEPT !.gsr = IF i.k = 1 /\ Off(0) = 7
                                           THEN @ ELSE Off(0) + i.k]
    [] i.op = "last" -> [s EXCEPT !.step = IF s.left = 1 THEN 0 ELSE 1]

Run(program) ==
  LET s == FoldLeft(Exec, [regs |-> regs, ref |-> ref, dest |-> dest,
                           gsr |-> gsr, step |-> step, out |-> out,
                           reads |-> reads, left |-> left], program)
  IN /\ regs' = s.regs /\ ref' = s.ref /\ dest' = s.dest /\ gsr' = s.gsr
     /\ step' = s.step /\ out' = s.out /\ reads' = s.reads

Prologue ==
  /\ pc = "called"
  /\ Run(Function.prologue)
  /\ left' = call.height \div 2 ^ Function.shift - Function.less
  /\ pc' = "loop"
  /\ UNCHANGED call

Iterate ==
  /\ pc = "loop"
  /\ Run(Function.body)
  /\ left' = left - 1
  /\ pc' = IF left' # 0 THEN "loop" ELSE "end"
  /\ UNCHANGED call

Epilogue ==
  /\ pc = "end"
  /\ Run(Function.epilogue)
  /\ pc' = "done"
  /\ UNCHANGED <<call, left>>

Next == Prologue \/ Iterate \/ Epilogue

Spec == Init /\ [][Next]_vars

-----------------------------------------------------------------------------
(* The samples an expression is computed from                              *)
RECURSIVE Samples(_)
Samples(e) ==
  IF e.a = <<>> THEN {<<e.f, e.p>>}
  ELSE UNION {Samples(e.a[n]) : n \in DOMAIN e.a}

(* Its value                                                               *)
RECURSIVE Value(_, _)
Value(e, v) == Apply(e, [n \in DOMAIN e.a |-> Value(e.a[n], v)], v)

-----------------------------------------------------------------------------
TypeOK ==
  /\ call \in Calls /\ pc \in {"called", "loop", "end", "done"}
  /\ left \in 0 .. 16 /\ ref \in 0 .. 17 /\ dest \in 0 .. 16
  /\ gsr \in 0 .. 15 /\ step \in {0, 1}
  /\ DOMAIN out \subseteq 0 .. 15

(* However rows are loaded ahead and registers used again, each row of the *)
(* block is stored, and no other, each from the samples of its own row of  *)
(* the reference (and the next, and the next column) and of dest as it was *)
(* before.                                                                 *)
RowsPredicted ==
  pc = "done" =>
    /\ DOMAIN out = 0 .. call.height - 1
    /\ \A row \in DOMAIN out :
         Samples(out[row]) = Sources(call.op, call.halfX, call.halfY, row)

(* The arithmetic of every processor rounds like the C functions do: it   *)
(* is one of the means of KernelMeans, and that is the C function's for    *)
(* these values (and, by EveryFormRounds, for all others).                 *)
RoundsLikeC ==
  pc = "done" =>
    \A row \in DOMAIN out :
      /\ out[row] \in Forms(call.op, call.halfX, call.halfY, row)
      /\ \A v \in [Samples(out[row]) -> Values] :
           Value(out[row], v) = Predicted(call.op, call.halfX, call.halfY, row, v)

(* No row is loaded beyond those that are needed, and no word that holds   *)
(* none of the samples: it may be outside the picture buffer.              *)
ReadsBlock ==
  \A r \in reads :
    r[1] \in 0 .. call.height - 1 + call.halfY /\
    r[2] <= call.width - 1 + call.halfX
=============================================================================
