----------------------------- MODULE MmxKernels -----------------------------
(***************************************************************************)
(* motion_comp_mmx.c: the functions for MMX, and those that MMXEXT and     *)
(* 3DNow! share but for the name of the instruction that takes a mean.     *)
(* Both load eight samples from any address; functions for blocks sixteen  *)
(* samples wide do so twice.                                               *)
(***************************************************************************)
EXTENDS KernelOps

Step(e) == Loop(<<Store(0, e), NextDest, NextRef>>)

(* mmx_average_2_U8, mmx_interp_average_2_U8                               *)
mmx_average_2_U8(a, b) == OrAvg(a, b)
mmx_interp_average_2_U8(dest, a, b) == OrAvg(OrAvg(a, b), dest)
(* mmx_average_4_U8, mmx_interp_average_4_U8: in words of sixteen bits     *)
mmx_average_4_U8(a, b, c, d) == Pack(Sum(16, <<a, b, c, d>>), 2, 2)
mmx_interp_average_4_U8(dest, a, b, c, d) ==
  OrAvg(Pack(Sum(16, <<a, b, c, d>>), 2, 2), dest)

MC_put_mmx == Step(Row(0, 0))
MC_avg_mmx == Step(mmx_average_2_U8(Dest(0), Row(0, 0)))
MC_put_x_mmx == Step(mmx_average_2_U8(Row(0, 0), Row(0, 1)))
MC_avg_x_mmx == Step(mmx_interp_average_2_U8(Dest(0), Row(0, 0), Row(0, 1)))
MC_put_y_mmx == Step(mmx_average_2_U8(Row(0, 0), Row(1, 0)))
MC_avg_y_mmx == Step(mmx_interp_average_2_U8(Dest(0), Row(0, 0), Row(1, 0)))
MC_put_xy_mmx ==
  Step(mmx_average_4_U8(Row(0, 0), Row(0, 1), Row(1, 0), Row(1, 1)))
MC_avg_xy_mmx ==
  Step(mmx_interp_average_4_U8(Dest(0), Row(0, 0), Row(0, 1), Row(1, 0),
                               Row(1, 1)))

-----------------------------------------------------------------------------
(* MMXEXT and 3DNow!; offset is 1 sample (x) or a row (y).                 *)
Ext(e) == Loop(<<Set(A, e), NextRef, Store(0, A), NextDest>>)

MC_put1 == Ext(Row(0, 0))
MC_avg1 == Ext(Avg(Row(0, 0), Dest(0)))
MC_put2(offset) == Ext(Avg(Row(0, 0), offset))
MC_avg2(offset) == Ext(Avg(Avg(Row(0, 0), offset), Dest(0)))

(* Means of the two diagonals, and their mean                              *)
Diagonals ==
  <<Set(A, Row(0, 0)), Set(B, Row(1, 1)), Set(X, Differ(A, B)),
    Set(C, Row(0, 1)), Set(D, Row(1, 0)), Set(Y, Differ(C, D)),
    Set(A, Avg(A, B)), Set(C, Avg(C, D)), Set(A, Corrected(A, C, X, Y))>>

MC_put4_16 == Loop(Diagonals \o <<NextRef, Store(0, A), NextDest>>)
MC_avg4_16 ==
  Loop(Diagonals \o
       <<Set(B, Dest(0)), Set(A, Avg(A, B)), NextRef, Store(0, A), NextDest>>)
MC_avg4_8 == MC_avg4_16

(* Means of rows, each used for two rows of the result.  A: mm0, the mean  *)
(* of the row above, X: mm7, its differences; B: mm2, Y: mm6.              *)
MC_put4_8 ==
  Program(
    <<Set(A, Row(0, 0)), Set(B, Row(0, 1)), Set(X, Differ(A, B)),
      Set(A, Avg(A, B)), NextRef>>,
    0, 0,
    <<Set(B, Row(0, 0)), Set(C, Row(0, 1)), Set(Y, Differ(B, C)),
      Set(B, Avg(B, C)), Set(A, Corrected(A, B, X, Y)), NextRef, Store(0, A),
      NextDest, Set(X, Y), Set(A, B)>>,
    <<>>)
=============================================================================
