---------------------------- MODULE ScalarKernels ----------------------------
(***************************************************************************)
(* The motion compensation functions in C, for ARM, and for Alpha.         *)
(***************************************************************************)
EXTENDS KernelOps

(* MC_FUNC in motion_comp.c, from predict_o, predict_x, predict_y and      *)
(* predict_xy; put and avg.  Sums are taken in int.                        *)
MC_FUNC(e) == Loop(<<Store(0, e), NextRef, NextDest>>)
avg2(a, b) == Avg(a, b)
avg4(a, b, c, d) == Pack(Sum(16, <<a, b, c, d>>), 2, 2)

predict_o == Row(0, 0)
predict_x == avg2(Row(0, 0), Row(0, 1))
predict_y == avg2(Row(0, 0), Row(1, 0))
predict_xy == avg4(Row(0, 0), Row(0, 1), Row(1, 0), Row(1, 1))
put(e) == MC_FUNC(e)
avg(e) == MC_FUNC(avg2(e, Dest(0)))

(* motion_comp_arm_s.S: whole words are loaded and shifted, for each of    *)
(* the four alignments by a loop of its own.                               *)
MC_put_o_arm == Loop(<<Set(A, Row(0, 0)), NextRef, Store(0, A), NextDest>>)
MC_put_x_arm ==
  Loop(<<Set(A, Row(0, 0)), Set(B, Row(0, 1)), NextRef,
         Store(0, AndAvg(A, B)), NextDest>>)

-----------------------------------------------------------------------------
(* motion_comp_alpha.c.  STORE averages with the samples at block, or not. *)
STORE(back, e) == Store(0, IF back THEN OrAvg(e, Dest(0)) ELSE e)

OP16(back) == Loop(<<STORE(back, Row(0, 0)), NextRef, NextDest>>)
OP16_X2(back) ==
  Loop(<<Set(A, Row(0, 0)), Set(B, Row(0, 1)), STORE(back, OrAvg(A, B)),
         NextRef, NextDest>>)

(* Mutant: line_size is left as it is in the last row.                     *)
OP16_Y2_Ahead(back) ==
  Program(
    <<Set(A, Row(0, 0)), NextRef, Set(B, Row(0, 0))>>,
    0, 0,
    <<Set(M, OrAvg(A, B)), Set(A, B), NextRef, Set(B, Row(0, 0)),
      STORE(back, M), NextDest>>,
    <<>>)

(* In the last row line_size is set to zero, so that no row is loaded      *)
(* beyond those that are needed.                                           *)
OP16_Y2(back) ==
  Program(
    <<Set(A, Row(0, 0)), NextRef, Set(B, Row(0, 0))>>,
    0, 0,
    <<LastRow, Set(M, OrAvg(A, B)), Set(A, B), NextRef, Set(B, Row(0, 0)),
      STORE(back, M), NextDest>>,
    <<>>)

(* Bytes are added in two parts that do not carry into the next byte: X    *)
(* and Y are the sums of the upper six bits, C and D of the lower two.     *)
High2(r) == Set(r, Sum(8, <<High(A), High(B)>>))
Low2(r) == Set(r, Sum(8, <<Low(A), Low(B)>>))
OP16_XY2(back) ==
  Program(
    <<Set(A, Row(0, 0)), Set(B, Row(0, 1)), High2(X), Low2(C)>>,
    0, 0,
    <<NextRef, Set(A, Row(0, 0)), Set(B, Row(0, 1)), High2(Y), Low2(D),
      STORE(back, Sum(8, <<X, Y, Low(Pack(Sum(8, <<C, D>>), 2, 2))>>)),
      NextDest, Set(C, D), Set(X, Y)>>,
    <<>>)
=============================================================================
