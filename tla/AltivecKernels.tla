--------------------------- MODULE AltivecKernels ---------------------------
(***************************************************************************)
(* motion_comp_altivec.c: two aligned words of sixteen samples are loaded  *)
(* for a row, the second from the address of the last sample, and a        *)
(* permutation takes the row out of them.  In blocks eight samples wide    *)
(* even and odd rows may be aligned differently, and have a permutation    *)
(* each.  The loops are alike, whatever is computed from the rows.         *)
(***************************************************************************)
EXTENDS KernelOps

Load(last) == <<Set(A, Vectors(0, last)), NextRef>>
(* prev, the samples of dest to average with                               *)
Prev(back, k) == IF back THEN <<Set(P, Dest(k))>> ELSE <<>>
Blend(back, e) == IF back THEN Avg(P, e) ELSE e

(* Functions o and x: a row of the result for each row loaded              *)
Rows16(back, last, e) ==
  LET Row0 == <<Set(M, Blend(back, e))>> IN
  Program(
    Load(last) \o Prev(back, 0) \o Row0,
    1, 1,
    Load(last) \o Prev(back, 1) \o <<Store(0, M)>> \o Row0 \o
      Load(last) \o Prev(back, 2) \o <<Store(1, M), NextDest, NextDest>> \o Row0,
    <<Set(A, Vectors(0, last))>> \o Prev(back, 1) \o <<Store(0, M)>> \o Row0 \o
      <<Store(1, M)>>)

Rows8(back, last, e0, e1) ==
  LET Row0 == <<Set(M, Blend(back, e0))>>
      Row1 == <<Set(N, Blend(back, e1))>>
  IN Program(
       Load(last) \o Prev(back, 0) \o Row0,
       1, 1,
       Load(last) \o Prev(back, 1) \o <<Store(0, M), NextDest>> \o Row1 \o
         Load(last) \o Prev(back, 1) \o <<Store(0, N), NextDest>> \o Row0,
       <<Set(A, Vectors(0, last))>> \o Prev(back, 1) \o <<Store(0, M), NextDest>>
         \o Row1 \o <<Store(0, N)>>)

(* Functions y and xy: a row of the result for each two rows loaded.       *)
(* Row0 and Row1 keep what is needed of even and odd rows, e combines them.*)
Pairs16(back, last, Row0, Row1, e) ==
  LET Result == <<Set(M, Blend(back, e))>> IN
  Program(
    Load(last) \o Row0 \o Load(last) \o Prev(back, 0) \o Row1 \o Result,
    1, 1,
    Load(last) \o Prev(back, 1) \o <<Store(0, M)>> \o Row0 \o Result \o
      Load(last) \o Prev(back, 2) \o <<Store(1, M), NextDest, NextDest>> \o
      Row1 \o Result,
    <<Set(A, Vectors(0, last))>> \o Prev(back, 1) \o <<Store(0, M)>> \o Row0 \o
      Result \o <<Store(1, M)>>)

Pairs8(back, last, Row0, Row1, e) ==
  LET Result == <<Set(M, Blend(back, e))>>
      Down == <<Store(0, M), NextDest>>
  IN Program(
       Load(last) \o Row0 \o Load(last) \o Prev(back, 0) \o Row1 \o Result,
       1, 1,
       Load(last) \o Prev(back, 1) \o Down \o Row0 \o Result \o
         Load(last) \o Prev(back, 1) \o Down \o Row1 \o Result,
       <<Set(A, Vectors(0, last))>> \o Prev(back, 1) \o Down \o Row0 \o Result \o
         <<Store(0, M)>>)

-----------------------------------------------------------------------------
Here(row) == Perm(A, row, 0)
Middle(row) == Avg(Perm(A, row, 0), Perm(A, row, 1))

MC_put_o_16_altivec == Rows16(FALSE, 15, Here(0))
MC_put_o_8_altivec == Rows8(FALSE, 7, Here(0), Here(1))
MC_put_x_16_altivec == Rows16(FALSE, 16, Middle(0))
MC_put_x_8_altivec == Rows8(FALSE, 8, Middle(0), Middle(1))
MC_avg_o_16_altivec == Rows16(TRUE, 15, Here(0))
MC_avg_o_8_altivec == Rows8(TRUE, 7, Here(0), Here(1))
MC_avg_x_16_altivec == Rows16(TRUE, 16, Middle(0))
MC_avg_x_8_altivec == Rows8(TRUE, 8, Middle(0), Middle(1))

(* C and D: tmp0 and tmp1                                                  *)
MC_put_y_16_altivec ==
  Pairs16(FALSE, 15, <<Set(C, Here(0))>>, <<Set(D, Here(0))>>, Avg(C, D))
MC_put_y_8_altivec ==
  Pairs8(FALSE, 7, <<Set(C, Here(0))>>, <<Set(D, Here(1))>>, Avg(C, D))
MC_avg_y_16_altivec ==
  Pairs16(TRUE, 15, <<Set(C, Here(0))>>, <<Set(D, Here(0))>>, Avg(C, D))
MC_avg_y_8_altivec ==
  Pairs8(TRUE, 7, <<Set(C, Here(0))>>, <<Set(D, Here(1))>>, Avg(C, D))

(* C, D: avg0, avg1; X, Y: xor0, xor1                                      *)
Keep(m, x, row) ==
  <<Set(m, Middle(row)), Set(x, Differ(Perm(A, row, 0), Perm(A, row, 1)))>>

MC_put_xy_16_altivec ==
  Pairs16(FALSE, 16, Keep(C, X, 0), Keep(D, Y, 0), Corrected(C, D, X, Y))
MC_put_xy_8_altivec ==
  Pairs8(FALSE, 8, Keep(C, X, 0), Keep(D, Y, 1), Corrected(C, D, X, Y))
MC_avg_xy_16_altivec ==
  Pairs16(TRUE, 16, Keep(C, X, 0), Keep(D, Y, 0), Corrected(C, D, X, Y))
MC_avg_xy_8_altivec ==
  Pairs8(TRUE, 8, Keep(C, X, 0), Keep(D, Y, 1), Corrected(C, D, X, Y))
=============================================================================
