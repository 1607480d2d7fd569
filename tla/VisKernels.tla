----------------------------- MODULE VisKernels -----------------------------
(***************************************************************************)
(* motion_comp_vis.c: rows are loaded as aligned words of eight samples    *)
(* and shifted into place.  alignaddr has set the shift of the reference   *)
(* block at the start of each function.  The halves of a word, and the two *)
(* words of a row of sixteen, are treated alike; a mean is written where   *)
(* its operands are read last.                                             *)
(***************************************************************************)
EXTENDS KernelOps

(* The last word is loaded only if the block is not aligned (FALSE).    *)
O == Words(0, FALSE)
W == Words(0, TRUE)
Lanes(s) == Sum(16, s)

MC_put_o_16_vis ==
  Loop(<<Set(A, O), NextRef, Store(0, Align(A)), NextDest>>)
MC_put_o_8_vis == MC_put_o_16_vis

MC_avg_o_16_vis ==
  Program(
    <<Set(A, O), Set(D, Dest(0)), Set(C, Align(A)), NextRef>>,
    1, 1,
    <<Set(A, O), NextRef, Set(M, OrAvg(D, C)), Set(D, Dest(1)),
      Store(0, M), NextDest, Set(B, O), Set(C, Align(A)), NextRef,
      Set(M, OrAvg(D, C)), Set(D, Dest(1)), Set(C, Align(B)),
      Store(0, M), NextDest>>,
    <<Set(A, O), Set(M, OrAvg(D, C)), Set(D, Dest(1)), Store(0, M), NextDest,
      Set(C, Align(A)), Store(0, OrAvg(D, C))>>)
MC_avg_o_8_vis ==
  Program(
    <<Set(A, O), Set(D, Dest(0)), Set(C, Align(A)), NextRef>>,
    1, 1,
    <<Set(A, O), Set(M, OrAvg(D, C)), Set(D, Dest(1)), NextRef,
      Set(C, Align(A)), Set(A, O), NextRef, Store(0, M), NextDest,
      Set(M, OrAvg(D, C)), Set(D, Dest(1)), Set(C, Align(A)),
      Store(0, M), NextDest>>,
    <<Set(A, O), Set(M, OrAvg(D, C)), Set(D, Dest(1)), Set(C, Align(A)),
      Store(0, M), NextDest, Store(0, OrAvg(D, C))>>)

(* C and E: the row, and the row one sample on                             *)
(* Mutant: the shift is not set back.                                      *)
BothOnward(a) ==
  <<Set(C, Align(a)), AlignAddr(1), Set(E, AlignNext(a))>>

Both(a) ==
  <<AlignAddr(0), Set(C, Align(a)), AlignAddr(1), Set(E, AlignNext(a))>>

MC_put_x_16_vis ==
  Program(
    <<Set(A, W)>> \o Tail(Both(A)) \o <<NextRef>>,
    1, 1,
    <<Set(A, W), NextRef, Set(B, W), NextRef, Set(M, OrAvg(C, E))>> \o Both(A)
      \o <<Store(0, M), NextDest, Set(M, OrAvg(C, E))>> \o Both(B)
      \o <<Store(0, M), NextDest>>,
    <<Set(A, W), Set(M, OrAvg(C, E))>> \o Both(A)
      \o <<Store(0, M), NextDest, Store(0, OrAvg(C, E))>>)
MC_put_x_8_vis == MC_put_x_16_vis

(* (2 * dest + a + b + 3) >> 2                                             *)
Mean3(d, a, b) == Pack(Lanes(<<a, b, Times(2, d)>>), 3, 2)

MC_avg_x_16_vis ==
  Loop(<<Set(A, W), AlignAddr(0), Set(D, Dest(0)), Set(C, Align(A)),
         AlignAddr(1), Set(E, AlignNext(A)), Store(0, Mean3(D, C, E)),
         NextRef, NextDest>>)

(* Four rows at a time                                                     *)
MC_avg_x_8_vis ==
  Program(
    <<>>,
    2, 0,
    <<Set(A, W), NextRef, AlignAddr(0), Set(B, W), Set(C, Align(A)), NextRef,
      Set(M, W), NextRef, Set(E, Align(B)), Set(N, W), NextRef,
      Set(X, Align(M)), Set(Y, Align(N)), AlignAddr(1),
      Set(D, Dest(0)), Set(A, AlignNext(A)), Set(P, Dest(1)),
      Set(B, AlignNext(B)), Set(M, AlignNext(M)), Set(N, AlignNext(N)),
      Store(0, Mean3(D, C, A)), NextDest, Set(D, Dest(1)),
      Set(C, Mean3(P, E, B)), Set(P, Dest(2)), Store(0, C), NextDest,
      Store(0, Mean3(D, X, M)), NextDest, Store(0, Mean3(P, Y, N)), NextDest>>,
    <<>>)

(* C and E: even and odd rows                                              *)
MC_put_y_16_vis ==
  Program(
    <<Set(A, O), NextRef, Set(C, Align(A)), Set(B, O), NextRef,
      Set(E, Align(B))>>,
    1, 1,
    <<Set(A, O), NextRef, Set(M, OrAvg(C, E)), Set(C, Align(A)), Set(B, O),
      NextRef, Set(N, OrAvg(C, E)), Store(0, M), NextDest, Set(E, Align(B)),
      Store(0, N), NextDest>>,
    <<Set(A, O), Set(M, OrAvg(C, E)), Set(C, Align(A)), Set(N, OrAvg(C, E)),
      Store(0, M), NextDest, Store(0, N)>>)
MC_put_y_8_vis == MC_put_y_16_vis

(* X: the row above                                                        *)
MC_avg_y_16_vis ==
  Program(
    <<Set(A, O), Set(E, Align(A))>>,
    1, 0,
    <<Set(A, Words(1, FALSE)), Set(X, E), NextRef, Set(D, Dest(0)),
      Set(C, Align(A)), Set(B, Words(1, FALSE)), NextRef, Set(P, Dest(1)),
      Set(E, Align(B)), Store(0, Mean3(D, X, C)), NextDest,
      Store(0, Mean3(P, C, E)), NextDest>>,
    <<>>)
MC_avg_y_8_vis == MC_avg_y_16_vis

(* X and Y: the row above, at both columns; M: the sum of the next         *)
MC_put_xy_16_vis ==
  Program(
    <<Set(A, W), Set(X, Align(A)), AlignAddr(1), Set(Y, AlignNext(A))>>,
    1, 0,
    <<Set(A, Words(1, TRUE)), Set(N, Lanes(<<X, Y>>)), AlignAddr(0), NextRef,
      Set(B, Words(1, TRUE)), Set(C, Align(A)), NextRef, Set(X, Align(B)),
      AlignAddr(1), Set(E, AlignNext(A)), Set(Y, AlignNext(B)),
      Set(M, Lanes(<<C, E>>)), Store(0, Pack(Lanes(<<N, M>>), 2, 2)), NextDest,
      Store(0, Pack(Lanes(<<M, X, Y>>), 2, 2)), NextDest>>,
    <<>>)
MC_put_xy_8_vis == MC_put_xy_16_vis

(* (4 * dest + a + b + c + d + 6) >> 3.  The samples of dest below are     *)
(* loaded after the row above is stored (16), or before (8).               *)
(* Mutant: the mean of four is rounded, and then that of two.              *)
Mean5Biased(d, s) == Pack(Lanes(<<Times(4, d)>> \o s), 4, 3)

Mean5(d, s) == Pack(Lanes(<<Times(4, d)>> \o s), 6, 3)

MC_avg_xy_16_vis ==
  Program(
    <<Set(A, W), Set(X, Align(A)), AlignAddr(1), Set(Y, AlignNext(A))>>,
    1, 0,
    <<Set(A, Words(1, TRUE)), Set(N, Lanes(<<X, Y>>)), AlignAddr(0), NextRef,
      Set(B, Words(1, TRUE)), Set(C, Align(A)), NextRef, Set(D, Dest(0)),
      Set(X, Align(B)), AlignAddr(1), Set(E, AlignNext(A)),
      Set(Y, AlignNext(B)), Set(M, Lanes(<<C, E>>)),
      Store(0, Mean5(D, <<N, M>>)), Set(D, Dest(1)), NextDest,
      Store(0, Mean5(D, <<M, X, Y>>)), NextDest>>,
    <<>>)
MC_avg_xy_8_vis ==
  Program(
    <<Set(A, W), Set(X, Align(A)), AlignAddr(1), Set(Y, AlignNext(A))>>,
    1, 0,
    <<Set(A, Words(1, TRUE)), Set(N, Lanes(<<X, Y>>)), NextRef, AlignAddr(0),
      Set(B, Words(1, TRUE)), Set(C, Align(A)), NextRef, Set(D, Dest(0)),
      Set(X, Align(B)), Set(P, Dest(1)), AlignAddr(1), Set(E, AlignNext(A)),
      Set(Y, AlignNext(B)), Set(M, Lanes(<<C, E>>)),
      Store(0, Mean5(D, <<N, M>>)), NextDest,
      Store(0, Mean5(P, <<M, X, Y>>)), NextDest>>,
    <<>>)
=============================================================================
