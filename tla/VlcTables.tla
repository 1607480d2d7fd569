------------------------------ MODULE VlcTables ------------------------------
(***************************************************************************)
(* The variable length codes of vlc.h.  An array there is indexed by the   *)
(* next bits of the stream and repeats an entry for all bits that may      *)
(* follow its code; here it is the set of its entries, <<value, length>>,  *)
(* or the set of lengths where the value is not needed.                    *)
(***************************************************************************)
EXTENDS Integers

(* Macroblock types, as the sets of flags in modes.                        *)
MB_I == {<<{"intra", "quant"}, 2>>, <<{"intra"}, 1>>}

MB_P == {<<{"intra", "quant"}, 6>>, <<{"pattern", "quant"}, 5>>,
         <<{"forward", "pattern", "quant"}, 5>>, <<{"intra"}, 5>>,
         <<{"forward"}, 3>>, <<{"pattern"}, 2>>, <<{"forward", "pattern"}, 1>>}

MB_B == {<<{}, 6>>, <<{"intra", "quant"}, 6>>,
         <<{"backward", "pattern", "quant"}, 6>>,
         <<{"forward", "pattern", "quant"}, 6>>,
         <<{"forward", "backward", "pattern", "quant"}, 5>>, <<{"intra"}, 5>>,
         <<{"forward"}, 4>>, <<{"forward", "pattern"}, 4>>,
         <<{"backward"}, 3>>, <<{"backward", "pattern"}, 3>>,
         <<{"forward", "backward"}, 2>>,
         <<{"forward", "backward", "pattern"}, 2>>}

(* Motion vectors and dual prime vectors.                                  *)
MV_4 == {2, 3, 4, 6}
MV_10 == {7, 9, 10}
DMV_2 == {1, 2}

(* Coded block patterns.                                                   *)
CBP_7 == 3 .. 7
CBP_9 == 8 .. 9

(* DC sizes.                                                               *)
DC_lum_5 == {<<1, 2>>, <<2, 2>>, <<0, 3>>, <<3, 3>>, <<4, 3>>, <<5, 4>>,
             <<6, 5>>}
DC_chrom_5 == {<<0, 2>>, <<1, 2>>, <<2, 2>>, <<3, 3>>, <<4, 4>>, <<5, 5>>}
DC_long == {<<6, 5>>, <<7, 6>>, <<8, 7>>, <<9, 8>>, <<10, 9>>, <<11, 9>>}

(* Coefficients: the lengths of the codes for a run and a level.           *)
DCT_16 == {0}
DCT_15 == {14, 15}
DCT_13 == {12, 13}
DCT_B14_10 == {10}
DCT_B14_8 == 6 .. 8
DCT_B14AC_5 == 2 .. 5
DCT_B14DC_5 == {1, 3, 4, 5}
DCT_B15_10 == {9, 10}
DCT_B15_8 == 2 .. 8
EscapeLength == 12
EndLength_B14 == 2
EndLength_B15 == 4

(* Macroblock address increments.                                          *)
MBA_5 == {<<0, 1>>, <<1, 3>>, <<2, 3>>, <<3, 4>>, <<4, 4>>, <<5, 5>>, <<6, 5>>}
MBA_11 == ((7 .. 8) \X {7}) \cup ((9 .. 14) \X {8}) \cup ((15 .. 20) \X {10})
          \cup ((21 .. 32) \X {11})
=============================================================================
