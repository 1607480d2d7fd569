---------------------------- MODULE MCMacroblock ----------------------------
(* Macroblock with vectors that lead past each edge and to each corner of  *)
(* the sample grid.                                                        *)
EXTENDS Macroblock

AllDeltas == -1 .. 1
SomeVectors ==
  {<<0, 0>>, <<1, -1>>, <<-1, 1>>, <<-3, -3>>, <<3, 2>>, <<-33, 31>>,
   <<31, -33>>, <<-2, 62>>, <<-62, -62>>, <<62, 33>>}
=============================================================================
