-------------------------- MODULE MCPictureBuffers --------------------------
(* Instances of PictureBuffers for TLC: three buffers, as the samples use, *)
(* and up to five frames, more than the three slots and four pictures      *)
(* take to be reused in every combination of picture types.                *)
EXTENDS PictureBuffers

Buffers == 1 .. 3
=============================================================================
