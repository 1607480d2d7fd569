------------------------------ MODULE BitReader ------------------------------
(***************************************************************************)
(* The bit buffer of slice.c and the macros of vlc.h that work on it.      *)
(*                                                                         *)
(* bitstream_buf holds 32 bits of which the first ones are the next bits of *)
(* the slice; bitstream_bits is 16 less than the number of bits used up.   *)
(* The code shifts the buffer and counts in bitstream_bits separately, and *)
(* never checks either: that a read finds stream bits, and that a word is  *)
(* appended right behind the last of them, depends on where NEEDBITS was   *)
(* written.  The bits themselves are left out; a buffer is a record of     *)
(*   bits     bitstream_bits                                               *)
(*   valid    how many stream bits are at the top of bitstream_buf         *)
(*   ok       whether every bit looked at so far was a stream bit and      *)
(*            every word went to its place                                 *)
(***************************************************************************)
EXTENDS Integers

(* UBITS, SBITS, or a comparison, that depends on the first n bits.        *)
Look(b, n) == [b EXCEPT !.ok = @ /\ n <= b.valid]

(* bit_buf <<= n                                                           *)
Shift(b, n) == [b EXCEPT !.valid = @ - n]

(* bits += n                                                               *)
Count(b, n) == [b EXCEPT !.bits = @ + n]

(* DUMPBITS                                                                *)
Dump(b, n) == Count(Shift(b, n), n)

(* UBITS or SBITS followed by DUMPBITS of the same bits                    *)
Take(b, n) == Dump(Look(b, n), n)

(* GETWORD: sixteen bits are or-ed in, shift bits above the bottom.        *)
GetWord(b, shift) ==
  [b EXCEPT !.valid = @ + 16,
            !.ok = @ /\ b.valid \in 0 .. 16 /\ shift = 16 - b.valid]

(* NEEDBITS                                                                *)
NeedBits(b) == IF b.bits > 0 THEN Count(GetWord(b, b.bits), -16) ELSE b

(* bitstream_init                                                          *)
FirstBits == [bits |-> -16, valid |-> 32, ok |-> TRUE]
=============================================================================
