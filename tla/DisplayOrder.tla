---------------------------- MODULE DisplayOrder ----------------------------
(***************************************************************************)
(* What an application of libmpeg2 is promised: frames come out in display *)
(* order.  Frames are numbered in the order they are coded.  A B frame is  *)
(* shown as soon as it is decoded; a reference frame is held back until    *)
(* the next reference frame, or the end of the sequence, releases it; in a *)
(* low delay sequence nothing is held back.  A seek drops the frame held   *)
(* back.                                                                   *)
(***************************************************************************)
EXTENDS Integers, Sequences

CONSTANT Frames       \* the frame numbers, from 1

VARIABLES
  decoded,            \* the last frame delivered by the decoder
  pending,            \* the reference frame held back, 0 if there is none
  out                 \* the frames shown, in order

vars == <<decoded, pending, out>>

Init == decoded = 0 /\ pending = 0 /\ out = <<>>

Release == IF pending = 0 THEN out ELSE Append(out, pending)

DecodeB(f) == /\ decoded' = f
              /\ out' = Append(out, f)
              /\ UNCHANGED pending

DecodeReference(f) == /\ decoded' = f
                      /\ out' = Release
                      /\ pending' = f

DecodeLowDelay(f) == /\ pending = 0
                     /\ decoded' = f
                     /\ out' = Append(out, f)
                     /\ UNCHANGED pending

EndOfSequence == /\ out' = Release
                 /\ pending' = 0
                 /\ UNCHANGED decoded

Seek == /\ pending' = 0
        /\ UNCHANGED <<decoded, out>>

Next == \/ \E f \in Frames : /\ f > decoded
                             /\ \/ DecodeB(f)
                                \/ DecodeReference(f)
                                \/ DecodeLowDelay(f)
        \/ EndOfSequence
        \/ Seek

Spec == Init /\ [][Next]_vars

(* No frame is shown twice.                                                *)
ShownOnce == \A i, j \in 1 .. Len(out) : i # j => out[i] # out[j]
=============================================================================
