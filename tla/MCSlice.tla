------------------------------- MODULE MCSlice -------------------------------
(* Slice with pictures of each coding type, and the properties of a slice.  *)
EXTENDS Slice

Kind(type, frame, framePred, conceal, intraVlc, format, convert) ==
  [type |-> type, frame |-> frame, framePred |-> framePred,
   conceal |-> conceal, mpeg1 |-> FALSE, intraVlc |-> intraVlc,
   format |-> format, convert |-> convert, tall |-> (type = "I")]
Mpeg1(type) == [Kind(type, TRUE, TRUE, FALSE, FALSE, 0, FALSE)
                  EXCEPT !.mpeg1 = TRUE]

SomePictures ==
  {Kind("I", TRUE, FALSE, TRUE, TRUE, 0, TRUE),
   Kind("P", TRUE, FALSE, FALSE, FALSE, 1, FALSE),
   Kind("B", FALSE, FALSE, TRUE, FALSE, 0, TRUE),
   Mpeg1("B"), Mpeg1("D"), Kind("other", TRUE, TRUE, FALSE, FALSE, 0, TRUE)}
=============================================================================
