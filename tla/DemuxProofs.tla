----------------------------- MODULE DemuxProofs -----------------------------
(***************************************************************************)
(* Proofs about Demux, for any files and sizes: TypeOK; AsInOnePiece, that *)
(* a file cut anywhere is passed on as if it were not cut; and that no     *)
(* loop goes round without end.                                            *)
(*                                                                         *)
(* The invariant says that what was passed on, followed by what is Ahead,  *)
(* is the elementary stream of the file (StreamInv).  What is ahead is     *)
(* told by the static variables: between two calls, from what the call     *)
(* before left (AheadOfCall); in a header, from its first byte             *)
(* (AheadInHeader); in a transport stream, from what is there of the       *)
(* packet of video begun (AheadOfUnit, AheadInUnit).  It needs that the    *)
(* bytes in head_buf are the beginning of a header that asks for more      *)
(* (HeaderInv), that they are those before buf in the file (PieceInv), and *)
(* where each loop may be (PlaceInv, TypeInv).                             *)
(*                                                                         *)
(* 1. sequences; how many bytes a header has, which more bytes of it do    *)
(*    not change, and what each NEEDBYTES knows of it (Parsed);            *)
(* 2. the reference: Remaining satisfies its definition, by induction from *)
(*    the end of the file, and what it is at each kind of packet;          *)
(* 3. each action told by the bytes of the header (PackHeaderIs ...        *)
(*    PvaPacketIs), and TypeOK;                                            *)
(* 4. StreamInv for elementary streams, for program and PVA streams        *)
(*    (Piecewise), and for transport streams (Units);                      *)
(* 5. EveryStepUsesUp: each step lowers a measure of what is left to do.   *)
(***************************************************************************)
EXTENDS Demux, TLAPS, SequenceTheorems, WellFoundedInduction

Event == [byte : Nat] \cup [tag : Nat]
Passed(p) == [byte |-> p]

-----------------------------------------------------------------------------
(* Induction: a set of numbers that holds all from m on, and each whose    *)
(* successor it holds, holds all.                                          *)
LEMMA LeastNatural ==
  ASSUME NEW T, T \subseteq Nat, T # {}
  PROVE  \E m \in T : \A k \in T : m <= k
  <1>1. \A ss \in Nat \X Nat : ss \in OpToRel(<, Nat) <=> ss[1] < ss[2]
    BY Zenon DEF OpToRel
  <1>2. PICK x \in T : \A y \in T : ~ (<<y, x>> \in OpToRel(<, Nat))
    BY NatLessThanWellFounded, WFMin, Zenon
  <1>3. ASSUME NEW y \in T PROVE x <= y
    <2>1. <<y, x>> \in Nat \X Nat
      OBVIOUS
    <2>2. ~(y < x)
      <3> ~ (<<y, x>> \in OpToRel(<, Nat))
        BY <1>2, Zenon
      <3> <<y, x>>[1] < <<y, x>>[2] => <<y, x>> \in OpToRel(<, Nat)
        BY <1>1, <2>1, Zenon
      <3> QED OBVIOUS
    <2> QED BY <2>2
  <1> QED BY <1>3

LEMMA DownInduction ==
  ASSUME NEW T, NEW m \in Nat,
         \A p \in Nat : p >= m => p \in T,
         \A p \in Nat : p + 1 \in T => p \in T
  PROVE  \A p \in Nat : p \in T
  <1> SUFFICES ASSUME NEW z \in Nat, z \notin T PROVE FALSE
    OBVIOUS
  <1> DEFINE U == {d \in Nat : \E p \in Nat : p \notin T /\ p + d = m}
  <1>1. U \subseteq Nat /\ m - z \in U
    OBVIOUS
  <1>2. PICK d \in U : \A k \in U : d <= k
    <2> HIDE DEF U
    <2> QED BY <1>1, LeastNatural
  <1>3. PICK p \in Nat : p \notin T /\ p + d = m
    BY <1>2
  <1>4. p + 1 \notin T /\ d - 1 \in Nat
    BY <1>2, <1>3
  <1>5. d - 1 \in U
    BY <1>3, <1>4
  <1> QED BY <1>1, <1>2, <1>5

-----------------------------------------------------------------------------
(* Sequences of offsets and of what is passed on                           *)
LEMMA ConcatIs ==
  ASSUME NEW S, NEW s \in Seq(S), NEW t \in Seq(S), NEW u \in Seq(S),
         Len(u) = Len(s) + Len(t),
         \A k \in 1 .. Len(s) : u[k] = s[k],
         \A k \in 1 .. Len(t) : u[Len(s) + k] = t[k]
  PROVE  s \o t = u
  <1>1. Len(s) \in Nat /\ Len(t) \in Nat
    OBVIOUS
  <1>2. /\ s \o t \in Seq(S) /\ Len(s \o t) = Len(s) + Len(t)
        /\ \A k \in 1 .. Len(s) + Len(t) :
             (s \o t)[k] = IF k <= Len(s) THEN s[k] ELSE t[k - Len(s)]
    BY ConcatProperties, Zenon
  <1>3. ASSUME NEW k \in 1 .. Len(s \o t) PROVE (s \o t)[k] = u[k]
    <2>1. CASE k <= Len(s)
      BY <1>1, <1>2, <2>1
    <2>2. CASE k > Len(s)
      <3>1. k - Len(s) \in 1 .. Len(t) /\ Len(s) + (k - Len(s)) = k
        BY <1>1, <1>2, <2>2
      <3> QED BY <1>1, <1>2, <2>2, <3>1
    <2> QED BY <1>1, <2>1, <2>2
  <1> QED BY <1>2, <1>3, SeqEqual

LEMMA CopyType ==
  ASSUME NEW n \in Int, NEW p \in Nat
  PROVE  /\ Copy(n, p) \in Seq(Nat)
         /\ Len(Copy(n, p)) = IF n > 0 THEN n ELSE 0
         /\ \A k \in 1 .. n : Copy(n, p)[k] = p + k - 1
         /\ n <= 0 => Copy(n, p) = <<>>
  <1>1. CASE n > 0
    <2>1. Copy(n, p) \in [1 .. n -> Nat]
      BY <1>1 DEF Copy
    <2>2. Copy(n, p) \in Seq(Nat)
      BY <1>1, <2>1
    <2>3. Len(Copy(n, p)) = n
      BY <1>1, <2>2 DEF Copy
    <2> QED BY <1>1, <2>2, <2>3 DEF Copy
  <1>2. CASE n <= 0
    <2>1. Copy(n, p) = <<>>
      BY <1>2 DEF Copy
    <2> QED BY <1>2, <2>1
  <1> QED BY <1>1, <1>2

LEMMA RunType ==
  ASSUME NEW n \in Int, NEW p \in Nat
  PROVE  /\ Run(p, n) \in Seq(Event)
         /\ Len(Run(p, n)) = IF n > 0 THEN n ELSE 0
         /\ \A k \in 1 .. n : Run(p, n)[k] = Passed(p + k - 1)
         /\ n <= 0 => Run(p, n) = <<>>
  <1>1. CASE n > 0
    <2>1. Run(p, n) \in [1 .. n -> Event]
      BY <1>1 DEF Run, Event
    <2>2. Run(p, n) \in Seq(Event)
      BY <1>1, <2>1
    <2>3. Len(Run(p, n)) = n
      BY <1>1, <2>2 DEF Run
    <2>4. \A k \in 1 .. n : Run(p, n)[k] = Passed(p + k - 1)
      BY <1>1 DEF Run, Passed
    <2> QED BY <1>1, <2>2, <2>3, <2>4
  <1>2. CASE n <= 0
    <2>1. Run(p, n) = <<>>
      BY <1>2 DEF Run
    <2> QED BY <1>2, <2>1
  <1> QED BY <1>1, <1>2

LEMMA SentType ==
  ASSUME NEW q \in Seq(Nat)
  PROVE  /\ Sent(q) \in Seq(Event)
         /\ Len(Sent(q)) = Len(q)
         /\ \A k \in 1 .. Len(q) : Sent(q)[k] = Passed(q[k])
  <1>1. Len(q) \in Nat /\ DOMAIN q = 1 .. Len(q) /\ \A k \in 1 .. Len(q) : q[k] \in Nat
    OBVIOUS
  <1>2. Sent(q) \in [1 .. Len(q) -> Event]
    BY <1>1 DEF Sent, Event
  <1>3. Sent(q) \in Seq(Event)
    BY <1>1, <1>2
  <1> QED BY <1>1, <1>3 DEF Sent, Passed

LEMMA CopySplit ==
  ASSUME NEW a \in Nat, NEW b \in Nat, NEW p \in Nat
  PROVE  Copy(a, p) \o Copy(b, p + a) = Copy(a + b, p)
  <1>1. a + b \in Int /\ a \in Int /\ b \in Int /\ p + a \in Nat
    OBVIOUS
  <1>2. Copy(a, p) \in Seq(Nat) /\ Len(Copy(a, p)) = a
        /\ \A k \in 1 .. a : Copy(a, p)[k] = p + k - 1
    BY <1>1, CopyType
  <1>3. Copy(b, p + a) \in Seq(Nat) /\ Len(Copy(b, p + a)) = b
        /\ \A k \in 1 .. b : Copy(b, p + a)[k] = p + a + k - 1
    BY <1>1, CopyType
  <1>4. Copy(a + b, p) \in Seq(Nat) /\ Len(Copy(a + b, p)) = a + b
        /\ \A k \in 1 .. a + b : Copy(a + b, p)[k] = p + k - 1
    BY <1>1, CopyType
  <1>5. \A k \in 1 .. a : Copy(a + b, p)[k] = Copy(a, p)[k]
    BY <1>2, <1>4
  <1>6. ASSUME NEW k \in 1 .. b PROVE Copy(a + b, p)[a + k] = Copy(b, p + a)[k]
    <2>1. a + k \in 1 .. a + b /\ p + (a + k) - 1 = p + a + k - 1
      OBVIOUS
    <2> QED BY <1>3, <1>4, <2>1
  <1>7. /\ Copy(a, p) \in Seq(Nat) /\ Copy(b, p + a) \in Seq(Nat)
        /\ Copy(a + b, p) \in Seq(Nat)
        /\ Len(Copy(a + b, p)) = Len(Copy(a, p)) + Len(Copy(b, p + a))
        /\ \A k \in 1 .. Len(Copy(a, p)) : Copy(a + b, p)[k] = Copy(a, p)[k]
        /\ \A k \in 1 .. Len(Copy(b, p + a)) : Copy(a + b, p)[Len(Copy(a, p)) + k] = Copy(b, p + a)[k]
    BY <1>2, <1>3, <1>4, <1>5, <1>6
  <1> QED BY <1>7, ConcatIs, Zenon

LEMMA RunSplit ==
  ASSUME NEW a \in Nat, NEW b \in Nat, NEW p \in Nat
  PROVE  Run(p, a) \o Run(p + a, b) = Run(p, a + b)
  <1>1. a + b \in Int /\ a \in Int /\ b \in Int /\ p + a \in Nat
    OBVIOUS
  <1>2. Run(p, a) \in Seq(Event) /\ Len(Run(p, a)) = a
        /\ \A k \in 1 .. a : Run(p, a)[k] = Passed(p + k - 1)
    BY <1>1, RunType
  <1>3. Run(p + a, b) \in Seq(Event) /\ Len(Run(p + a, b)) = b
        /\ \A k \in 1 .. b : Run(p + a, b)[k] = Passed(p + a + k - 1)
    BY <1>1, RunType
  <1>4. Run(p, a + b) \in Seq(Event) /\ Len(Run(p, a + b)) = a + b
        /\ \A k \in 1 .. a + b : Run(p, a + b)[k] = Passed(p + k - 1)
    BY <1>1, RunType
  <1>5. \A k \in 1 .. a : Run(p, a + b)[k] = Run(p, a)[k]
    BY <1>2, <1>4
  <1>6. ASSUME NEW k \in 1 .. b PROVE Run(p, a + b)[a + k] = Run(p + a, b)[k]
    <2>1. a + k \in 1 .. a + b /\ p + (a + k) - 1 = p + a + k - 1
      OBVIOUS
    <2> QED BY <1>3, <1>4, <2>1
  <1>7. /\ Run(p, a) \in Seq(Event) /\ Run(p + a, b) \in Seq(Event)
        /\ Run(p, a + b) \in Seq(Event)
        /\ Len(Run(p, a + b)) = Len(Run(p, a)) + Len(Run(p + a, b))
        /\ \A k \in 1 .. Len(Run(p, a)) : Run(p, a + b)[k] = Run(p, a)[k]
        /\ \A k \in 1 .. Len(Run(p + a, b)) : Run(p, a + b)[Len(Run(p, a)) + k] = Run(p + a, b)[k]
    BY <1>2, <1>3, <1>4, <1>5, <1>6
  <1> QED BY <1>7, ConcatIs, Zenon

LEMMA SentConcat ==
  ASSUME NEW q \in Seq(Nat), NEW r \in Seq(Nat)
  PROVE  Sent(q \o r) = Sent(q) \o Sent(r)
  <1>1. Len(q) \in Nat /\ Len(r) \in Nat
    OBVIOUS
  <1>2. /\ q \o r \in Seq(Nat) /\ Len(q \o r) = Len(q) + Len(r)
        /\ \A k \in 1 .. Len(q) + Len(r) :
             (q \o r)[k] = IF k <= Len(q) THEN q[k] ELSE r[k - Len(q)]
    BY ConcatProperties
  <1>3. Sent(q) \in Seq(Event) /\ Len(Sent(q)) = Len(q)
        /\ \A k \in 1 .. Len(q) : Sent(q)[k] = Passed(q[k])
    BY SentType
  <1>4. Sent(r) \in Seq(Event) /\ Len(Sent(r)) = Len(r)
        /\ \A k \in 1 .. Len(r) : Sent(r)[k] = Passed(r[k])
    BY SentType
  <1>5. Sent(q \o r) \in Seq(Event) /\ Len(Sent(q \o r)) = Len(q) + Len(r)
        /\ \A k \in 1 .. Len(q) + Len(r) : Sent(q \o r)[k] = Passed((q \o r)[k])
    BY <1>2, SentType
  <1>6. ASSUME NEW k \in 1 .. Len(q) PROVE Sent(q \o r)[k] = Sent(q)[k]
    BY <1>1, <1>2, <1>3, <1>5
  <1>7. ASSUME NEW k \in 1 .. Len(r) PROVE Sent(q \o r)[Len(q) + k] = Sent(r)[k]
    <2>1. (q \o r)[Len(q) + k] = r[k]
      BY <1>1, <1>2
    <2>2. Len(q) + k \in 1 .. Len(q) + Len(r)
      BY <1>1
    <2>3. Sent(q \o r)[Len(q) + k] = Passed((q \o r)[Len(q) + k])
      BY <1>5, <2>2, Zenon
    <2>4. Sent(r)[k] = Passed(r[k])
      BY <1>4, Zenon
    <2> QED BY <2>1, <2>3, <2>4, Zenon
  <1>8. /\ Sent(q) \in Seq(Event) /\ Sent(r) \in Seq(Event)
        /\ Sent(q \o r) \in Seq(Event)
        /\ Len(Sent(q \o r)) = Len(Sent(q)) + Len(Sent(r))
        /\ \A k \in 1 .. Len(Sent(q)) : Sent(q \o r)[k] = Sent(q)[k]
        /\ \A k \in 1 .. Len(Sent(r)) : Sent(q \o r)[Len(Sent(q)) + k] = Sent(r)[k]
    <2>1. Len(Sent(q \o r)) = Len(Sent(q)) + Len(Sent(r))
      BY <1>3, <1>4, <1>5
    <2> QED BY <1>3, <1>4, <1>5, <1>6, <1>7, <2>1, Zenon
  <1> QED BY <1>8, ConcatIs, Zenon

LEMMA SentCopy ==
  ASSUME NEW n \in Int, NEW p \in Nat
  PROVE  Sent(Copy(n, p)) = Run(p, n)
  <1> DEFINE s == Sent(Copy(n, p))  t == Run(p, n)
  <1>1. s \in Seq(Event) /\ Len(s) = Len(Copy(n, p))
        /\ \A k \in 1 .. Len(Copy(n, p)) : s[k] = Passed(Copy(n, p)[k])
    BY SentType, CopyType
  <1>2. t \in Seq(Event) /\ Len(t) = Len(Copy(n, p))
        /\ \A k \in 1 .. n : t[k] = Passed(Copy(n, p)[k])
    BY RunType, CopyType
  <1> HIDE DEF s, t
  <1>3. Len(s) = Len(t) /\ \A k \in 1 .. Len(s) : s[k] = t[k]
    BY <1>1, <1>2, CopyType
  <1>4. s = t
    BY <1>1, <1>2, <1>3, SeqEqual
  <1> QED BY <1>4 DEF s, t

(* The beginning, the end and any part of a sequence.                      *)
LEMMA TakeType ==
  ASSUME NEW S, NEW q \in Seq(S), NEW n \in 0 .. Len(q)
  PROVE  /\ SubSeq(q, 1, n) \in Seq(S) /\ Len(SubSeq(q, 1, n)) = n
         /\ \A k \in 1 .. n : SubSeq(q, 1, n)[k] = q[k]
  <1>1. Len(q) \in Nat /\ 1 \in Int /\ n \in Int /\ \A i \in 1 .. n : q[i] \in S
    OBVIOUS
  <1>2. /\ SubSeq(q, 1, n) \in Seq(S)
        /\ Len(SubSeq(q, 1, n)) = IF 1 <= n THEN n - 1 + 1 ELSE 0
        /\ \A i \in 1 .. n - 1 + 1 : SubSeq(q, 1, n)[i] = q[1 + i - 1]
    BY <1>1, SubSeqProperties, SMTT(20)
  <1>3. n - 1 + 1 = n /\ (IF 1 <= n THEN n - 1 + 1 ELSE 0) = n
        /\ \A i \in 1 .. n : 1 + i - 1 = i
    BY <1>1
  <1> QED BY <1>2, <1>3

LEMMA FromType ==
  ASSUME NEW S, NEW q \in Seq(S), NEW n \in 0 .. Len(q)
  PROVE  /\ From(q, n) \in Seq(S) /\ Len(From(q, n)) = Len(q) - n
         /\ \A k \in 1 .. Len(q) - n : From(q, n)[k] = q[n + k]
  <1>1. Len(q) \in Int /\ n + 1 \in Int /\ \A i \in n + 1 .. Len(q) : q[i] \in S
    OBVIOUS
  <1>2. /\ SubSeq(q, n + 1, Len(q)) \in Seq(S)
        /\ Len(SubSeq(q, n + 1, Len(q))) =
             IF n + 1 <= Len(q) THEN Len(q) - (n + 1) + 1 ELSE 0
        /\ \A i \in 1 .. Len(q) - (n + 1) + 1 :
             SubSeq(q, n + 1, Len(q))[i] = q[n + 1 + i - 1]
    BY <1>1, SubSeqProperties, SMTT(20)
  <1>3. Len(q) - (n + 1) + 1 = Len(q) - n
        /\ (IF n + 1 <= Len(q) THEN Len(q) - (n + 1) + 1 ELSE 0) = Len(q) - n
        /\ \A i \in 1 .. Len(q) - n : n + 1 + i - 1 = n + i
    BY <1>1
  <1> QED BY <1>2, <1>3 DEF From

LEMMA FromConcat ==
  ASSUME NEW q \in Seq(Nat), NEW r \in Seq(Nat), NEW n \in 0 .. Len(q)
  PROVE  From(q \o r, n) = From(q, n) \o r
  <1>1. Len(q) \in Nat /\ Len(r) \in Nat
    OBVIOUS
  <1>2. /\ q \o r \in Seq(Nat) /\ Len(q \o r) = Len(q) + Len(r)
        /\ \A k \in 1 .. Len(q) + Len(r) :
             (q \o r)[k] = IF k <= Len(q) THEN q[k] ELSE r[k - Len(q)]
    BY ConcatProperties
  <1>3. /\ From(q, n) \in Seq(Nat) /\ Len(From(q, n)) = Len(q) - n
        /\ \A k \in 1 .. Len(q) - n : From(q, n)[k] = q[n + k]
    BY FromType
  <1>4. n \in 0 .. Len(q \o r)
    BY <1>1, <1>2
  <1>5. /\ From(q \o r, n) \in Seq(Nat) /\ Len(From(q \o r, n)) = Len(q \o r) - n
        /\ \A k \in 1 .. Len(q \o r) - n : From(q \o r, n)[k] = (q \o r)[n + k]
    BY <1>2, <1>4, FromType, ZenonT(40)
  <1>6. ASSUME NEW k \in 1 .. Len(q) - n PROVE From(q \o r, n)[k] = From(q, n)[k]
    <2>1. k \in 1 .. Len(q \o r) - n /\ n + k \in 1 .. Len(q) + Len(r) /\ n + k <= Len(q)
      BY <1>1, <1>2
    <2>2. From(q \o r, n)[k] = (q \o r)[n + k]
      BY <1>5, <2>1, Zenon
    <2>3. (q \o r)[n + k] = q[n + k]
      BY <1>2, <2>1
    <2> QED BY <1>3, <2>2, <2>3, Zenon
  <1>7. ASSUME NEW k \in 1 .. Len(r) PROVE From(q \o r, n)[Len(q) - n + k] = r[k]
    <2>1. Len(q) - n + k \in 1 .. Len(q \o r) - n /\ n + (Len(q) - n + k) = Len(q) + k
      BY <1>1, <1>2
    <2>2. From(q \o r, n)[Len(q) - n + k] = (q \o r)[Len(q) + k]
      BY <1>5, <2>1
    <2> QED BY <1>1, <1>2, <2>2
  <1>8. /\ Len(From(q \o r, n)) = Len(From(q, n)) + Len(r)
        /\ \A k \in 1 .. Len(From(q, n)) : From(q \o r, n)[k] = From(q, n)[k]
        /\ \A k \in 1 .. Len(r) : From(q \o r, n)[Len(From(q, n)) + k] = r[k]
    BY <1>1, <1>2, <1>3, <1>5, <1>6, <1>7
  <1> QED BY <1>3, <1>5, <1>8, ConcatIs, Zenon

LEMMA SubCopy ==
  ASSUME NEW m \in Int, NEW p \in Nat, NEW a \in Nat \ {0}, NEW b \in Int,
         b <= m \/ b < a
  PROVE  SubSeq(Copy(m, p), a, b) = Copy(b - a + 1, p + a - 1)
  <1>1. b - a + 1 \in Int /\ p + a - 1 \in Nat /\ a \in Int
    OBVIOUS
  <1>2. CASE b < a
    <2>1. SubSeq(Copy(m, p), a, b) = <<>>
      BY <1>1, <1>2, SubSeqEmpty
    <2>2. Copy(b - a + 1, p + a - 1) = <<>>
      BY <1>1, <1>2, CopyType
    <2> QED BY <2>1, <2>2
  <1>3. CASE b >= a
    <2>1. \A k \in 1 .. m : Copy(m, p)[k] = p + k - 1
      BY CopyType
    <2>2. \A i \in a .. b : Copy(m, p)[i] \in Nat
      BY <1>3, <2>1
    <2>3. /\ SubSeq(Copy(m, p), a, b) \in Seq(Nat)
          /\ Len(SubSeq(Copy(m, p), a, b)) = IF a <= b THEN b - a + 1 ELSE 0
          /\ \A i \in 1 .. b - a + 1 :
               SubSeq(Copy(m, p), a, b)[i] = Copy(m, p)[a + i - 1]
      BY <1>1, <2>2, SubSeqProperties, SMTT(20)
    <2>4. /\ Copy(b - a + 1, p + a - 1) \in Seq(Nat)
          /\ Len(Copy(b - a + 1, p + a - 1)) = b - a + 1
          /\ \A k \in 1 .. b - a + 1 :
               Copy(b - a + 1, p + a - 1)[k] = p + a - 1 + k - 1
      <3>1. /\ Copy(b - a + 1, p + a - 1) \in Seq(Nat)
            /\ Len(Copy(b - a + 1, p + a - 1)) =
                 IF b - a + 1 > 0 THEN b - a + 1 ELSE 0
            /\ \A k \in 1 .. b - a + 1 :
                 Copy(b - a + 1, p + a - 1)[k] = (p + a - 1) + k - 1
        BY <1>1, CopyType, Zenon
      <3>2. b - a + 1 > 0
        BY <1>1, <1>3
      <3> QED BY <3>1, <3>2, Zenon
    <2>5. ASSUME NEW i \in 1 .. b - a + 1
          PROVE SubSeq(Copy(m, p), a, b)[i] = Copy(b - a + 1, p + a - 1)[i]
      <3>1. a + i - 1 \in 1 .. m /\ p + (a + i - 1) - 1 = p + a - 1 + i - 1
        BY <1>3
      <3> QED BY <2>1, <2>3, <2>4, <3>1
    <2>6. Len(SubSeq(Copy(m, p), a, b)) = b - a + 1
      BY <1>3, <2>3
    <2> QED BY <2>3, <2>4, <2>5, <2>6, SeqEqual
  <1> QED BY <1>2, <1>3

LEMMA FromCopy ==
  ASSUME NEW m \in Int, NEW p \in Nat, NEW n \in Nat
  PROVE  From(Copy(m, p), n) = Copy(m - n, p + n)
  <1>1. CASE m >= 0
    <2>1. Len(Copy(m, p)) = m /\ n + 1 \in Nat \ {0} /\ m <= m
      BY <1>1, CopyType
    <2>2. SubSeq(Copy(m, p), n + 1, m) = Copy(m - (n + 1) + 1, p + (n + 1) - 1)
      BY <2>1, SubCopy, Zenon
    <2>3. m - (n + 1) + 1 = m - n /\ p + (n + 1) - 1 = p + n
      OBVIOUS
    <2> QED BY <2>1, <2>2, <2>3 DEF From
  <1>2. CASE m < 0
    <2>1. Copy(m, p) = <<>> /\ Len(Copy(m, p)) = 0
      BY <1>2, CopyType
    <2>2. m - n \in Int /\ m - n <= 0 /\ p + n \in Nat
      BY <1>2
    <2>3. Copy(m - n, p + n) = <<>>
      BY <2>2, CopyType
    <2>4. SubSeq(Copy(m, p), n + 1, 0) = <<>>
      BY SubSeqEmpty
    <2> QED BY <2>1, <2>3, <2>4 DEF From
  <1> QED BY <1>1, <1>2

There(q) == Len(q)

-----------------------------------------------------------------------------
(* How many bytes a header has that starts with the bytes of q, as far as  *)
(* they tell; none if q is not the start of a header.                      *)
Code(f) == IF f.kind = "pva" THEN <<65, 86>> ELSE <<0, 0, 1>>
PrefixBytes(f) == IF f.kind = "pva" THEN 2 ELSE 4
ProgramNeeds(f, q) ==
  LET id == Item(f, q, 3) IN
  CASE id = 185 -> 0
    [] id = 186 -> PackLength(f, q)
    [] id = f.track /\ id \notin {185, 186} -> HeaderLength(f, q)
    [] id < 185 /\ id # f.track -> 4
    [] id > 186 /\ id # f.track -> 6
Needs(f, q) ==
  IF There(q) < PrefixBytes(f) THEN PrefixBytes(f)
  ELSE IF ~StartsWith(f, q, Code(f)) THEN 0
  ELSE CASE f.kind = "pva" -> PvaHeaderLength(f, q)
         [] f.kind = "ps" -> ProgramNeeds(f, q)
         [] OTHER -> HeaderLength(f, q)
Waits(f, q) == Needs(f, q) > There(q)

(* The headers of packets of video.                                        *)
VideoHeader(f, q) ==
  f.kind = "ts" \/ (f.kind = "ps" /\ Item(f, q, 3) = f.track
                    /\ Item(f, q, 3) \notin {185, 186})
Stuffed(f, q, len) == \A k \in 7 .. len - 1 : Item(f, q, k - 1) = 255
SizeIs(f, q, len) ==
  len \in 7 .. 24 /\ (Item(f, q, len - 1) # 255 \/ len = 24) /\ Stuffed(f, q, len)
StampBit(f, q) ==
  IF IsMpeg2(f, q) THEN Item(f, q, 7) >= 128
  ELSE Item(f, q, StampField(f, q) - 1) \div 32 = 1

(* What a NEEDBYTES tells of the bytes before.                             *)
ParsedVideo(f, q, n, of) ==
  /\ VideoHeader(f, q)
  /\ \/ of = "pes" /\ n = 7
     \/ of = "stuffing" /\ n \in 8 .. 24 /\ There(q) >= n - 1 /\ Stuffed(f, q, n)
     \/ /\ of = "buffer" /\ n = SizeField(f, q) + 2 /\ There(q) >= n - 2
        /\ ~IsMpeg2(f, q) /\ StampField(f, q) = n
     \/ of = "pes2" /\ n = 9 /\ There(q) >= 7 /\ IsMpeg2(f, q)
     \/ /\ of \in {"stamped", "plain"} /\ n = HeaderLength(f, q)
        /\ There(q) >= IF IsMpeg2(f, q) THEN 9 ELSE StampField(f, q)
        /\ (of = "stamped" <=> StampBit(f, q))
ParsedPack(f, q, n, of) ==
  /\ f.kind = "ps" /\ Item(f, q, 3) = 186
  /\ \/ of = "pack" /\ n = 5
     \/ of = "pack2" /\ n = 14 /\ There(q) >= 5 /\ Item(f, q, 4) \div 64 = 1
     \/ /\ of = "packEnd" /\ n = PackLength(f, q) /\ n > 5
        /\ There(q) >= IF Item(f, q, 4) \div 64 = 1 THEN 14 ELSE 5
ParsedOther(f, q, n, of) ==
  /\ f.kind = "ps" /\ Item(f, q, 3) > 186 /\ Item(f, q, 3) # f.track
  /\ of = "other" /\ n = 6
ParsedPva(f, q, n, of) ==
  /\ f.kind = "pva"
  /\ \/ of = "pva" /\ n = 8
     \/ /\ of = "pvaEnd" /\ n = PvaHeaderLength(f, q) /\ n > 8 /\ There(q) >= 8
        /\ Item(f, q, 2) = 1 /\ PvaStamped(f, q)
Parsed(f, q, n, of) ==
  \/ of = "prefix" /\ n = PrefixBytes(f)
  \/ /\ There(q) >= PrefixBytes(f) /\ StartsWith(f, q, Code(f))
     /\ \/ ParsedVideo(f, q, n, of) \/ ParsedPack(f, q, n, of)
        \/ ParsedOther(f, q, n, of) \/ ParsedPva(f, q, n, of)

-----------------------------------------------------------------------------
(* Sequences of offsets; q begins r.                                       *)
Offsets == Seq(Nat)
Begins(q, r) == There(q) <= There(r) /\ \A k \in 1 .. There(q) : r[k] = q[k]

LEMMA ByteType ==
  ASSUME NEW f \in Files, NEW p \in Nat
  PROVE  Byte(f, p) \in 0 .. 255
  <1>1. f.bytes \in Seq(0 .. 255)
    BY DemuxAssumption
  <1>2. CASE p < Len(f.bytes)
    <2>1. p + 1 \in 1 .. Len(f.bytes)
      BY <1>1, <1>2, LenProperties
    <2>2. f.bytes[p + 1] \in 0 .. 255
      BY <1>1, <2>1, ElementOfSeq
    <2> QED BY <1>2, <2>2 DEF Byte
  <1>3. CASE ~(p < Len(f.bytes))
    BY <1>3 DEF Byte
  <1> QED BY <1>2, <1>3

LEMMA ItemType ==
  ASSUME NEW f \in Files, NEW q \in Offsets, NEW k \in Nat
  PROVE  Item(f, q, k) \in 0 .. 255
  <1>1. k < There(q) => q[k + 1] \in Nat
    BY DEF Offsets, There
  <1>2. CASE k < There(q)
    BY <1>1, <1>2, ByteType DEF Item, There
  <1>3. CASE ~(k < There(q))
    BY <1>3 DEF Item, There
  <1> QED BY <1>2, <1>3

LEMMA ItemBegins ==
  ASSUME NEW f, NEW q \in Offsets, NEW r \in Offsets, Begins(q, r)
  PROVE  \A k \in Nat : k < There(q) => Item(f, r, k) = Item(f, q, k)
  <1> SUFFICES ASSUME NEW k \in Nat, k < There(q)
               PROVE  Item(f, r, k) = Item(f, q, k)
    OBVIOUS
  <1>1. There(q) \in Nat /\ There(r) \in Nat /\ There(q) <= There(r) /\ r[k + 1] = q[k + 1]
    <2>1. There(q) \in Nat /\ There(r) \in Nat
      BY DEF Offsets, There
    <2>2. k + 1 \in 1 .. There(q)
      BY <2>1
    <2>3. r[k + 1] = q[k + 1] /\ There(q) <= There(r)
      BY <2>2, Zenon DEF Begins
    <2> QED BY <2>1, <2>3
  <1> QED BY <1>1 DEF Item, There

LEMMA SizeUnique ==
  ASSUME NEW f \in Files, NEW q \in Offsets, NEW a, NEW b,
         SizeIs(f, q, a), SizeIs(f, q, b)
  PROVE  a = b
  <1>1. a \in 7 .. 24 /\ b \in 7 .. 24
    BY DEF SizeIs
  <1>2. ~(a < b)
    <2> SUFFICES ASSUME a < b PROVE FALSE
      OBVIOUS
    <2>1. Item(f, q, a - 1) = 255
      BY <1>1 DEF SizeIs, Stuffed
    <2> QED BY <1>1, <2>1 DEF SizeIs
  <1>3. ~(b < a)
    <2> SUFFICES ASSUME b < a PROVE FALSE
      OBVIOUS
    <2>1. Item(f, q, b - 1) = 255
      BY <1>1 DEF SizeIs, Stuffed
    <2> QED BY <1>1, <2>1 DEF SizeIs
  <1> QED BY <1>1, <1>2, <1>3

(* SizeField finds where the stuffing ends.                                *)
LEMMA SizeFieldIs ==
  ASSUME NEW f \in Files, NEW q \in Offsets
  PROVE  SizeIs(f, q, SizeField(f, q))
  <1> DEFINE T == {n \in 7 .. 24 : Item(f, q, n - 1) # 255 \/ n = 24}
  <1>1. T \subseteq Nat /\ 24 \in T
    OBVIOUS
  <1>2. PICK m \in T : \A k \in T : m <= k
    <2> HIDE DEF T
    <2> QED BY <1>1, LeastNatural
  <1>3. m \in 7 .. 24 /\ (Item(f, q, m - 1) # 255 \/ m = 24)
    OBVIOUS
  <1>4. \A k \in 7 .. m - 1 : Item(f, q, k - 1) = 255
    <2> SUFFICES ASSUME NEW k \in 7 .. m - 1, Item(f, q, k - 1) # 255 PROVE FALSE
      OBVIOUS
    <2>1. k \in T /\ k < m
      BY <1>3
    <2> QED BY <1>2, <1>3, <2>1
  <1>5. SizeField(f, q) \in 7 .. 24
        /\ (Item(f, q, SizeField(f, q) - 1) # 255 \/ SizeField(f, q) = 24)
        /\ \A k \in 7 .. SizeField(f, q) - 1 : Item(f, q, k - 1) = 255
    <2> DEFINE P(len) == /\ Item(f, q, len - 1) # 255 \/ len = 24
                         /\ \A k \in 7 .. len - 1 : Item(f, q, k - 1) = 255
    <2>1. P(m)
      BY <1>3, <1>4
    <2>2. SizeField(f, q) = CHOOSE len \in 7 .. 24 : P(len)
      BY DEF SizeField
    <2> HIDE DEF P
    <2>3. SizeField(f, q) \in 7 .. 24 /\ P(SizeField(f, q))
      BY <1>3, <2>1, <2>2, Zenon
    <2> QED BY <2>3 DEF P
  <1> QED BY <1>5 DEF SizeIs, Stuffed

LEMMA SizeFieldFound ==
  ASSUME NEW f \in Files, NEW q \in Offsets, NEW n, SizeIs(f, q, n)
  PROVE  SizeField(f, q) = n
  BY SizeFieldIs, SizeUnique, Zenon

LEMMA HeaderBounds ==
  ASSUME NEW f \in Files, NEW q \in Offsets
  PROVE  /\ SizeField(f, q) \in 7 .. 24
         /\ StampField(f, q) \in {SizeField(f, q), SizeField(f, q) + 2}
         /\ HeaderLength(f, q) \in 7 .. 264
         /\ IsMpeg2(f, q) => HeaderLength(f, q) >= 9
         /\ ~IsMpeg2(f, q) => HeaderLength(f, q) >= StampField(f, q)
         /\ PackLength(f, q) \in 5 .. 21
         /\ PvaHeaderLength(f, q) \in 8 .. 15
         /\ ~f.tags => PvaHeaderLength(f, q) \in 8 .. 12
  <1>1. SizeField(f, q) \in 7 .. 24
    BY SizeFieldIs DEF SizeIs
  <1>2. StampField(f, q) \in {SizeField(f, q), SizeField(f, q) + 2}
    BY <1>1 DEF StampField
  <1>3. Item(f, q, 8) \in 0 .. 255 /\ Item(f, q, 13) \in 0 .. 255
        /\ Item(f, q, 5) \in 0 .. 255
    BY ItemType
  <1>4. /\ HeaderLength(f, q) \in 7 .. 264
        /\ IsMpeg2(f, q) => HeaderLength(f, q) >= 9
        /\ ~IsMpeg2(f, q) => HeaderLength(f, q) >= StampField(f, q)
    <2>1. CASE IsMpeg2(f, q)
      <3>1. HeaderLength(f, q) = 9 + Item(f, q, 8)
        BY <2>1 DEF HeaderLength
      <3>2. HeaderLength(f, q) \in 7 .. 264 /\ HeaderLength(f, q) >= 9
        BY <1>3, <3>1
      <3> QED BY <2>1, <3>2, Zenon
    <2>2. CASE ~IsMpeg2(f, q)
      <3> DEFINE more == CASE Item(f, q, StampField(f, q) - 1) \div 16 = 2 -> 4
                           [] Item(f, q, StampField(f, q) - 1) \div 16 = 3 -> 9
                           [] OTHER -> 0
      <3>1. HeaderLength(f, q) = StampField(f, q) + more
        BY <2>2 DEF HeaderLength
      <3>2. more \in 0 .. 9
        OBVIOUS
      <3> HIDE DEF more
      <3>3. HeaderLength(f, q) \in 7 .. 264 /\ HeaderLength(f, q) >= StampField(f, q)
        BY <1>1, <1>2, <3>1, <3>2
      <3> QED BY <2>2, <3>3, Zenon
    <2> QED BY <2>1, <2>2
  <1>5. PackLength(f, q) \in 5 .. 21
    <2> \A x \in 0 .. 255 : (x % 8) \in 0 .. 7
      OBVIOUS
    <2>1. Item(f, q, 13) % 8 \in 0 .. 7
      BY <1>3, Zenon
    <2> QED BY <2>1 DEF PackLength
  <1>6. PvaHeaderLength(f, q) \in 8 .. 15
        /\ (~f.tags => PvaHeaderLength(f, q) \in 8 .. 12)
    <2> \A x \in 0 .. 255 : (x % 4) \in 0 .. 3
      OBVIOUS
    <2>1. Item(f, q, 5) % 4 \in 0 .. 3
      BY <1>3, Zenon
    <2>2. PvaEarly(f, q) \in 0 .. 3 /\ (~f.tags => PvaEarly(f, q) = 0)
      BY <2>1 DEF PvaEarly
    <2> QED BY <2>2 DEF PvaHeaderLength
  <1> QED BY <1>1, <1>2, <1>4, <1>5, <1>6

-----------------------------------------------------------------------------
(* More bytes of a header do not change what was read in those before.     *)
LEMMA SizeExtends ==
  ASSUME NEW f \in Files, NEW q \in Offsets, NEW r \in Offsets, Begins(q, r),
         There(q) >= SizeField(f, q)
  PROVE  SizeField(f, r) = SizeField(f, q) /\ StampField(f, r) = StampField(f, q)
  <1>1. SizeField(f, q) \in 7 .. 24
    BY HeaderBounds
  <1>2. There(q) \in Nat
    BY DEF Offsets, There
  <1>3. \A k \in Nat : k < There(q) => Item(f, r, k) = Item(f, q, k)
    BY ItemBegins
  <1>4. SizeIs(f, r, SizeField(f, q))
    <2>1. SizeIs(f, q, SizeField(f, q))
      BY SizeFieldIs
    <2>2. Item(f, r, SizeField(f, q) - 1) = Item(f, q, SizeField(f, q) - 1)
      BY <1>1, <1>2, <1>3
    <2>3. Stuffed(f, r, SizeField(f, q))
      <3> SUFFICES ASSUME NEW k \in 7 .. SizeField(f, q) - 1
                   PROVE  Item(f, r, k - 1) = 255
        BY DEF Stuffed
      <3>1. Item(f, q, k - 1) = 255
        BY <2>1 DEF SizeIs, Stuffed
      <3>2. k - 1 \in Nat /\ k - 1 < There(q)
        BY <1>1, <1>2
      <3> QED BY <1>3, <3>1, <3>2
    <2> QED BY <2>1, <2>2, <2>3 DEF SizeIs
  <1>5. SizeField(f, r) = SizeField(f, q)
    BY <1>4, SizeFieldFound
  <1>6. Item(f, r, SizeField(f, q) - 1) = Item(f, q, SizeField(f, q) - 1)
    BY <1>1, <1>2, <1>3
  <1> QED BY <1>5, <1>6 DEF StampField

LEMMA HeaderLengthExtends ==
  ASSUME NEW f \in Files, NEW q \in Offsets, NEW r \in Offsets, Begins(q, r),
         There(q) >= IF IsMpeg2(f, q) THEN 9 ELSE StampField(f, q)
  PROVE  /\ IsMpeg2(f, r) <=> IsMpeg2(f, q)
         /\ HeaderLength(f, r) = HeaderLength(f, q)
         /\ StampBit(f, r) <=> StampBit(f, q)
         /\ ~IsMpeg2(f, q) => StampField(f, r) = StampField(f, q)
  <1>1. SizeField(f, q) \in 7 .. 24
        /\ StampField(f, q) \in {SizeField(f, q), SizeField(f, q) + 2}
    BY HeaderBounds
  <1>2. There(q) \in Nat
    BY DEF Offsets, There
  <1>3. \A k \in Nat : k < There(q) => Item(f, r, k) = Item(f, q, k)
    BY ItemBegins
  <1>4. There(q) >= 7
    BY <1>1, <1>2
  <1>5. IsMpeg2(f, r) <=> IsMpeg2(f, q)
    BY <1>2, <1>3, <1>4 DEF IsMpeg2
  <1>6. CASE IsMpeg2(f, q)
    <2>1. Item(f, r, 8) = Item(f, q, 8) /\ Item(f, r, 7) = Item(f, q, 7)
      BY <1>2, <1>3, <1>6
    <2> QED BY <1>5, <1>6, <2>1, Zenon DEF HeaderLength, StampBit
  <1>7. CASE ~IsMpeg2(f, q)
    <2>1. There(q) >= SizeField(f, q)
      BY <1>1, <1>2, <1>7
    <2>2. StampField(f, r) = StampField(f, q)
      BY <2>1, SizeExtends
    <2>3. Item(f, r, StampField(f, q) - 1) = Item(f, q, StampField(f, q) - 1)
      BY <1>1, <1>2, <1>3, <1>7
    <2> QED BY <1>5, <1>7, <2>2, <2>3, Zenon DEF HeaderLength, StampBit
  <1> QED BY <1>6, <1>7

LEMMA StartsExtends ==
  ASSUME NEW f \in Files, NEW q \in Offsets, NEW r \in Offsets, Begins(q, r),
         There(q) >= Len(Code(f))
  PROVE  StartsWith(f, r, Code(f)) <=> StartsWith(f, q, Code(f))
  <1>1. There(q) \in Nat /\ There(r) \in Nat /\ There(q) <= There(r)
    BY DEF Offsets, There, Begins
  <1>2. \A k \in Nat : k < There(q) => Item(f, r, k) = Item(f, q, k)
    BY ItemBegins
  <1>3. Len(Code(f)) \in Nat /\ DOMAIN Code(f) = 1 .. Len(Code(f))
    <2> Code(f) \in Seq(Nat)
      BY DEF Code
    <2> QED BY LenProperties
  <1>4. \A k \in DOMAIN Code(f) : Item(f, r, k - 1) = Item(f, q, k - 1)
    BY <1>1, <1>2, <1>3
  <1> QED BY <1>1, <1>3, <1>4 DEF StartsWith, There

LEMMA ParsedExtends ==
  ASSUME NEW f \in Files, NEW q \in Offsets, NEW r \in Offsets, Begins(q, r),
         NEW n, NEW of, Parsed(f, q, n, of)
  PROVE  Parsed(f, r, n, of)
  <1>1. CASE of = "prefix" /\ n = PrefixBytes(f)
    BY <1>1 DEF Parsed
  <1>2. CASE /\ There(q) >= PrefixBytes(f) /\ StartsWith(f, q, Code(f))
             /\ \/ ParsedVideo(f, q, n, of) \/ ParsedPack(f, q, n, of)
                \/ ParsedOther(f, q, n, of) \/ ParsedPva(f, q, n, of)
    <2>1. There(q) \in Nat /\ There(r) \in Nat /\ There(q) <= There(r)
      BY DEF Offsets, There, Begins
    <2>2. \A k \in Nat : k < There(q) => Item(f, r, k) = Item(f, q, k)
      BY ItemBegins
    <2>3. Len(Code(f)) <= PrefixBytes(f) /\ PrefixBytes(f) \in Nat /\ Len(Code(f)) \in Nat
      BY DEF Code, PrefixBytes
    <2>4. There(r) >= PrefixBytes(f) /\ StartsWith(f, r, Code(f))
      <3>1. There(r) >= PrefixBytes(f) /\ There(q) >= Len(Code(f))
        BY <1>2, <2>1, <2>3
      <3> QED BY <1>2, <3>1, StartsExtends
    <2>5. f.kind # "pva" => There(q) >= 4 /\ Item(f, r, 3) = Item(f, q, 3)
      BY <1>2, <2>1, <2>2 DEF PrefixBytes
    <2>6. VideoHeader(f, q) => VideoHeader(f, r)
      BY <2>5 DEF VideoHeader
    <2>7. CASE ParsedVideo(f, q, n, of)
      <3>1. ParsedVideo(f, r, n, of)
        <4>1. CASE of = "pes" /\ n = 7
          BY <2>6, <2>7, <4>1 DEF ParsedVideo
        <4>2. CASE of = "stuffing" /\ n \in 8 .. 24 /\ There(q) >= n - 1 /\ Stuffed(f, q, n)
          <5>1. Stuffed(f, r, n)
            <6> SUFFICES ASSUME NEW k \in 7 .. n - 1 PROVE Item(f, r, k - 1) = 255
              BY DEF Stuffed
            <6>1. Item(f, q, k - 1) = 255
              BY <4>2 DEF Stuffed
            <6>2. k - 1 \in Nat /\ k - 1 < There(q)
              BY <2>1, <4>2
            <6> QED BY <2>2, <6>1, <6>2
          <5>2. There(r) >= n - 1
            BY <2>1, <4>2
          <5> QED BY <2>6, <2>7, <4>2, <5>1, <5>2 DEF ParsedVideo
        <4>3. CASE /\ of = "buffer" /\ n = SizeField(f, q) + 2 /\ There(q) >= n - 2
                   /\ ~IsMpeg2(f, q) /\ StampField(f, q) = n
          <5>1. SizeField(f, q) \in 7 .. 24
            BY HeaderBounds
          <5>2. There(q) >= SizeField(f, q) /\ There(r) >= n - 2 /\ There(q) >= 7
            <6>1. n = SizeField(f, q) + 2 /\ There(q) >= n - 2
              BY <4>3, Zenon
            <6>2. n \in Nat /\ n - 2 = SizeField(f, q)
              BY <5>1, <6>1
            <6>3. There(q) >= SizeField(f, q)
              BY <6>1, <6>2
            <6>4. There(r) >= n - 2
              BY <2>1, <5>1, <6>1
            <6>5. There(q) >= 7
              BY <2>1, <5>1, <6>3
            <6> QED BY <6>3, <6>4, <6>5
          <5>3. SizeField(f, r) = SizeField(f, q) /\ StampField(f, r) = StampField(f, q)
            BY <5>2, SizeExtends
          <5>4. ~IsMpeg2(f, r)
            <6> Item(f, r, 6) = Item(f, q, 6)
              BY <2>1, <2>2, <5>2
            <6> QED BY <4>3 DEF IsMpeg2
          <5>5. of = "buffer" /\ n = SizeField(f, r) + 2 /\ StampField(f, r) = n
            BY <4>3, <5>3
          <5> QED BY <2>6, <2>7, <5>2, <5>4, <5>5 DEF ParsedVideo
        <4>4. CASE of = "pes2" /\ n = 9 /\ There(q) >= 7 /\ IsMpeg2(f, q)
          <5>1. Item(f, r, 6) = Item(f, q, 6) /\ There(r) >= 7
            BY <2>1, <2>2, <4>4
          <5>2. IsMpeg2(f, r)
            BY <4>4, <5>1 DEF IsMpeg2
          <5> QED BY <2>6, <2>7, <4>4, <5>1, <5>2 DEF ParsedVideo
        <4>5. CASE /\ of \in {"stamped", "plain"} /\ n = HeaderLength(f, q)
                   /\ There(q) >= IF IsMpeg2(f, q) THEN 9 ELSE StampField(f, q)
                   /\ (of = "stamped" <=> StampBit(f, q))
          <5>1. /\ IsMpeg2(f, r) <=> IsMpeg2(f, q)
                /\ HeaderLength(f, r) = HeaderLength(f, q)
                /\ StampBit(f, r) <=> StampBit(f, q)
                /\ ~IsMpeg2(f, q) => StampField(f, r) = StampField(f, q)
            BY <4>5, HeaderLengthExtends
          <5>2. StampField(f, q) \in Nat
            BY HeaderBounds
          <5>3. There(r) >= IF IsMpeg2(f, r) THEN 9 ELSE StampField(f, r)
            BY <2>1, <4>5, <5>1, <5>2
          <5> QED BY <2>6, <2>7, <4>5, <5>1, <5>3 DEF ParsedVideo
        <4> QED BY <2>7, <4>1, <4>2, <4>3, <4>4, <4>5 DEF ParsedVideo
      <3> QED BY <2>4, <3>1 DEF Parsed
    <2>8. CASE ParsedPack(f, q, n, of)
      <3>1. f.kind = "ps" /\ Item(f, r, 3) = 186
        BY <2>5, <2>8 DEF ParsedPack
      <3>2. ParsedPack(f, r, n, of)
        <4>1. CASE of = "pack" /\ n = 5
          BY <3>1, <4>1 DEF ParsedPack
        <4>2. CASE of = "pack2" /\ n = 14 /\ There(q) >= 5 /\ Item(f, q, 4) \div 64 = 1
          <5>1. Item(f, r, 4) = Item(f, q, 4) /\ There(r) >= 5
            BY <2>1, <2>2, <4>2
          <5> QED BY <3>1, <4>2, <5>1 DEF ParsedPack
        <4>3. CASE /\ of = "packEnd" /\ n = PackLength(f, q) /\ n > 5
                   /\ There(q) >= IF Item(f, q, 4) \div 64 = 1 THEN 14 ELSE 5
          <5>1. Item(f, r, 4) = Item(f, q, 4)
            BY <2>1, <2>2, <4>3
          <5>2. Item(f, q, 4) \div 64 = 1 => Item(f, r, 13) = Item(f, q, 13)
            BY <2>1, <2>2, <4>3
          <5>3. PackLength(f, r) = PackLength(f, q)
            BY <5>1, <5>2 DEF PackLength
          <5>4. There(r) >= IF Item(f, r, 4) \div 64 = 1 THEN 14 ELSE 5
            BY <2>1, <4>3, <5>1
          <5> QED BY <3>1, <4>3, <5>3, <5>4 DEF ParsedPack
        <4> QED BY <2>8, <4>1, <4>2, <4>3 DEF ParsedPack
      <3> QED BY <2>4, <3>2 DEF Parsed
    <2>9. CASE ParsedOther(f, q, n, of)
      <3>1. ParsedOther(f, r, n, of)
        BY <2>5, <2>9 DEF ParsedOther
      <3> QED BY <2>4, <3>1 DEF Parsed
    <2>10. CASE ParsedPva(f, q, n, of)
      <3>1. ParsedPva(f, r, n, of)
        <4>1. CASE of = "pva" /\ n = 8
          BY <2>10, <4>1 DEF ParsedPva
        <4>2. CASE /\ of = "pvaEnd" /\ n = PvaHeaderLength(f, q) /\ n > 8 /\ There(q) >= 8
                   /\ Item(f, q, 2) = 1 /\ PvaStamped(f, q)
          <5>1. Item(f, r, 2) = Item(f, q, 2) /\ Item(f, r, 5) = Item(f, q, 5)
                /\ There(r) >= 8
            BY <2>1, <2>2, <4>2
          <5>2. PvaHeaderLength(f, r) = PvaHeaderLength(f, q)
            BY <5>1 DEF PvaHeaderLength, PvaEarly, PvaStamped
          <5>3. PvaStamped(f, r)
            BY <4>2, <5>1 DEF PvaStamped
          <5> QED BY <2>10, <4>2, <5>1, <5>2, <5>3 DEF ParsedPva
        <4> QED BY <2>10, <4>1, <4>2 DEF ParsedPva
      <3> QED BY <2>4, <3>1 DEF Parsed
    <2> QED BY <1>2, <2>7, <2>8, <2>9, <2>10
  <1> QED BY <1>1, <1>2 DEF Parsed

-----------------------------------------------------------------------------
(* A NEEDBYTES asks for no more than head_buf has room for, and asks for   *)
(* more than there is only while the header is incomplete.                 *)
LEMMA ParsedCases ==
  ASSUME NEW f \in Files, NEW q \in Offsets, NEW n, NEW of, Parsed(f, q, n, of),
         ~(of = "prefix" /\ n = PrefixBytes(f))
  PROVE  /\ There(q) >= PrefixBytes(f) /\ StartsWith(f, q, Code(f))
         /\ \/ ParsedVideo(f, q, n, of) \/ ParsedPack(f, q, n, of)
            \/ ParsedOther(f, q, n, of) \/ ParsedPva(f, q, n, of)
  BY Zenon DEF Parsed

LEMMA ParsedBounds ==
  ASSUME NEW f \in Files, NEW q \in Offsets, NEW n, NEW of, Parsed(f, q, n, of)
  PROVE  /\ n \in 1 .. 264
         /\ f.kind = "pva" => n <= 15
         /\ f.kind = "pva" /\ ~f.tags => n <= 12
  <1>1. /\ SizeField(f, q) \in 7 .. 24 /\ HeaderLength(f, q) \in 7 .. 264
        /\ PackLength(f, q) \in 5 .. 21 /\ PvaHeaderLength(f, q) \in 8 .. 15
        /\ ~f.tags => PvaHeaderLength(f, q) \in 8 .. 12
    BY HeaderBounds
  <1>2. CASE of = "prefix" /\ n = PrefixBytes(f)
    BY <1>2 DEF PrefixBytes
  <1>3. CASE ParsedVideo(f, q, n, of)
    <2>1. f.kind # "pva"
      BY <1>3 DEF ParsedVideo, VideoHeader
    <2>2. n \in 1 .. 264
      <3>1. n \in {7, 9} \/ n \in 8 .. 24 \/ n = SizeField(f, q) + 2
            \/ n = HeaderLength(f, q)
        BY <1>3, Zenon DEF ParsedVideo
      <3> QED BY <1>1, <3>1
    <2> QED BY <2>1, <2>2
  <1>4. CASE ParsedPack(f, q, n, of)
    BY <1>1, <1>4 DEF ParsedPack
  <1>5. CASE ParsedOther(f, q, n, of)
    BY <1>5 DEF ParsedOther
  <1>6. CASE ParsedPva(f, q, n, of)
    <2>1. CASE n = 8
      BY <2>1
    <2>2. CASE n = PvaHeaderLength(f, q)
      BY <1>1, <2>2
    <2> QED BY <1>6, <2>1, <2>2 DEF ParsedPva
  <1> QED BY <1>2, <1>3, <1>4, <1>5, <1>6 DEF Parsed

LEMMA VideoNeeds ==
  ASSUME NEW f \in Files, NEW q \in Offsets, There(q) >= PrefixBytes(f),
         StartsWith(f, q, Code(f)), VideoHeader(f, q)
  PROVE  Needs(f, q) = HeaderLength(f, q)
  <1>1. ~(There(q) < PrefixBytes(f))
    <2>1. There(q) \in Nat /\ PrefixBytes(f) \in Nat
      BY DEF Offsets, There, PrefixBytes
    <2> QED BY <2>1
  <1>2. CASE f.kind = "ts"
    BY <1>1, <1>2 DEF Needs
  <1>3. CASE f.kind = "ps" /\ Item(f, q, 3) = f.track /\ Item(f, q, 3) \notin {185, 186}
    <2>1. Needs(f, q) = ProgramNeeds(f, q)
      BY <1>1, <1>3 DEF Needs
    <2>2. ProgramNeeds(f, q) = HeaderLength(f, q)
      <3>1. Item(f, q, 3) \in 0 .. 255
        BY ItemType
      <3> QED BY <1>3, <3>1 DEF ProgramNeeds
    <2> QED BY <2>1, <2>2
  <1> QED BY <1>2, <1>3 DEF VideoHeader

LEMMA ParsedWaits ==
  ASSUME NEW f \in Files, NEW q \in Offsets, NEW n, NEW of, Parsed(f, q, n, of),
         There(q) < n
  PROVE  Waits(f, q)
  <1>1. There(q) \in Nat /\ PrefixBytes(f) \in Nat
    BY DEF Offsets, There, PrefixBytes
  <1>2. CASE of = "prefix" /\ n = PrefixBytes(f)
    BY <1>1, <1>2 DEF Waits, Needs
  <1>3. CASE ~(of = "prefix" /\ n = PrefixBytes(f))
    <2>1. /\ There(q) >= PrefixBytes(f) /\ StartsWith(f, q, Code(f))
          /\ \/ ParsedVideo(f, q, n, of) \/ ParsedPack(f, q, n, of)
             \/ ParsedOther(f, q, n, of) \/ ParsedPva(f, q, n, of)
      BY <1>3, ParsedCases, Zenon
    <2>2. ~(There(q) < PrefixBytes(f))
      BY <1>1, <2>1
    <2>3. /\ SizeField(f, q) \in 7 .. 24 /\ HeaderLength(f, q) \in 7 .. 264
          /\ StampField(f, q) \in {SizeField(f, q), SizeField(f, q) + 2}
          /\ PackLength(f, q) \in 5 .. 21 /\ PvaHeaderLength(f, q) \in 8 .. 15
      BY HeaderBounds
    <2>4. /\ IsMpeg2(f, q) => HeaderLength(f, q) >= 9
          /\ ~IsMpeg2(f, q) => HeaderLength(f, q) >= StampField(f, q)
      BY HeaderBounds, Zenon
    <2>5. CASE ParsedVideo(f, q, n, of)
      <3>1. Needs(f, q) = HeaderLength(f, q)
        BY <2>1, <2>5, VideoNeeds DEF ParsedVideo
      <3>2. HeaderLength(f, q) >= n
        <4>1. CASE n = 7
          BY <2>3, <4>1
        <4>2. CASE n \in 8 .. 24 /\ Stuffed(f, q, n)
          <5>1. SizeField(f, q) >= n
            <6> SUFFICES ASSUME SizeField(f, q) < n PROVE FALSE
              BY <2>3, <4>2
            <6>1. Item(f, q, SizeField(f, q) - 1) = 255
              <7> SizeField(f, q) \in 7 .. n - 1
                BY <2>3, <4>2
              <7> QED BY <4>2, Zenon DEF Stuffed
            <6>2. SizeField(f, q) = 24
              BY <6>1, SizeFieldIs DEF SizeIs
            <6> QED BY <4>2, <6>2
          <5>2. ~IsMpeg2(f, q)
            <6>1. \A k \in 7 .. n - 1 : Item(f, q, k - 1) = 255
              BY <4>2, Zenon DEF Stuffed
            <6>2. Item(f, q, 6) = 255
              BY <4>2, <6>1
            <6> QED BY <6>2 DEF IsMpeg2
          <5>3. HeaderLength(f, q) >= StampField(f, q)
            BY <2>4, <5>2, Zenon
          <5> QED BY <2>3, <4>2, <5>1, <5>3
        <4>3. CASE ~IsMpeg2(f, q) /\ StampField(f, q) = n
          <5>1. HeaderLength(f, q) >= StampField(f, q)
            BY <2>4, <4>3, Zenon
          <5> QED BY <4>3, <5>1
        <4>4. CASE n = 9 /\ IsMpeg2(f, q)
          <5>1. HeaderLength(f, q) >= 9
            BY <2>4, <4>4, Zenon
          <5> QED BY <4>4, <5>1
        <4>5. CASE n = HeaderLength(f, q)
          BY <2>3, <4>5
        <4> QED BY <2>5, <4>1, <4>2, <4>3, <4>4, <4>5, Zenon DEF ParsedVideo
      <3>3. n \in Nat
        <4> n \in 1 .. 264
          BY ParsedBounds, Zenon
        <4> QED OBVIOUS
      <3>4. HeaderLength(f, q) > There(q)
        BY <1>1, <2>3, <3>2, <3>3
      <3> QED BY <3>1, <3>4, Zenon DEF Waits
    <2>6. CASE ParsedPack(f, q, n, of)
      <3>1. Needs(f, q) = ProgramNeeds(f, q) /\ Item(f, q, 3) = 186
        BY <2>1, <2>2, <2>6 DEF Needs, ParsedPack
      <3>2. Needs(f, q) = PackLength(f, q)
        BY <3>1 DEF ProgramNeeds
      <3>3. PackLength(f, q) >= n /\ n \in Nat
        <4>1. CASE n = 5
          BY <2>3, <4>1
        <4>2. CASE n = 14 /\ Item(f, q, 4) \div 64 = 1
          <5>1. PackLength(f, q) = 14 + (Item(f, q, 13) % 8)
            <6> Item(f, q, 4) \in 0 .. 255
              BY ItemType
            <6> QED BY <4>2 DEF PackLength
          <5>2. \A x \in 0 .. 255 : (x % 8) \in 0 .. 7
            OBVIOUS
          <5>3. Item(f, q, 13) % 8 \in 0 .. 7
            BY <5>2, ItemType
          <5> QED BY <4>2, <5>1, <5>3
        <4>3. CASE n = PackLength(f, q)
          BY <2>3, <4>3
        <4> QED BY <2>6, <4>1, <4>2, <4>3 DEF ParsedPack
      <3> QED BY <1>1, <2>3, <3>2, <3>3 DEF Waits
    <2>7. CASE ParsedOther(f, q, n, of)
      <3>1. Needs(f, q) = ProgramNeeds(f, q)
        BY <2>1, <2>2, <2>7 DEF Needs, ParsedOther
      <3>2. ProgramNeeds(f, q) = 6
        <4>1. Item(f, q, 3) \in 0 .. 255
          BY ItemType
        <4> QED BY <2>7, <4>1 DEF ProgramNeeds, ParsedOther
      <3> QED BY <1>1, <2>7, <3>1, <3>2 DEF Waits, ParsedOther
    <2>8. CASE ParsedPva(f, q, n, of)
      <3>1. Needs(f, q) = PvaHeaderLength(f, q)
        BY <2>1, <2>2, <2>8 DEF Needs, ParsedPva
      <3>2. PvaHeaderLength(f, q) >= n /\ n \in Nat
        <4>1. CASE n = 8
          BY <2>3, <4>1
        <4>2. CASE n = PvaHeaderLength(f, q)
          BY <2>3, <4>2
        <4> QED BY <2>8, <4>1, <4>2 DEF ParsedPva
      <3> QED BY <1>1, <2>3, <3>1, <3>2 DEF Waits
    <2> QED BY <2>1, <2>5, <2>6, <2>7, <2>8
  <1> QED BY <1>2, <1>3

-----------------------------------------------------------------------------
(* What a NEEDBYTES that is done leads to.                                 *)
Started(f, q) == There(q) >= PrefixBytes(f) /\ StartsWith(f, q, Code(f))
BeforeStamp(f, q, len) ==
  /\ Started(f, q) /\ VideoHeader(f, q) /\ ~IsMpeg2(f, q)
  /\ len \in 7 .. 24 /\ There(q) >= len /\ Stuffed(f, q, len)
StampKind(f, q, n) == IF Item(f, q, n - 1) \div 32 = 1 THEN "stamped" ELSE "plain"

LEMMA ThereType ==
  ASSUME NEW q \in Offsets
  PROVE  There(q) \in Nat
  BY DEF Offsets, There

LEMMA ParsedIs ==
  ASSUME NEW f, NEW q, NEW n, NEW of, of # "prefix"
  PROVE  Parsed(f, q, n, of) <=>
           Started(f, q) /\ (\/ ParsedVideo(f, q, n, of) \/ ParsedPack(f, q, n, of)
                             \/ ParsedOther(f, q, n, of) \/ ParsedPva(f, q, n, of))
  BY Zenon DEF Parsed, Started

LEMMA ParsedByKind ==
  ASSUME NEW f, NEW q, NEW n, NEW of
  PROVE  /\ Parsed(f, q, n, "pes") => Started(f, q) /\ VideoHeader(f, q) /\ n = 7
         /\ of \in {"stuffing", "buffer", "pes2", "stamped", "plain"}
            /\ Parsed(f, q, n, of) =>
              Started(f, q) /\ VideoHeader(f, q) /\ ParsedVideo(f, q, n, of)
         /\ of \in {"pack", "pack2", "packEnd"} /\ Parsed(f, q, n, of) =>
              Started(f, q) /\ ParsedPack(f, q, n, of)
         /\ Parsed(f, q, n, "other") =>
              Started(f, q) /\ ParsedOther(f, q, n, "other") /\ n = 6
         /\ of \in {"pva", "pvaEnd"} /\ Parsed(f, q, n, of) =>
              Started(f, q) /\ ParsedPva(f, q, n, of)
  <1>1. Parsed(f, q, n, "pes") => Started(f, q) /\ VideoHeader(f, q) /\ n = 7
    <2> SUFFICES ASSUME Parsed(f, q, n, "pes")
                 PROVE  Started(f, q) /\ VideoHeader(f, q) /\ n = 7
      OBVIOUS
    <2>1. "pes" # "prefix" /\ "pes" # "other" /\ "pes" \notin {"pack", "pack2", "packEnd"}
          /\ "pes" \notin {"pva", "pvaEnd"}
          /\ "pes" \notin {"stuffing", "buffer", "pes2", "stamped", "plain"}
      OBVIOUS
    <2>2. Started(f, q) /\ ParsedVideo(f, q, n, "pes")
      BY <2>1, ParsedIs, Zenon DEF ParsedPack, ParsedOther, ParsedPva
    <2> QED BY <2>1, <2>2, Zenon DEF ParsedVideo
  <1>2. of \in {"stuffing", "buffer", "pes2", "stamped", "plain"}
        /\ Parsed(f, q, n, of) =>
          Started(f, q) /\ VideoHeader(f, q) /\ ParsedVideo(f, q, n, of)
    <2> SUFFICES ASSUME of \in {"stuffing", "buffer", "pes2", "stamped", "plain"},
                        Parsed(f, q, n, of)
                 PROVE  Started(f, q) /\ VideoHeader(f, q) /\ ParsedVideo(f, q, n, of)
      OBVIOUS
    <2>1. of # "prefix" /\ of # "other" /\ of \notin {"pack", "pack2", "packEnd"}
          /\ of \notin {"pva", "pvaEnd"}
      OBVIOUS
    <2>2. Started(f, q) /\ ParsedVideo(f, q, n, of)
      BY <2>1, ParsedIs, Zenon DEF ParsedPack, ParsedOther, ParsedPva
    <2> QED BY <2>2, Zenon DEF ParsedVideo
  <1>3. of \in {"pack", "pack2", "packEnd"} /\ Parsed(f, q, n, of) =>
          Started(f, q) /\ ParsedPack(f, q, n, of)
    <2> SUFFICES ASSUME of \in {"pack", "pack2", "packEnd"}, Parsed(f, q, n, of)
                 PROVE  Started(f, q) /\ ParsedPack(f, q, n, of)
      OBVIOUS
    <2>1. of # "prefix" /\ of # "other" /\ of # "pes" /\ of # "stuffing" /\ of # "buffer"
          /\ of # "pes2" /\ of \notin {"stamped", "plain"} /\ of # "pva" /\ of # "pvaEnd"
      OBVIOUS
    <2> QED BY <2>1, ParsedIs, Zenon DEF ParsedVideo, ParsedOther, ParsedPva
  <1>4. Parsed(f, q, n, "other") =>
          Started(f, q) /\ ParsedOther(f, q, n, "other") /\ n = 6
    <2> SUFFICES ASSUME Parsed(f, q, n, "other")
                 PROVE  Started(f, q) /\ ParsedOther(f, q, n, "other") /\ n = 6
      OBVIOUS
    <2> DEFINE o == "other"
    <2>1. o # "prefix" /\ o # "pes" /\ o # "stuffing" /\ o # "buffer" /\ o # "pes2"
          /\ o \notin {"stamped", "plain"} /\ o # "pva" /\ o # "pvaEnd"
          /\ o # "pack" /\ o # "pack2" /\ o # "packEnd"
      OBVIOUS
    <2>2. Parsed(f, q, n, o)
      OBVIOUS
    <2> HIDE DEF o
    <2>3. Started(f, q) /\ ParsedOther(f, q, n, o)
      BY <2>1, <2>2, ParsedIs, Zenon DEF ParsedVideo, ParsedPack, ParsedPva
    <2>4. n = 6
      BY <2>3, Zenon DEF ParsedOther
    <2> QED BY <2>3, <2>4, Zenon DEF o
  <1>5. of \in {"pva", "pvaEnd"} /\ Parsed(f, q, n, of) =>
          Started(f, q) /\ ParsedPva(f, q, n, of)
    <2> SUFFICES ASSUME of \in {"pva", "pvaEnd"}, Parsed(f, q, n, of)
                 PROVE  Started(f, q) /\ ParsedPva(f, q, n, of)
      OBVIOUS
    <2>1. of # "prefix" /\ of # "other" /\ of # "pes" /\ of # "stuffing" /\ of # "buffer"
          /\ of # "pes2" /\ of \notin {"stamped", "plain"}
          /\ of # "pack" /\ of # "pack2" /\ of # "packEnd"
      OBVIOUS
    <2> QED BY <2>1, ParsedIs, Zenon DEF ParsedVideo, ParsedOther, ParsedPack
  <1> QED BY <1>1, <1>2, <1>3, <1>4, <1>5, Zenon

(* The start of a header, then each kind of it: how many bytes it has, or  *)
(* what the code asks for next.                                            *)
LEMMA StartParsed ==
  ASSUME NEW f \in Files, NEW q \in Offsets, Started(f, q)
  PROVE  /\ VideoHeader(f, q) => Parsed(f, q, 7, "pes")
         /\ f.kind = "ps" /\ Item(f, q, 3) = 186 => Parsed(f, q, 5, "pack")
         /\ f.kind = "ps" /\ Item(f, q, 3) > 186 /\ Item(f, q, 3) # f.track =>
              Parsed(f, q, 6, "other")
         /\ f.kind = "pva" => Parsed(f, q, 8, "pva")
  <1>1. VideoHeader(f, q) => ParsedVideo(f, q, 7, "pes")
    BY Zenon DEF ParsedVideo
  <1>2. f.kind = "ps" /\ Item(f, q, 3) = 186 => ParsedPack(f, q, 5, "pack")
    BY Zenon DEF ParsedPack
  <1>3. f.kind = "ps" /\ Item(f, q, 3) > 186 /\ Item(f, q, 3) # f.track =>
          ParsedOther(f, q, 6, "other")
    BY Zenon DEF ParsedOther
  <1>4. f.kind = "pva" => ParsedPva(f, q, 8, "pva")
    BY Zenon DEF ParsedPva
  <1> QED BY <1>1, <1>2, <1>3, <1>4, Zenon DEF Parsed, Started

LEMMA PackParsed ==
  ASSUME NEW f \in Files, NEW q \in Offsets, NEW n, NEW of,
         Parsed(f, q, n, of), There(q) >= n, of \in {"pack", "pack2", "packEnd"}
  PROVE  /\ Started(f, q) /\ f.kind = "ps" /\ Item(f, q, 3) = 186
         /\ of = "pack" /\ Item(f, q, 4) \div 64 = 1 => Parsed(f, q, 14, "pack2")
         /\ of = "pack" /\ Item(f, q, 4) \div 64 # 1 /\ Item(f, q, 4) \div 16 = 2 =>
              Parsed(f, q, 12, "packEnd")
         /\ of = "pack" /\ Item(f, q, 4) \div 64 # 1 /\ Item(f, q, 4) \div 16 # 2 =>
              PackLength(f, q) = 5 /\ n = 5
         /\ of = "pack2" => Parsed(f, q, 14 + (Item(f, q, 13) % 8), "packEnd")
         /\ of = "packEnd" => n = PackLength(f, q)
  <1>1. Started(f, q) /\ ParsedPack(f, q, n, of)
    BY ParsedByKind, Zenon
  <1>2. f.kind = "ps" /\ Item(f, q, 3) = 186
    BY <1>1, Zenon DEF ParsedPack
  <1>3. /\ Item(f, q, 4) \in 0 .. 255 /\ There(q) \in Nat
    BY ItemType, ThereType
  <1>4. of = "pack" => n = 5
    BY <1>1, Zenon DEF ParsedPack
  <1>5. of = "pack" => There(q) >= 5
    BY <1>3, <1>4
  <1>6. ASSUME of = "pack", Item(f, q, 4) \div 64 = 1
        PROVE  Parsed(f, q, 14, "pack2")
    <2>1. ParsedPack(f, q, 14, "pack2")
      BY <1>2, <1>5, <1>6, Zenon DEF ParsedPack
    <2> QED BY <1>1, <2>1, Zenon DEF Parsed, Started
  <1>7. ASSUME of = "pack", Item(f, q, 4) \div 64 # 1, Item(f, q, 4) \div 16 = 2
        PROVE  Parsed(f, q, 12, "packEnd")
    <2>1. PackLength(f, q) = 12
      BY <1>7 DEF PackLength
    <2>2. 12 > 5
      OBVIOUS
    <2>3. There(q) >= IF Item(f, q, 4) \div 64 = 1 THEN 14 ELSE 5
      BY <1>5, <1>7, Zenon
    <2>4. ParsedPack(f, q, 12, "packEnd")
      BY <1>2, <2>1, <2>2, <2>3, Zenon DEF ParsedPack
    <2> QED BY <1>1, <2>4, Zenon DEF Parsed, Started
  <1>8. ASSUME of = "pack", Item(f, q, 4) \div 64 # 1, Item(f, q, 4) \div 16 # 2
        PROVE  PackLength(f, q) = 5
    BY <1>8 DEF PackLength
  <1>9. ASSUME of = "pack2" PROVE Parsed(f, q, 14 + (Item(f, q, 13) % 8), "packEnd")
    <2>1. n = 14 /\ Item(f, q, 4) \div 64 = 1
      BY <1>1, <1>9, Zenon DEF ParsedPack
    <2>2. There(q) >= 14
      BY <1>3, <2>1
    <2>3. \A x \in 0 .. 255 : (x % 8) \in 0 .. 7
      OBVIOUS
    <2>4. Item(f, q, 13) % 8 \in 0 .. 7
      BY <2>3, ItemType
    <2> DEFINE m == 14 + (Item(f, q, 13) % 8)
    <2>5. m > 5
      BY <2>4
    <2>6. m = PackLength(f, q)
      BY <1>3, <2>1 DEF PackLength
    <2>7. There(q) >= IF Item(f, q, 4) \div 64 = 1 THEN 14 ELSE 5
      BY <2>1, <2>2, Zenon
    <2> HIDE DEF m
    <2>8. ParsedPack(f, q, m, "packEnd")
      BY <1>2, <2>5, <2>6, <2>7, Zenon DEF ParsedPack
    <2>9. Parsed(f, q, m, "packEnd")
      BY <1>1, <2>8, Zenon DEF Parsed, Started
    <2> QED BY <2>9, Zenon DEF m
  <1>10. of = "packEnd" => n = PackLength(f, q)
    BY <1>1, Zenon DEF ParsedPack
  <1> QED BY <1>1, <1>2, <1>4, <1>6, <1>7, <1>8, <1>9, <1>10, Zenon

LEMMA PvaParsed ==
  ASSUME NEW f \in Files, NEW q \in Offsets, NEW n, NEW of,
         Parsed(f, q, n, of), There(q) >= n, of \in {"pva", "pvaEnd"}
  PROVE  /\ Started(f, q) /\ f.kind = "pva"
         /\ of = "pva" => n = 8
         /\ of = "pva" /\ Item(f, q, 2) = 1 /\ PvaStamped(f, q) =>
              Parsed(f, q, 12 + PvaEarly(f, q), "pvaEnd")
         /\ of = "pva" /\ ~(Item(f, q, 2) = 1 /\ PvaStamped(f, q)) =>
              PvaHeaderLength(f, q) = 8
         /\ of = "pvaEnd" => /\ n = PvaHeaderLength(f, q) /\ n > 8
                             /\ Item(f, q, 2) = 1 /\ PvaStamped(f, q)
  <1>1. Started(f, q) /\ ParsedPva(f, q, n, of)
    BY ParsedByKind, Zenon
  <1>2. f.kind = "pva" /\ (of = "pva" => n = 8)
    BY <1>1, Zenon DEF ParsedPva
  <1>3. There(q) \in Nat
    BY ThereType
  <1>4. of = "pva" => There(q) >= 8
    BY <1>2, <1>3
  <1>5. ASSUME of = "pva", Item(f, q, 2) = 1, PvaStamped(f, q)
        PROVE  Parsed(f, q, 12 + PvaEarly(f, q), "pvaEnd")
    <2> DEFINE m == 12 + PvaEarly(f, q)
    <2>1. m = PvaHeaderLength(f, q)
      BY <1>5, Zenon DEF PvaHeaderLength
    <2>2. m > 8
      <3>1. \A x \in 0 .. 255 : (x % 4) \in 0 .. 3
        OBVIOUS
      <3>2. Item(f, q, 5) % 4 \in 0 .. 3
        BY <3>1, ItemType
      <3>3. PvaEarly(f, q) \in 0 .. 3
        BY <3>2 DEF PvaEarly
      <3> QED BY <3>3
    <2> HIDE DEF m
    <2>3. ParsedPva(f, q, m, "pvaEnd")
      BY <1>2, <1>4, <1>5, <2>1, <2>2, Zenon DEF ParsedPva
    <2>4. Parsed(f, q, m, "pvaEnd")
      BY <1>1, <2>3, Zenon DEF Parsed, Started
    <2> QED BY <2>4, Zenon DEF m
  <1>6. ~(Item(f, q, 2) = 1 /\ PvaStamped(f, q)) => PvaHeaderLength(f, q) = 8
    BY Zenon DEF PvaHeaderLength
  <1>7. of = "pvaEnd" => /\ n = PvaHeaderLength(f, q) /\ n > 8
                         /\ Item(f, q, 2) = 1 /\ PvaStamped(f, q)
    BY <1>1, Zenon DEF ParsedPva
  <1> QED BY <1>1, <1>2, <1>5, <1>6, <1>7, Zenon

LEMMA StampParsed ==
  ASSUME NEW f \in Files, NEW q \in Offsets, NEW n,
         Started(f, q), VideoHeader(f, q), ~IsMpeg2(f, q),
         StampField(f, q) = n, There(q) >= n
  PROVE  Parsed(f, q, n + mpeg1_skip_table[Item(f, q, n - 1) \div 16],
                StampKind(f, q, n))
  <1> DEFINE m == n + mpeg1_skip_table[Item(f, q, n - 1) \div 16]
  <1>1. SizeField(f, q) \in 7 .. 24 /\ n \in {SizeField(f, q), SizeField(f, q) + 2}
    BY HeaderBounds, Zenon
  <1>2. HeaderLength(f, q) = m
    <2>1. Item(f, q, n - 1) \in 0 .. 255
      <3> n - 1 \in Nat
        BY <1>1
      <3> QED BY ItemType
    <2>2. Item(f, q, n - 1) \div 16 \in 0 .. 15
      BY <2>1
    <2>3. mpeg1_skip_table[Item(f, q, n - 1) \div 16] =
            CASE Item(f, q, n - 1) \div 16 = 2 -> 4
              [] Item(f, q, n - 1) \div 16 = 3 -> 9
              [] OTHER -> 0
      BY <2>2 DEF mpeg1_skip_table
    <2> QED BY <2>3, Zenon DEF HeaderLength
  <1>3. There(q) >= IF IsMpeg2(f, q) THEN 9 ELSE StampField(f, q)
    BY Zenon
  <1>4. StampKind(f, q, n) \in {"stamped", "plain"}
        /\ (StampKind(f, q, n) = "stamped" <=> StampBit(f, q))
    <2>1. StampBit(f, q) <=> Item(f, q, n - 1) \div 32 = 1
      BY Zenon DEF StampBit
    <2> QED BY <2>1 DEF StampKind
  <1> HIDE DEF m
  <1>5. ParsedVideo(f, q, m, StampKind(f, q, n))
    BY <1>2, <1>3, <1>4, Zenon DEF ParsedVideo
  <1>6. Parsed(f, q, m, StampKind(f, q, n))
    BY <1>5, Zenon DEF Parsed, Started
  <1> QED BY <1>6, Zenon DEF m

LEMMA StuffingParsed ==
  ASSUME NEW f \in Files, NEW q \in Offsets, NEW n, BeforeStamp(f, q, n)
  PROVE  /\ Item(f, q, n - 1) = 255 /\ n <= 23 => Parsed(f, q, n + 1, "stuffing")
         /\ ~(Item(f, q, n - 1) = 255 /\ n <= 23) =>
              IF Item(f, q, n - 1) \div 64 = 1 THEN Parsed(f, q, n + 2, "buffer")
              ELSE Parsed(f, q, n + mpeg1_skip_table[Item(f, q, n - 1) \div 16],
                          StampKind(f, q, n))
  <1>1. n \in 7 .. 24 /\ There(q) \in Nat /\ There(q) >= n
    BY ThereType DEF BeforeStamp
  <1>2. Started(f, q) /\ VideoHeader(f, q) /\ ~IsMpeg2(f, q) /\ Stuffed(f, q, n)
    BY DEF BeforeStamp
  <1>3. ASSUME Item(f, q, n - 1) = 255, n <= 23 PROVE Parsed(f, q, n + 1, "stuffing")
    <2>1. Stuffed(f, q, n + 1)
      <3> SUFFICES ASSUME NEW k \in 7 .. n PROVE Item(f, q, k - 1) = 255
        BY <1>1 DEF Stuffed
      <3>1. CASE k = n
        BY <1>3, <3>1
      <3>2. CASE k \in 7 .. n - 1
        BY <1>2, <3>2, Zenon DEF Stuffed
      <3> QED BY <1>1, <3>1, <3>2
    <2> DEFINE m == n + 1
    <2>2. m \in 8 .. 24 /\ There(q) >= m - 1 /\ Stuffed(f, q, m)
      BY <1>1, <1>3, <2>1
    <2> HIDE DEF m
    <2>3. ParsedVideo(f, q, m, "stuffing")
      BY <1>2, <2>2, Zenon DEF ParsedVideo
    <2>4. Parsed(f, q, m, "stuffing")
      BY <1>2, <2>3, Zenon DEF Parsed, Started
    <2> QED BY <2>4, Zenon DEF m
  <1>4. ASSUME ~(Item(f, q, n - 1) = 255 /\ n <= 23)
        PROVE  IF Item(f, q, n - 1) \div 64 = 1 THEN Parsed(f, q, n + 2, "buffer")
               ELSE Parsed(f, q, n + mpeg1_skip_table[Item(f, q, n - 1) \div 16],
                           StampKind(f, q, n))
    <2>1. SizeIs(f, q, n)
      <3>1. Item(f, q, n - 1) # 255 \/ n = 24
        BY <1>1, <1>4
      <3> QED BY <1>1, <1>2, <3>1, Zenon DEF SizeIs
    <2>2. SizeField(f, q) = n
      BY <2>1, SizeFieldFound, Zenon
    <2>3. CASE Item(f, q, n - 1) \div 64 = 1
      <3> DEFINE m == n + 2
      <3>1. StampField(f, q) = m /\ m = SizeField(f, q) + 2
        BY <2>2, <2>3, Zenon DEF StampField
      <3>2. There(q) >= m - 2
        BY <1>1
      <3> HIDE DEF m
      <3>3. ParsedVideo(f, q, m, "buffer")
        BY <1>2, <3>1, <3>2, Zenon DEF ParsedVideo
      <3>4. Parsed(f, q, m, "buffer")
        BY <1>2, <3>3, Zenon DEF Parsed, Started
      <3> QED BY <2>3, <3>4, Zenon DEF m
    <2>4. CASE Item(f, q, n - 1) \div 64 # 1
      <3>1. StampField(f, q) = n
        BY <2>2, <2>4, Zenon DEF StampField
      <3>2. Parsed(f, q, n + mpeg1_skip_table[Item(f, q, n - 1) \div 16],
                   StampKind(f, q, n))
        BY <1>1, <1>2, <3>1, StampParsed, Zenon
      <3> QED BY <2>4, <3>2, Zenon
    <2> QED BY <2>3, <2>4
  <1> QED BY <1>3, <1>4, Zenon

Mpeg2Kind(f, q) == IF Item(f, q, 7) >= 128 THEN "stamped" ELSE "plain"

(* The header of a packet of video: the next NEEDBYTES asks for what the   *)
(* bytes that are there say.                                               *)
LEMMA PesParsed ==
  ASSUME NEW f \in Files, NEW q \in Offsets, NEW n, There(q) >= n, Parsed(f, q, n, "pes")
  PROVE  /\ n = 7
         /\ Item(f, q, 6) \div 64 = 2 => Parsed(f, q, 9, "pes2")
         /\ Item(f, q, 6) \div 64 # 2 => BeforeStamp(f, q, 7)
  <1>1. Started(f, q) /\ VideoHeader(f, q) /\ n = 7
    BY ParsedByKind, Zenon
  <1>2. There(q) >= 7
    BY <1>1
  <1>3. ASSUME Item(f, q, 6) \div 64 = 2 PROVE Parsed(f, q, 9, "pes2")
    <2>1. ParsedVideo(f, q, 9, "pes2")
      BY <1>1, <1>2, <1>3, Zenon DEF ParsedVideo, IsMpeg2
    <2> QED BY <1>1, <2>1, Zenon DEF Parsed, Started
  <1>4. ASSUME Item(f, q, 6) \div 64 # 2 PROVE BeforeStamp(f, q, 7)
    <2>1. 7 \in 7 .. 24 /\ Stuffed(f, q, 7)
      BY DEF Stuffed
    <2> QED BY <1>1, <1>2, <1>4, <2>1, Zenon DEF BeforeStamp, IsMpeg2
  <1> QED BY <1>1, <1>3, <1>4, Zenon

LEMMA FieldParsed ==
  ASSUME NEW f \in Files, NEW q \in Offsets, NEW n, NEW of, There(q) >= n,
         Parsed(f, q, n, of), of \in {"stuffing", "buffer", "pes2", "stamped", "plain"}
  PROVE  /\ Started(f, q) /\ VideoHeader(f, q)
         /\ of = "stuffing" => BeforeStamp(f, q, n)
         /\ of = "buffer" => /\ ~IsMpeg2(f, q) /\ StampField(f, q) = n
                             /\ n = SizeField(f, q) + 2
         /\ of = "pes2" => n = 9 /\ Parsed(f, q, 9 + Item(f, q, 8), Mpeg2Kind(f, q))
         /\ of \in {"stamped", "plain"} =>
              n = HeaderLength(f, q) /\ (of = "stamped" <=> StampBit(f, q))
  <1>1. Started(f, q) /\ VideoHeader(f, q) /\ ParsedVideo(f, q, n, of)
    BY ParsedByKind, Zenon
  <1>2. ASSUME of = "stuffing" PROVE BeforeStamp(f, q, n)
    <2>1. n \in 8 .. 24 /\ Stuffed(f, q, n)
      BY <1>1, <1>2, Zenon DEF ParsedVideo
    <2>2. Item(f, q, 6) = 255
      <3>1. \A k \in 7 .. n - 1 : Item(f, q, k - 1) = 255
        BY <2>1, Zenon DEF Stuffed
      <3> QED BY <2>1, <3>1
    <2>3. ~IsMpeg2(f, q)
      BY <2>2 DEF IsMpeg2
    <2>4. n \in 7 .. 24
      BY <2>1
    <2> QED BY <1>1, <2>1, <2>3, <2>4, Zenon DEF BeforeStamp
  <1>3. of = "buffer" => /\ ~IsMpeg2(f, q) /\ StampField(f, q) = n
                         /\ n = SizeField(f, q) + 2
    BY <1>1, Zenon DEF ParsedVideo
  <1>4. ASSUME of = "pes2"
        PROVE  n = 9 /\ Parsed(f, q, 9 + Item(f, q, 8), Mpeg2Kind(f, q))
    <2>1. n = 9 /\ IsMpeg2(f, q)
      BY <1>1, <1>4, Zenon DEF ParsedVideo
    <2>2. There(q) >= 9
      BY <2>1
    <2> DEFINE m == 9 + Item(f, q, 8)
    <2>3. HeaderLength(f, q) = m
      BY <2>1, Zenon DEF HeaderLength
    <2>4. There(q) >= IF IsMpeg2(f, q) THEN 9 ELSE StampField(f, q)
      BY <2>1, <2>2, Zenon
    <2>5. Mpeg2Kind(f, q) \in {"stamped", "plain"}
          /\ (Mpeg2Kind(f, q) = "stamped" <=> Item(f, q, 7) >= 128)
      BY DEF Mpeg2Kind
    <2>6. StampBit(f, q) <=> Item(f, q, 7) >= 128
      BY <2>1, Zenon DEF StampBit
    <2> HIDE DEF m
    <2>7. ParsedVideo(f, q, m, Mpeg2Kind(f, q))
      BY <1>1, <2>3, <2>4, <2>5, <2>6, Zenon DEF ParsedVideo
    <2>8. Parsed(f, q, m, Mpeg2Kind(f, q))
      BY <1>1, <2>7, Zenon DEF Parsed, Started
    <2> QED BY <2>1, <2>8, Zenon DEF m
  <1>5. ASSUME of \in {"stamped", "plain"}
        PROVE  n = HeaderLength(f, q) /\ (of = "stamped" <=> StampBit(f, q))
    <2>1. of # "pes" /\ of # "stuffing" /\ of # "buffer" /\ of # "pes2"
      BY <1>5
    <2> QED BY <1>1, <2>1, Zenon DEF ParsedVideo
  <1> QED BY <1>1, <1>2, <1>3, <1>4, <1>5, Zenon

-----------------------------------------------------------------------------
(* What StreamFrom is, case by case.                                       *)
PesSize(f, q) == 6 + Item(f, q, 4) * 256 + Item(f, q, 5)
PvaSize(f, q) == 8 + Item(f, q, 6) * 256 + Item(f, q, 7)

LEMMA SizeType ==
  ASSUME NEW f \in Files, NEW q \in Offsets
  PROVE  PesSize(f, q) \in Nat /\ PesSize(f, q) >= 6
         /\ PvaSize(f, q) \in Nat /\ PvaSize(f, q) >= 8
  <1>1. Item(f, q, 4) \in 0 .. 255 /\ Item(f, q, 5) \in 0 .. 255
        /\ Item(f, q, 6) \in 0 .. 255 /\ Item(f, q, 7) \in 0 .. 255
    BY ItemType
  <1> DEFINE a == Item(f, q, 4)  b == Item(f, q, 5)  c == Item(f, q, 6)  d == Item(f, q, 7)
  <1>2. PesSize(f, q) = 6 + a * 256 + b /\ PvaSize(f, q) = 8 + c * 256 + d
    BY Zenon DEF PesSize, PvaSize
  <1>3. a \in 0 .. 255 /\ b \in 0 .. 255 /\ c \in 0 .. 255 /\ d \in 0 .. 255
    BY <1>1
  <1> HIDE DEF a, b, c, d
  <1>4. PesSize(f, q) \in Nat /\ PesSize(f, q) >= 6
    BY <1>2, <1>3
  <1>5. PvaSize(f, q) \in Nat /\ PvaSize(f, q) >= 8
    BY <1>2, <1>3
  <1> QED BY <1>4, <1>5

LEMMA FromByteType ==
  ASSUME NEW f \in Files, NEW p \in Nat
  PROVE  /\ Len(f.bytes) \in Nat
         /\ FromByte(f, p) \in Offsets
         /\ There(FromByte(f, p)) = IF p < Len(f.bytes) THEN Len(f.bytes) - p ELSE 0
         /\ p >= Len(f.bytes) => FromByte(f, p) = <<>>
  <1>1. Len(f.bytes) \in Nat
    <2> f.bytes \in Seq(0 .. 255)
      BY DemuxAssumption
    <2> QED BY LenProperties
  <1>2. Len(f.bytes) - p \in Int
    BY <1>1
  <1>3. /\ FromByte(f, p) \in Seq(Nat)
        /\ Len(FromByte(f, p)) = IF Len(f.bytes) - p > 0 THEN Len(f.bytes) - p ELSE 0
        /\ Len(f.bytes) - p <= 0 => FromByte(f, p) = <<>>
    BY <1>2, CopyType, Zenon DEF FromByte
  <1>4. There(FromByte(f, p)) = IF Len(f.bytes) - p > 0 THEN Len(f.bytes) - p ELSE 0
    BY <1>3, Zenon DEF There
  <1>5. /\ There(FromByte(f, p)) = IF p < Len(f.bytes) THEN Len(f.bytes) - p ELSE 0
        /\ p >= Len(f.bytes) => Len(f.bytes) - p <= 0
    BY <1>1, <1>4
  <1> QED BY <1>1, <1>3, <1>5, Zenon DEF Offsets

ProgramIs(f, g, p, q) ==
  /\ There(q) < 4 => StreamFrom(f, g, p) = <<>>
  /\ There(q) >= 4 /\ ~StartsWith(f, q, Code(f)) => StreamFrom(f, g, p) = g[p + 1]
  /\ Started(f, q) =>
       /\ Item(f, q, 3) = 185 => StreamFrom(f, g, p) = <<>>
       /\ Item(f, q, 3) = 186 => StreamFrom(f, g, p) = g[p + PackLength(f, q)]
       /\ VideoHeader(f, q) =>
            StreamFrom(f, g, p) =
              PesStream(f, q, PesSize(f, q)) \o
              g[p + Greatest(PesSize(f, q), HeaderLength(f, q))]
       /\ Item(f, q, 3) < 185 /\ Item(f, q, 3) # f.track =>
            StreamFrom(f, g, p) = g[p + 4]
       /\ Item(f, q, 3) > 186 /\ Item(f, q, 3) # f.track =>
            StreamFrom(f, g, p) = g[p + PesSize(f, q)]

LEMMA ProgramFromIs ==
  ASSUME NEW f \in Files, f.kind = "ps", NEW p \in Nat, NEW g,
         NEW q, q = FromByte(f, p)
  PROVE  ProgramIs(f, g, p, q)
  <1>1. Code(f) = <<0, 0, 1>> /\ PrefixBytes(f) = 4
    BY DEF Code, PrefixBytes
  <1>2. q \in Offsets
    BY FromByteType
  <1>3. There(q) \in Nat /\ Item(f, q, 3) \in 0 .. 255
    BY <1>2, ItemType, ThereType
  <1>4. StreamFrom(f, g, p) = ProgramFrom(f, g, p)
    BY DEF StreamFrom
  <1> DEFINE P == ProgramFrom(f, g, p)
  <1>5. ASSUME There(q) < 4 PROVE P = <<>>
    BY <1>5, Zenon DEF ProgramFrom, There
  <1>6. ASSUME There(q) >= 4 PROVE ~(There(q) < 4)
    BY <1>3, <1>6
  <1>7. ASSUME There(q) >= 4, ~StartsWith(f, q, Code(f))
        PROVE  P = g[p + 1]
    BY <1>1, <1>6, <1>7, Zenon DEF ProgramFrom, There
  <1>8. ASSUME Started(f, q)
        PROVE  /\ Item(f, q, 3) = 185 => P = <<>>
               /\ Item(f, q, 3) = 186 => P = g[p + PackLength(f, q)]
               /\ VideoHeader(f, q) =>
                    P =
                      PesStream(f, q, PesSize(f, q)) \o
                      g[p + Greatest(PesSize(f, q), HeaderLength(f, q))]
               /\ Item(f, q, 3) < 185 /\ Item(f, q, 3) # f.track =>
                    P = g[p + 4]
               /\ Item(f, q, 3) > 186 /\ Item(f, q, 3) # f.track =>
                    P = g[p + PesSize(f, q)]
    <2> DEFINE id == Item(f, q, 3)
               pack == g[p + PackLength(f, q)]
               video == PesStream(f, q, PesSize(f, q)) \o
                          g[p + Greatest(PesSize(f, q), HeaderLength(f, q))]
               short == g[p + 4]
               other == g[p + PesSize(f, q)]
               track == f.track
    <2>1. ~(There(q) < 4) /\ StartsWith(f, q, <<0, 0, 1>>)
      BY <1>1, <1>6, <1>8, Zenon DEF Started
    <2>2. P =
            CASE id = 185 -> <<>>
              [] id = 186 -> pack
              [] id = track /\ id \notin {185, 186} -> video
              [] id < 185 /\ id # track -> short
              [] id > 186 /\ id # track -> other
      BY <2>1, ZenonT(40) DEF ProgramFrom, There, PesSize
    <2>3. id \in 0 .. 255 /\ (VideoHeader(f, q) => id = track /\ id \notin {185, 186})
      BY <1>3 DEF VideoHeader
    <2> HIDE DEF id, pack, video, short, other, track
    <2>4. ASSUME id = 185 PROVE P = <<>>
      <3>1. id # 186 /\ ~(id < 185) /\ ~(id > 186)
        BY <2>4
      <3> QED BY <2>2, <2>4, <3>1
    <2>5. ASSUME id = 186 PROVE P = pack
      <3>1. id # 185 /\ ~(id < 185) /\ ~(id > 186)
        BY <2>5
      <3> QED BY <2>2, <2>5, <3>1
    <2>6. ASSUME id = track, id \notin {185, 186} PROVE P = video
      <3>1. id # 185 /\ id # 186
        BY <2>6
      <3> QED BY <2>2, <2>6, <3>1
    <2>7. ASSUME id < 185, id # track PROVE P = short
      <3>1. id # 185 /\ id # 186 /\ ~(id > 186)
        BY <2>3, <2>7
      <3> QED BY <2>2, <2>7, <3>1
    <2>8. ASSUME id > 186, id # track PROVE P = other
      <3>1. id # 185 /\ id # 186 /\ ~(id < 185)
        BY <2>3, <2>8
      <3> QED BY <2>2, <2>8, <3>1
    <2> QED BY <2>3, <2>4, <2>5, <2>6, <2>7, <2>8, Zenon
            DEF id, pack, video, short, other, track
  <1>9. StreamFrom(f, g, p) = P
    BY <1>4
  <1> HIDE DEF P
  <1>10. There(q) < 4 => StreamFrom(f, g, p) = <<>>
    BY <1>5, <1>9, Zenon
  <1>11. There(q) >= 4 /\ ~StartsWith(f, q, Code(f)) => StreamFrom(f, g, p) = g[p + 1]
    BY <1>7, <1>9, Zenon
  <1> QED BY <1>8, <1>9, <1>10, <1>11, Zenon DEF ProgramIs

PvaIs(f, g, p, q) ==
  /\ There(q) < 2 => StreamFrom(f, g, p) = <<>>
  /\ There(q) >= 2 /\ ~StartsWith(f, q, Code(f)) => StreamFrom(f, g, p) = g[p + 1]
  /\ Started(f, q) =>
       StreamFrom(f, g, p) =
         PvaPacketStream(f, q, PvaSize(f, q)) \o
         g[p + Greatest(PvaSize(f, q), PvaHeaderLength(f, q))]

LEMMA PvaFromIs ==
  ASSUME NEW f \in Files, f.kind = "pva", NEW p \in Nat, NEW g,
         NEW q, q = FromByte(f, p)
  PROVE  PvaIs(f, g, p, q)
  <1>1. Code(f) = <<65, 86>> /\ PrefixBytes(f) = 2
    BY DEF Code, PrefixBytes
  <1>2. q \in Offsets
    BY FromByteType
  <1>3. There(q) \in Nat
    BY <1>2, ThereType
  <1>4. StreamFrom(f, g, p) = PvaFrom(f, g, p)
    BY DEF StreamFrom
  <1>5. ASSUME There(q) < 2 PROVE PvaFrom(f, g, p) = <<>>
    BY <1>5, Zenon DEF PvaFrom, There
  <1>6. ASSUME There(q) >= 2 PROVE ~(There(q) < 2)
    BY <1>3, <1>6
  <1>7. ASSUME There(q) >= 2, ~StartsWith(f, q, Code(f))
        PROVE  PvaFrom(f, g, p) = g[p + 1]
    BY <1>1, <1>6, <1>7, Zenon DEF PvaFrom, There
  <1>8. ASSUME Started(f, q)
        PROVE  PvaFrom(f, g, p) =
                 PvaPacketStream(f, q, PvaSize(f, q)) \o
                 g[p + Greatest(PvaSize(f, q), PvaHeaderLength(f, q))]
    <2>1. ~(There(q) < 2) /\ StartsWith(f, q, <<65, 86>>)
      BY <1>1, <1>6, <1>8, Zenon DEF Started
    <2> QED BY <2>1, ZenonT(40) DEF PvaFrom, There, PvaSize
  <1> QED BY <1>4, <1>5, <1>7, <1>8, Zenon DEF PvaIs

BodyOf(f, p) == Copy(p + PacketSize - Body(f, p), Body(f, p))

UnitsAre(f, g, p) ==
  /\ p + PacketSize > Len(f.bytes) => StreamFrom(f, g, p) = Nothing
  /\ ~(p + PacketSize > Len(f.bytes)) /\ Field(f, p, 0) # 71 =>
       StreamFrom(f, g, p) = g[p + 1]
  /\ ~(p + PacketSize > Len(f.bytes)) /\ Field(f, p, 0) = 71 =>
       /\ ~Mine(f, p) => StreamFrom(f, g, p) = g[p + PacketSize]
       /\ Mine(f, p) /\ (Field(f, p, 1) \div 64) % 2 = 0 =>
            StreamFrom(f, g, p) =
              [now |-> BodyOf(f, p) \o g[p + PacketSize].now,
               later |-> g[p + PacketSize].later]
       /\ Mine(f, p) /\ (Field(f, p, 1) \div 64) % 2 # 0 =>
            StreamFrom(f, g, p) =
              [now |-> <<>>,
               later |-> (IF BodyOf(f, p) = <<>> THEN <<>>
                          ELSE Video(f, BodyOf(f, p) \o g[p + PacketSize].now))
                         \o g[p + PacketSize].later]

LEMMA UnitsFromIs ==
  ASSUME NEW f \in Files, f.kind = "ts", NEW p \in Nat, NEW g
  PROVE  UnitsAre(f, g, p)
  <1>1. StreamFrom(f, g, p) = UnitsFrom(f, g, p)
    BY DEF StreamFrom
  <1> QED BY <1>1, Zenon DEF UnitsFrom, BodyOf, UnitsAre

-----------------------------------------------------------------------------
(* Remaining: what is passed on from a byte on depends on what is passed   *)
(* on from later bytes on only, so there is a function that satisfies its  *)
(* definition at every byte.                                               *)
LEMMA Congruence ==
  ASSUME NEW f \in Files, NEW p \in Nat, NEW g, NEW h,
         \A r \in Nat : r > p => g[r] = h[r]
  PROVE  StreamFrom(f, g, p) = StreamFrom(f, h, p)
  <1>1. f.kind \in Kinds /\ PacketSize \in Nat /\ PacketSize > 0
    BY DemuxAssumption
  <1>2. CASE f.kind = "es"
    BY <1>2 DEF StreamFrom
  <1>3. CASE f.kind = "ps"
    <2> DEFINE q == FromByte(f, p)
    <2>1. ProgramIs(f, g, p, q) /\ ProgramIs(f, h, p, q)
      BY <1>3, ProgramFromIs, Zenon
    <2>2. q \in Offsets
      BY FromByteType
    <2> HIDE DEF q
    <2>3. /\ PackLength(f, q) \in 5 .. 21 /\ HeaderLength(f, q) \in 7 .. 264
          /\ PesSize(f, q) \in Nat /\ PesSize(f, q) >= 6
          /\ There(q) \in Nat /\ Item(f, q, 3) \in 0 .. 255
      BY <2>2, HeaderBounds, SizeType, ThereType, ItemType
    <2>4. g[p + 1] = h[p + 1] /\ g[p + 4] = h[p + 4]
      OBVIOUS
    <2>5. g[p + PackLength(f, q)] = h[p + PackLength(f, q)]
      BY <2>3
    <2>6. g[p + PesSize(f, q)] = h[p + PesSize(f, q)]
      BY <2>3
    <2>7. g[p + Greatest(PesSize(f, q), HeaderLength(f, q))] =
          h[p + Greatest(PesSize(f, q), HeaderLength(f, q))]
      BY <2>3 DEF Greatest
    <2>8. CASE There(q) < 4
      BY <1>3, <2>8, <2>1, Zenon DEF ProgramIs
    <2>9. CASE There(q) >= 4 /\ ~StartsWith(f, q, Code(f))
      BY <1>3, <2>4, <2>9, <2>1, Zenon DEF ProgramIs
    <2>10. CASE Started(f, q)
      <3>1. CASE Item(f, q, 3) = 185
        BY <1>3, <2>10, <3>1, <2>1, Zenon DEF ProgramIs
      <3>2. CASE Item(f, q, 3) = 186
        <4>1. StreamFrom(f, g, p) = g[p + PackLength(f, q)]
          BY <2>10, <3>2, <2>1, Zenon DEF ProgramIs
        <4>2. StreamFrom(f, h, p) = h[p + PackLength(f, q)]
          BY <2>10, <3>2, <2>1, Zenon DEF ProgramIs
        <4> QED BY <2>5, <4>1, <4>2, Zenon
      <3>3. CASE VideoHeader(f, q)
        BY <1>3, <2>7, <2>10, <3>3, <2>1, Zenon DEF ProgramIs
      <3>4. CASE Item(f, q, 3) < 185 /\ Item(f, q, 3) # f.track
        BY <1>3, <2>4, <2>10, <3>4, <2>1 DEF ProgramIs
      <3>5. CASE Item(f, q, 3) > 186 /\ Item(f, q, 3) # f.track
        BY <1>3, <2>6, <2>10, <3>5, <2>1, Zenon DEF ProgramIs
      <3> QED BY <1>3, <2>3, <3>1, <3>2, <3>3, <3>4, <3>5 DEF VideoHeader
    <2>11. PrefixBytes(f) = 4
      BY <1>3 DEF PrefixBytes
    <2> QED BY <2>3, <2>8, <2>9, <2>10, <2>11 DEF Started
  <1>4. CASE f.kind = "pva"
    <2> DEFINE q == FromByte(f, p)
    <2>1. PvaIs(f, g, p, q) /\ PvaIs(f, h, p, q)
      BY <1>4, PvaFromIs, Zenon
    <2>2. q \in Offsets
      BY FromByteType
    <2> HIDE DEF q
    <2>3. /\ PvaHeaderLength(f, q) \in 8 .. 15 /\ There(q) \in Nat
          /\ PvaSize(f, q) \in Nat /\ PvaSize(f, q) >= 8
      BY <2>2, HeaderBounds, SizeType, ThereType
    <2>4. g[p + 1] = h[p + 1]
      OBVIOUS
    <2>5. g[p + Greatest(PvaSize(f, q), PvaHeaderLength(f, q))] =
          h[p + Greatest(PvaSize(f, q), PvaHeaderLength(f, q))]
      BY <2>3 DEF Greatest
    <2>6. CASE There(q) < 2
      BY <1>4, <2>6, <2>1, Zenon DEF PvaIs
    <2>7. CASE There(q) >= 2 /\ ~StartsWith(f, q, Code(f))
      BY <1>4, <2>4, <2>7, <2>1, Zenon DEF PvaIs
    <2>8. CASE Started(f, q)
      BY <1>4, <2>5, <2>8, <2>1, Zenon DEF PvaIs
    <2>9. PrefixBytes(f) = 2
      BY <1>4 DEF PrefixBytes
    <2> QED BY <2>3, <2>6, <2>7, <2>8, <2>9 DEF Started
  <1>5. CASE f.kind = "ts"
    <2>1. UnitsAre(f, g, p) /\ UnitsAre(f, h, p)
      BY <1>5, UnitsFromIs, Zenon
    <2>2. g[p + 1] = h[p + 1] /\ g[p + PacketSize] = h[p + PacketSize]
      BY <1>1
    <2>3. CASE p + PacketSize > Len(f.bytes)
      BY <1>5, <2>3, <2>1, Zenon DEF UnitsAre
    <2>4. CASE ~(p + PacketSize > Len(f.bytes)) /\ Field(f, p, 0) # 71
      BY <1>5, <2>2, <2>4, <2>1, Zenon DEF UnitsAre
    <2>5. CASE ~(p + PacketSize > Len(f.bytes)) /\ Field(f, p, 0) = 71
      <3>1. CASE ~Mine(f, p)
        BY <1>5, <2>2, <2>5, <3>1, <2>1, Zenon DEF UnitsAre
      <3>2. CASE Mine(f, p) /\ (Field(f, p, 1) \div 64) % 2 = 0
        BY <1>5, <2>2, <2>5, <3>2, <2>1, Zenon DEF UnitsAre
      <3>3. CASE Mine(f, p) /\ (Field(f, p, 1) \div 64) % 2 # 0
        <4> DEFINE Unit(next) ==
                     [now |-> <<>>,
                      later |-> (IF BodyOf(f, p) = <<>> THEN <<>>
                                 ELSE Video(f, BodyOf(f, p) \o next.now)) \o next.later]
        <4>1. StreamFrom(f, g, p) = Unit(g[p + PacketSize])
          BY <2>5, <3>3, <2>1, Zenon DEF UnitsAre
        <4>2. StreamFrom(f, h, p) = Unit(h[p + PacketSize])
          BY <2>5, <3>3, <2>1, Zenon DEF UnitsAre
        <4> HIDE DEF Unit
        <4> QED BY <2>2, <4>1, <4>2, Zenon
      <3> QED BY <3>1, <3>2, <3>3, Zenon
    <2> QED BY <2>3, <2>4, <2>5, Zenon
  <1> QED BY <1>1, <1>2, <1>3, <1>4, <1>5 DEF Kinds

AtEnd(f) == IF f.kind = "ts" THEN Nothing ELSE <<>>

(* At the end of the file nothing is left.                                 *)
LEMMA FromEnd ==
  ASSUME NEW f \in Files, NEW p \in Nat, p >= Len(f.bytes), NEW g
  PROVE  StreamFrom(f, g, p) = AtEnd(f)
  <1>1. f.kind \in Kinds /\ PacketSize \in Nat /\ PacketSize > 0
    BY DemuxAssumption
  <1>2. /\ Len(f.bytes) \in Nat /\ FromByte(f, p) \in Offsets
        /\ There(FromByte(f, p)) = 0 /\ FromByte(f, p) = <<>>
    <2>1. Len(f.bytes) \in Nat /\ FromByte(f, p) \in Offsets /\ FromByte(f, p) = <<>>
      BY FromByteType, Zenon
    <2> QED BY <2>1 DEF There
  <1>3. CASE f.kind = "es"
    <2>1. Sent(<<>>) = <<>>
      <3>1. <<>> \in Seq(Nat) /\ Len(<<>>) = 0
        OBVIOUS
      <3>2. Sent(<<>>) \in Seq(Event) /\ Len(Sent(<<>>)) = 0
        BY <3>1, SentType, Zenon
      <3> QED BY <3>2
    <2> QED BY <1>2, <1>3, <2>1 DEF StreamFrom, AtEnd
  <1>4. CASE f.kind = "ps"
    <2> There(FromByte(f, p)) < 4
      BY <1>2
    <2> QED BY <1>4, ProgramFromIs, Zenon DEF AtEnd, ProgramIs
  <1>5. CASE f.kind = "pva"
    <2> There(FromByte(f, p)) < 2
      BY <1>2
    <2> QED BY <1>5, PvaFromIs, Zenon DEF AtEnd, PvaIs
  <1>6. CASE f.kind = "ts"
    <2>1. p + PacketSize > Len(f.bytes)
      BY <1>1, <1>2
    <2> QED BY <1>6, <2>1, UnitsFromIs, Zenon DEF AtEnd, UnitsAre
  <1> QED BY <1>1, <1>3, <1>4, <1>5, <1>6 DEF Kinds

(* By induction from the end of the file down to its first byte.           *)
LEMMA FixpointExists ==
  ASSUME NEW f \in Files
  PROVE  \E g : g = [p \in Nat |-> StreamFrom(f, g, p)]
  <1> DEFINE Solves(g, p) == /\ g = [r \in Nat |-> g[r]]
                             /\ \A r \in Nat : r >= p => g[r] = StreamFrom(f, g, r)
             T == {p \in Nat : \E g : Solves(g, p)}
  <1>1. Len(f.bytes) \in Nat
    BY FromByteType
  <1>2. ASSUME NEW p \in Nat, p >= Len(f.bytes) PROVE p \in T
    <2> DEFINE g == [r \in Nat |-> AtEnd(f)]
    <2>1. \A r \in Nat : r >= p => g[r] = StreamFrom(f, g, r)
      <3> SUFFICES ASSUME NEW r \in Nat, r >= p PROVE g[r] = StreamFrom(f, g, r)
        OBVIOUS
      <3>1. r >= Len(f.bytes)
        BY <1>1, <1>2
      <3> HIDE DEF g
      <3>2. StreamFrom(f, g, r) = AtEnd(f)
        BY <3>1, FromEnd
      <3> QED BY <3>2 DEF g
    <2>2. g = [r \in Nat |-> g[r]]
      OBVIOUS
    <2>3. Solves(g, p)
      BY <2>1, <2>2
    <2> HIDE DEF g, Solves
    <2> QED BY <2>3
  <1>3. ASSUME NEW p \in Nat, p + 1 \in T PROVE p \in T
    <2>1. PICK g : Solves(g, p + 1)
      BY <1>3
    <2> DEFINE h == [r \in Nat |-> IF r = p THEN StreamFrom(f, g, p) ELSE g[r]]
    <2>2. h = [r \in Nat |-> h[r]]
      OBVIOUS
    <2>3. ASSUME NEW r \in Nat, r >= p PROVE h[r] = StreamFrom(f, h, r)
      <3>1. \A s \in Nat : s > r => g[s] = h[s]
        BY <2>3
      <3> HIDE DEF h
      <3>2. StreamFrom(f, g, r) = StreamFrom(f, h, r)
        BY <3>1, Congruence
      <3>3. CASE r = p
        BY <3>2, <3>3 DEF h
      <3>4. CASE r # p
        <4>1. r >= p + 1
          BY <2>3, <3>4
        <4>2. g[r] = StreamFrom(f, g, r)
          BY <2>1, <4>1
        <4>3. h[r] = g[r]
          BY <3>4 DEF h
        <4> QED BY <3>2, <4>2, <4>3
      <3> QED BY <3>3, <3>4
    <2> HIDE DEF h
    <2>4. Solves(h, p)
      BY <2>2, <2>3
    <2> HIDE DEF Solves
    <2> QED BY <2>4
  <1>4. 0 \in T
    <2> HIDE DEF T
    <2> QED BY <1>1, <1>2, <1>3, DownInduction
  <1>5. PICK g : Solves(g, 0)
    BY <1>4
  <1>6. \A p \in Nat : g[p] = StreamFrom(f, g, p)
    BY <1>5
  <1>7. [p \in Nat |-> g[p]] = [p \in Nat |-> StreamFrom(f, g, p)]
    BY <1>6
  <1>8. g = [p \in Nat |-> StreamFrom(f, g, p)]
    BY <1>5, <1>7
  <1> QED BY <1>8

(* CHOOSE finds one: Remaining satisfies its definition.                   *)
LEMMA RemainingIs ==
  ASSUME NEW f \in Files, NEW p \in Nat
  PROVE  Remaining(f)[p] = StreamFrom(f, Remaining(f), p)
  <1> DEFINE R == CHOOSE g : g = [r \in Nat |-> StreamFrom(f, g, r)]
  <1>1. R = [r \in Nat |-> StreamFrom(f, R, r)]
    BY FixpointExists
  <1>2. Remaining(f) = R
    BY DEF Remaining
  <1> HIDE DEF R
  <1>3. R[p] = StreamFrom(f, R, p)
    BY <1>1
  <1> QED BY <1>2, <1>3

-----------------------------------------------------------------------------
(* What is passed on of a packet, and of all packets, is a sequence of     *)
(* bytes and tags.                                                         *)
Stream == Seq(Event)
Unit == [now : Offsets, later : Stream]

LEMMA FromAny ==
  ASSUME NEW q \in Seq(Nat), NEW n \in Nat
  PROVE  From(q, n) \in Seq(Nat) /\ (n >= Len(q) => From(q, n) = <<>>)
  <1>1. Len(q) \in Nat
    OBVIOUS
  <1>2. CASE n >= Len(q)
    <2>1. n + 1 \in Int /\ Len(q) \in Int /\ Len(q) < n + 1
      BY <1>1, <1>2
    <2>2. SubSeq(q, n + 1, Len(q)) = <<>>
      BY <2>1, SubSeqEmpty, Zenon
    <2> QED BY <2>2 DEF From
  <1>3. CASE n < Len(q)
    <2>1. n \in 0 .. Len(q)
      BY <1>1, <1>3
    <2>2. From(q, n) \in Seq(Nat)
      BY <2>1, FromType, Zenon
    <2> QED BY <1>1, <1>3, <2>2
  <1> QED BY <1>1, <1>2, <1>3

LEMMA StampType ==
  ASSUME NEW q \in Offsets, There(q) >= 1
  PROVE  Stamp(q) \in Stream
  <1>1. q[1] \in Nat
    BY DEF Offsets, There
  <1> QED BY <1>1 DEF Stamp, Stream, Event

LEMMA EmptyType == <<>> \in Stream /\ <<>> \in Offsets
  BY DEF Stream, Offsets

LEMMA JoinType ==
  ASSUME NEW s \in Stream, NEW t \in Stream
  PROVE  s \o t \in Stream
  BY ConcatProperties, Zenon DEF Stream

LEMMA SentStream ==
  ASSUME NEW q \in Offsets
  PROVE  Sent(q) \in Stream
  BY SentType, Zenon DEF Stream, Offsets

LEMMA PesStreamType ==
  ASSUME NEW f \in Files, NEW q \in Offsets, NEW n \in Nat
  PROVE  PesStream(f, q, n) \in Stream
  <1>1. CASE HeaderLength(f, q) > Len(q)
    BY <1>1, EmptyType, Zenon DEF PesStream
  <1>2. CASE ~(HeaderLength(f, q) > Len(q))
    <2>1. HeaderLength(f, q) \in 7 .. 264 /\ There(q) \in Nat
      BY HeaderBounds, ThereType
    <2>2. There(q) >= HeaderLength(f, q)
      <3> ~(HeaderLength(f, q) > There(q))
        BY <1>2, Zenon DEF There
      <3> QED BY <2>1
    <2>3. There(q) >= 1 /\ HeaderLength(f, q) \in Nat /\ Least(n, There(q)) \in 0 .. There(q)
      BY <2>1, <2>2 DEF Least
    <2>4. (IF Stamped(f, q) THEN Stamp(q) ELSE <<>>) \in Stream
      BY <2>3, StampType, EmptyType, Zenon
    <2>5. SubSeq(q, 1, Least(n, Len(q))) \in Seq(Nat)
      <3>1. q \in Seq(Nat) /\ Least(n, Len(q)) \in 0 .. Len(q)
        BY <2>3, Zenon DEF Offsets, There
      <3> QED BY <3>1, TakeType, Zenon
    <2>6. From(SubSeq(q, 1, Least(n, Len(q))), HeaderLength(f, q)) \in Offsets
      BY <2>3, <2>5, FromAny, Zenon DEF Offsets
    <2> QED BY <1>2, <2>4, <2>6, SentStream, JoinType, Zenon DEF PesStream
  <1> QED BY <1>1, <1>2

LEMMA EarlyType ==
  ASSUME NEW q \in Offsets, NEW len \in Nat, len <= There(q)
  PROVE  SubSeq(q, 13, len) \in Offsets
  <1>1. \A i \in 13 .. len : q[i] \in Nat
    BY DEF Offsets, There
  <1>2. 13 \in Int /\ len \in Int
    OBVIOUS
  <1>3. SubSeq(q, 13, len) \in Seq(Nat)
    BY <1>1, <1>2, SubSeqProperties, SMTT(20)
  <1> QED BY <1>3, Zenon DEF Offsets

LEMMA PvaPacketStreamType ==
  ASSUME NEW f \in Files, NEW q \in Offsets, NEW n \in Nat
  PROVE  PvaPacketStream(f, q, n) \in Stream
  <1> DEFINE len == PvaHeaderLength(f, q)
  <1>1. CASE Item(f, q, 2) # 1 \/ Len(q) < len
    BY <1>1, EmptyType, Zenon DEF PvaPacketStream
  <1>2. CASE ~(Item(f, q, 2) # 1 \/ Len(q) < len)
    <2>1. len \in 8 .. 15 /\ There(q) \in Nat
      BY HeaderBounds, ThereType
    <2>2. There(q) >= len
      <3> ~(There(q) < len)
        BY <1>2, Zenon DEF There
      <3> QED BY <2>1
    <2>3. /\ There(q) >= 1 /\ len \in Nat /\ len <= There(q)
          /\ Least(n, There(q)) \in 0 .. There(q)
      BY <2>1, <2>2 DEF Least
    <2>4. (IF f.tags /\ len > 8 THEN Stamp(q) ELSE <<>>) \in Stream
      BY <2>3, StampType, EmptyType, Zenon
    <2>5. SubSeq(q, 1, Least(n, Len(q))) \in Seq(Nat)
      <3>1. q \in Seq(Nat) /\ Least(n, Len(q)) \in 0 .. Len(q)
        BY <2>3, Zenon DEF Offsets, There
      <3> QED BY <3>1, TakeType, Zenon
    <2>6. From(SubSeq(q, 1, Least(n, Len(q))), len) \in Offsets
      BY <2>3, <2>5, FromAny, Zenon DEF Offsets
    <2>7. SubSeq(q, 13, len) \in Offsets
      BY <2>3, EarlyType, Zenon
    <2>8. PvaPacketStream(f, q, n) =
            Sent(SubSeq(q, 13, len)) \o
            (IF f.tags /\ len > 8 THEN Stamp(q) ELSE <<>>) \o
            Sent(From(SubSeq(q, 1, Least(n, Len(q))), len))
      BY <1>2, Zenon DEF PvaPacketStream
    <2> HIDE DEF len
    <2> QED BY <2>4, <2>6, <2>7, <2>8, SentStream, JoinType, Zenon
  <1> QED BY <1>1, <1>2

LEMMA VideoType ==
  ASSUME NEW f \in Files, NEW q \in Offsets
  PROVE  Video(f, q) \in Stream
  <1>1. Len(q) \in Nat
    BY DEF Offsets
  <1> QED BY <1>1, PesStreamType, EmptyType, Zenon DEF Video

LEMMA BodyType ==
  ASSUME NEW f \in Files, NEW p \in Nat
  PROVE  /\ \A k \in Nat : Field(f, p, k) \in 0 .. 255
         /\ Body(f, p) \in Nat /\ BodyOf(f, p) \in Offsets
  <1>1. ASSUME NEW k \in Nat PROVE Field(f, p, k) \in 0 .. 255
    <2> p + k \in Nat
      OBVIOUS
    <2> QED BY ByteType, Zenon DEF Field
  <1>2. Body(f, p) \in Nat
    <2>1. Field(f, p, 4) \in 0 .. 255
      BY <1>1
    <2> QED BY <2>1 DEF Body
  <1>3. p + PacketSize - Body(f, p) \in Int
    <2> PacketSize \in Nat
      BY DemuxAssumption
    <2> QED BY <1>2
  <1>4. BodyOf(f, p) \in Offsets
    BY <1>2, <1>3, CopyType, Zenon DEF BodyOf, Offsets
  <1> QED BY <1>1, <1>2, <1>4

Streams(f) == IF f.kind = "ts" THEN Unit ELSE Stream

LEMMA StreamFromType ==
  ASSUME NEW f \in Files, NEW p \in Nat, NEW g,
         \A r \in Nat : r > p => g[r] \in Streams(f)
  PROVE  StreamFrom(f, g, p) \in Streams(f)
  <1>1. f.kind \in Kinds /\ PacketSize \in Nat /\ PacketSize > 0
    BY DemuxAssumption
  <1>2. CASE f.kind = "es"
    <2>1. FromByte(f, p) \in Offsets
      BY FromByteType, Zenon
    <2>2. StreamFrom(f, g, p) = Sent(FromByte(f, p))
      BY <1>2 DEF StreamFrom
    <2>3. Streams(f) = Stream
      BY <1>2 DEF Streams
    <2> QED BY <2>1, <2>2, <2>3, SentStream, Zenon
  <1>3. CASE f.kind = "ps"
    <2> DEFINE q == FromByte(f, p)
    <2>1. ProgramIs(f, g, p, q)
      BY <1>3, ProgramFromIs, Zenon
    <2>2. q \in Offsets /\ Streams(f) = Stream
      BY <1>3, FromByteType DEF Streams
    <2> HIDE DEF q
    <2>3. /\ PackLength(f, q) \in 5 .. 21 /\ HeaderLength(f, q) \in 7 .. 264
          /\ PesSize(f, q) \in Nat /\ PesSize(f, q) >= 6
          /\ There(q) \in Nat /\ Item(f, q, 3) \in 0 .. 255
      BY <2>2, HeaderBounds, SizeType, ThereType, ItemType
    <2>4. /\ p + 1 > p /\ p + 4 > p /\ p + PackLength(f, q) > p /\ p + PesSize(f, q) > p
          /\ p + Greatest(PesSize(f, q), HeaderLength(f, q)) > p
          /\ p + 1 \in Nat /\ p + 4 \in Nat /\ p + PackLength(f, q) \in Nat
          /\ p + PesSize(f, q) \in Nat
          /\ p + Greatest(PesSize(f, q), HeaderLength(f, q)) \in Nat
      BY <2>3 DEF Greatest
    <2>5. /\ g[p + 1] \in Stream /\ g[p + 4] \in Stream
          /\ g[p + PackLength(f, q)] \in Stream /\ g[p + PesSize(f, q)] \in Stream
          /\ g[p + Greatest(PesSize(f, q), HeaderLength(f, q))] \in Stream
      BY <2>2, <2>4, Zenon
    <2>6. PesStream(f, q, PesSize(f, q)) \in Stream
      BY <2>2, <2>3, PesStreamType, Zenon
    <2>7. PesStream(f, q, PesSize(f, q)) \o
            g[p + Greatest(PesSize(f, q), HeaderLength(f, q))] \in Stream
      BY <2>5, <2>6, JoinType, Zenon
    <2>8. CASE There(q) < 4
      BY <2>1, <2>2, <2>8, EmptyType, Zenon DEF ProgramIs
    <2>9. CASE There(q) >= 4 /\ ~StartsWith(f, q, Code(f))
      BY <2>1, <2>2, <2>5, <2>9, Zenon DEF ProgramIs
    <2>10. CASE Started(f, q)
      <3>1. CASE Item(f, q, 3) = 185
        BY <2>1, <2>2, <2>10, <3>1, EmptyType, Zenon DEF ProgramIs
      <3>2. CASE Item(f, q, 3) = 186
        BY <2>1, <2>2, <2>5, <2>10, <3>2, Zenon DEF ProgramIs
      <3>3. CASE VideoHeader(f, q)
        BY <2>1, <2>2, <2>7, <2>10, <3>3, Zenon DEF ProgramIs
      <3>4. CASE Item(f, q, 3) < 185 /\ Item(f, q, 3) # f.track
        BY <2>1, <2>2, <2>5, <2>10, <3>4, Zenon DEF ProgramIs
      <3>5. CASE Item(f, q, 3) > 186 /\ Item(f, q, 3) # f.track
        BY <2>1, <2>2, <2>5, <2>10, <3>5 DEF ProgramIs
      <3> QED BY <1>3, <2>3, <3>1, <3>2, <3>3, <3>4, <3>5 DEF VideoHeader
    <2>11. PrefixBytes(f) = 4
      BY <1>3 DEF PrefixBytes
    <2> QED BY <2>3, <2>8, <2>9, <2>10, <2>11 DEF Started
  <1>4. CASE f.kind = "pva"
    <2> DEFINE q == FromByte(f, p)
    <2>1. PvaIs(f, g, p, q)
      BY <1>4, PvaFromIs, Zenon
    <2>2. q \in Offsets /\ Streams(f) = Stream
      BY <1>4, FromByteType DEF Streams
    <2> HIDE DEF q
    <2>3. /\ PvaHeaderLength(f, q) \in 8 .. 15 /\ There(q) \in Nat
          /\ PvaSize(f, q) \in Nat /\ PvaSize(f, q) >= 8
      BY <2>2, HeaderBounds, SizeType, ThereType
    <2>4. /\ p + 1 > p /\ p + 1 \in Nat
          /\ p + Greatest(PvaSize(f, q), PvaHeaderLength(f, q)) > p
          /\ p + Greatest(PvaSize(f, q), PvaHeaderLength(f, q)) \in Nat
      BY <2>3 DEF Greatest
    <2>5. /\ g[p + 1] \in Stream
          /\ g[p + Greatest(PvaSize(f, q), PvaHeaderLength(f, q))] \in Stream
      BY <2>2, <2>4, Zenon
    <2>6. PvaPacketStream(f, q, PvaSize(f, q)) \in Stream
      BY <2>2, <2>3, PvaPacketStreamType, Zenon
    <2>7. PvaPacketStream(f, q, PvaSize(f, q)) \o
            g[p + Greatest(PvaSize(f, q), PvaHeaderLength(f, q))] \in Stream
      BY <2>5, <2>6, JoinType, Zenon
    <2>8. CASE There(q) < 2
      BY <2>1, <2>2, <2>8, EmptyType, Zenon DEF PvaIs
    <2>9. CASE There(q) >= 2 /\ ~StartsWith(f, q, Code(f))
      BY <2>1, <2>2, <2>5, <2>9, Zenon DEF PvaIs
    <2>10. CASE Started(f, q)
      BY <2>1, <2>2, <2>7, <2>10, Zenon DEF PvaIs
    <2>11. PrefixBytes(f) = 2
      BY <1>4 DEF PrefixBytes
    <2> QED BY <2>3, <2>8, <2>9, <2>10, <2>11 DEF Started
  <1>5. CASE f.kind = "ts"
    <2>1. UnitsAre(f, g, p) /\ Streams(f) = Unit
      BY <1>5, UnitsFromIs, Zenon DEF Streams
    <2>2. /\ p + 1 > p /\ p + 1 \in Nat /\ p + PacketSize > p /\ p + PacketSize \in Nat
      BY <1>1
    <2>3. g[p + 1] \in Unit /\ g[p + PacketSize] \in Unit
      BY <2>1, <2>2, Zenon
    <2> DEFINE now == g[p + PacketSize].now  later == g[p + PacketSize].later
    <2>4. now \in Offsets /\ later \in Stream
      BY <2>3 DEF Unit
    <2>5. BodyOf(f, p) \in Offsets
      BY BodyType, Zenon
    <2>6. BodyOf(f, p) \o now \in Offsets
      BY <2>4, <2>5, ConcatProperties, Zenon DEF Offsets
    <2>7. (IF BodyOf(f, p) = <<>> THEN <<>> ELSE Video(f, BodyOf(f, p) \o now)) \o later
            \in Stream
      BY <2>4, <2>6, VideoType, EmptyType, JoinType, Zenon
    <2>8. CASE p + PacketSize > Len(f.bytes)
      <3>1. Nothing \in Unit
        BY EmptyType DEF Nothing, Unit
      <3> QED BY <2>1, <2>8, <3>1, Zenon DEF UnitsAre
    <2>9. CASE ~(p + PacketSize > Len(f.bytes)) /\ Field(f, p, 0) # 71
      BY <2>1, <2>3, <2>9, Zenon DEF UnitsAre
    <2>10. CASE ~(p + PacketSize > Len(f.bytes)) /\ Field(f, p, 0) = 71
      <3>1. CASE ~Mine(f, p)
        BY <2>1, <2>3, <2>10, <3>1, Zenon DEF UnitsAre
      <3>2. CASE Mine(f, p) /\ (Field(f, p, 1) \div 64) % 2 = 0
        <4>1. [now |-> BodyOf(f, p) \o now, later |-> later] \in Unit
          BY <2>4, <2>6 DEF Unit
        <4> QED BY <2>1, <2>10, <3>2, <4>1, Zenon DEF UnitsAre
      <3>3. CASE Mine(f, p) /\ (Field(f, p, 1) \div 64) % 2 # 0
        <4> DEFINE all == (IF BodyOf(f, p) = <<>> THEN <<>>
                           ELSE Video(f, BodyOf(f, p) \o now)) \o later
        <4>1. StreamFrom(f, g, p) = [now |-> <<>>, later |-> all]
          BY <2>1, <2>10, <3>3, Zenon DEF UnitsAre
        <4>2. all \in Stream
          BY <2>7
        <4> HIDE DEF all
        <4>3. [now |-> <<>>, later |-> all] \in Unit
          BY <4>2, EmptyType DEF Unit
        <4> QED BY <2>1, <4>1, <4>3, Zenon
      <3> QED BY <3>1, <3>2, <3>3, Zenon
    <2> QED BY <2>8, <2>9, <2>10, Zenon
  <1> QED BY <1>1, <1>2, <1>3, <1>4, <1>5 DEF Kinds

LEMMA RemainingType ==
  ASSUME NEW f \in Files, NEW p \in Nat
  PROVE  Remaining(f)[p] \in Streams(f)
  <1> DEFINE T == {n \in Nat : \A r \in Nat : r >= n => Remaining(f)[r] \in Streams(f)}
  <1>1. Len(f.bytes) \in Nat
    BY FromByteType
  <1>2. AtEnd(f) \in Streams(f)
    <2> Nothing \in Unit
      BY EmptyType DEF Nothing, Unit
    <2> QED BY EmptyType, Zenon DEF AtEnd, Streams
  <1>3. ASSUME NEW n \in Nat, n >= Len(f.bytes) PROVE n \in T
    <2> SUFFICES ASSUME NEW r \in Nat, r >= n PROVE Remaining(f)[r] \in Streams(f)
      OBVIOUS
    <2>1. r >= Len(f.bytes)
      BY <1>1, <1>3
    <2> QED BY <1>2, <2>1, RemainingIs, FromEnd, Zenon
  <1>4. ASSUME NEW n \in Nat, n + 1 \in T PROVE n \in T
    <2>1. \A r \in Nat : r > n => Remaining(f)[r] \in Streams(f)
      BY <1>4
    <2>2. Remaining(f)[n] \in Streams(f)
      BY <2>1, StreamFromType, RemainingIs, Zenon
    <2>3. \A r \in Nat : r >= n => r = n \/ r > n
      OBVIOUS
    <2> QED BY <2>1, <2>2, <2>3, Zenon
  <1>5. p \in T
    <2> HIDE DEF T
    <2> QED BY <1>1, <1>3, <1>4, DownInduction
  <1>6. p >= p
    OBVIOUS
  <1> QED BY <1>5, <1>6, Zenon

LEMMA BeyondEnd ==
  ASSUME NEW f \in Files, NEW p \in Nat, p >= Len(f.bytes)
  PROVE  Remaining(f)[p] = AtEnd(f)
  BY RemainingIs, FromEnd, Zenon

-----------------------------------------------------------------------------
(* Nothing is passed on of a header that is not complete.                  *)
LEMMA WaitsNothing ==
  ASSUME NEW f \in Files, f.kind \in {"ps", "pva"}, NEW p \in Nat,
         Waits(f, FromByte(f, p))
  PROVE  Remaining(f)[p] = <<>>
  <1> DEFINE q == FromByte(f, p)  R == Remaining(f)
  <1> SUFFICES R[p] = <<>>
    OBVIOUS
  <1>1. /\ q \in Offsets /\ Len(f.bytes) \in Nat /\ Waits(f, q)
        /\ There(q) = IF p < Len(f.bytes) THEN Len(f.bytes) - p ELSE 0
    BY FromByteType, Zenon
  <1>2. \A r \in Nat : r >= Len(f.bytes) => R[r] = <<>>
    <2> AtEnd(f) = <<>>
      BY DEF AtEnd
    <2> QED BY BeyondEnd, Zenon
  <1>3. There(q) \in Nat
    BY <1>1, ThereType
  <1>4. R[p] = StreamFrom(f, R, p)
    BY RemainingIs, Zenon
  <1>5. \A n \in Nat : n > There(q) => p + n \in Nat /\ p + n >= Len(f.bytes)
    BY <1>1, <1>3
  <1>6. CASE f.kind = "ps"
    <2>1. ProgramIs(f, R, p, q) /\ PrefixBytes(f) = 4
      BY <1>6, ProgramFromIs, Zenon DEF PrefixBytes
    <2> HIDE DEF q, R
    <2>2. CASE There(q) < 4
      BY <1>4, <2>1, <2>2, Zenon DEF ProgramIs
    <2>3. CASE There(q) >= 4
      <3>1. ~(There(q) < PrefixBytes(f))
        BY <1>3, <2>1, <2>3
      <3>2. StartsWith(f, q, Code(f))
        <4> SUFFICES ASSUME ~StartsWith(f, q, Code(f)) PROVE FALSE
          OBVIOUS
        <4>1. Needs(f, q) = 0
          BY <3>1, Zenon DEF Needs
        <4>2. 0 > There(q)
          BY <1>1, <4>1, Zenon DEF Waits
        <4> QED BY <1>3, <4>2
      <3>3. Started(f, q)
        BY <2>1, <2>3, <3>2, Zenon DEF Started
      <3>4. ProgramNeeds(f, q) > There(q)
        <4> Needs(f, q) = ProgramNeeds(f, q)
          BY <1>6, <3>1, <3>2 DEF Needs
        <4> QED BY <1>1, Zenon DEF Waits
      <3>5. /\ PackLength(f, q) \in 5 .. 21 /\ HeaderLength(f, q) \in 7 .. 264
            /\ PesSize(f, q) \in Nat /\ PesSize(f, q) >= 6
            /\ Item(f, q, 3) \in 0 .. 255
        BY <1>1, HeaderBounds, SizeType, ItemType
      <3>6. CASE Item(f, q, 3) = 185
        BY <1>4, <2>1, <3>3, <3>6, Zenon DEF ProgramIs
      <3>7. CASE Item(f, q, 3) = 186
        <4>1. ProgramNeeds(f, q) = PackLength(f, q)
          BY <3>7 DEF ProgramNeeds
        <4>2. PackLength(f, q) > There(q) /\ PackLength(f, q) \in Nat
          BY <3>4, <3>5, <4>1
        <4>3. R[p] = R[p + PackLength(f, q)]
          BY <1>4, <2>1, <3>3, <3>7, Zenon DEF ProgramIs
        <4> QED BY <1>2, <1>5, <4>2, <4>3, Zenon
      <3>8. CASE VideoHeader(f, q)
        <4>1. HeaderLength(f, q) > There(q)
          <5> ProgramNeeds(f, q) = HeaderLength(f, q)
            BY <1>6, <3>5, <3>8 DEF ProgramNeeds, VideoHeader
          <5> QED BY <3>4
        <4> DEFINE n == Greatest(PesSize(f, q), HeaderLength(f, q))
        <4>2. n \in Nat /\ n > There(q)
          BY <1>3, <3>5, <4>1 DEF Greatest
        <4>3. PesStream(f, q, PesSize(f, q)) = <<>>
          BY <4>1, Zenon DEF PesStream, There
        <4>4. R[p] = PesStream(f, q, PesSize(f, q)) \o R[p + n]
          BY <1>4, <2>1, <3>3, <3>8, Zenon DEF ProgramIs
        <4> HIDE DEF n
        <4>5. R[p + n] = <<>>
          BY <1>2, <1>5, <4>2, Zenon
        <4>6. <<>> \o <<>> = <<>>
          OBVIOUS
        <4> QED BY <4>3, <4>4, <4>5, <4>6, Zenon
      <3>9. CASE Item(f, q, 3) < 185 /\ Item(f, q, 3) # f.track
        <4>1. ProgramNeeds(f, q) = 4
          <5> Item(f, q, 3) # 185 /\ Item(f, q, 3) # 186 /\ ~(Item(f, q, 3) > 186)
            BY <3>5, <3>9
          <5> QED BY <3>9, Zenon DEF ProgramNeeds
        <4> QED BY <1>3, <2>3, <3>4, <4>1
      <3>10. CASE Item(f, q, 3) > 186 /\ Item(f, q, 3) # f.track
        <4>1. ProgramNeeds(f, q) = 6
          <5> Item(f, q, 3) # 185 /\ Item(f, q, 3) # 186 /\ ~(Item(f, q, 3) < 185)
            BY <3>5, <3>10
          <5> QED BY <3>10, Zenon DEF ProgramNeeds
        <4>2. PesSize(f, q) > There(q)
          BY <1>3, <3>4, <3>5, <4>1
        <4> QED BY <1>2, <1>4, <1>5, <2>1, <3>3, <3>5, <3>10, <4>2, Zenon DEF ProgramIs
      <3>11. \/ Item(f, q, 3) = 185 \/ Item(f, q, 3) = 186 \/ VideoHeader(f, q)
             \/ Item(f, q, 3) < 185 /\ Item(f, q, 3) # f.track
             \/ Item(f, q, 3) > 186 /\ Item(f, q, 3) # f.track
        BY <1>6, <3>5 DEF VideoHeader
      <3> QED BY <3>6, <3>7, <3>8, <3>9, <3>10, <3>11, Zenon
    <2> QED BY <1>3, <2>2, <2>3
  <1>7. CASE f.kind = "pva"
    <2>1. PvaIs(f, R, p, q) /\ PrefixBytes(f) = 2
      BY <1>7, PvaFromIs, Zenon DEF PrefixBytes
    <2> HIDE DEF q, R
    <2>2. CASE There(q) < 2
      BY <1>4, <2>1, <2>2, Zenon DEF PvaIs
    <2>3. CASE There(q) >= 2
      <3>1. ~(There(q) < PrefixBytes(f))
        BY <1>3, <2>1, <2>3
      <3>2. StartsWith(f, q, Code(f))
        <4> SUFFICES ASSUME ~StartsWith(f, q, Code(f)) PROVE FALSE
          OBVIOUS
        <4>1. Needs(f, q) = 0
          BY <3>1, Zenon DEF Needs
        <4>2. 0 > There(q)
          BY <1>1, <4>1, Zenon DEF Waits
        <4> QED BY <1>3, <4>2
      <3>3. Started(f, q)
        BY <2>1, <2>3, <3>2, Zenon DEF Started
      <3>4. PvaHeaderLength(f, q) > There(q)
        <4> Needs(f, q) = PvaHeaderLength(f, q)
          BY <1>7, <3>1, <3>2 DEF Needs
        <4> QED BY <1>1, Zenon DEF Waits
      <3>5. PvaHeaderLength(f, q) \in 8 .. 15
            /\ PvaSize(f, q) \in Nat /\ PvaSize(f, q) >= 8
        BY <1>1, HeaderBounds, SizeType
      <3> DEFINE n == Greatest(PvaSize(f, q), PvaHeaderLength(f, q))
      <3>6. n \in Nat /\ n > There(q)
        BY <1>3, <3>4, <3>5 DEF Greatest
      <3>7. There(q) < PvaHeaderLength(f, q)
        BY <1>3, <3>4, <3>5
      <3>8. PvaPacketStream(f, q, PvaSize(f, q)) = <<>>
        BY <3>7, Zenon DEF PvaPacketStream, There
      <3>9. R[p] = PvaPacketStream(f, q, PvaSize(f, q)) \o R[p + n]
        BY <1>4, <2>1, <3>3, Zenon DEF PvaIs
      <3> HIDE DEF n
      <3>10. R[p + n] = <<>>
        BY <1>2, <1>5, <3>6, Zenon
      <3>11. <<>> \o <<>> = <<>>
        OBVIOUS
      <3> QED BY <3>8, <3>9, <3>10, <3>11, Zenon
    <2> QED BY <1>3, <2>2, <2>3
  <1> QED BY <1>6, <1>7

LEMMA NoPrefixNothing ==
  ASSUME NEW f \in Files, f.kind = "ts", NEW q \in Offsets, ~StartsWith(f, q, Code(f))
  PROVE  Video(f, q) = <<>>
  <1> Code(f) = <<0, 0, 1>>
    BY DEF Code
  <1> QED BY Zenon DEF Video

LEMMA WaitsNoVideo ==
  ASSUME NEW f \in Files, f.kind = "ts", NEW q \in Offsets, Waits(f, q)
  PROVE  Video(f, q) = <<>>
  <1>1. CASE ~StartsWith(f, q, Code(f))
    BY <1>1, NoPrefixNothing, Zenon
  <1>2. CASE StartsWith(f, q, Code(f))
    <2>1. HeaderLength(f, q) \in 7 .. 264 /\ There(q) \in Nat /\ PrefixBytes(f) = 4
      BY HeaderBounds, ThereType DEF PrefixBytes
    <2>2. HeaderLength(f, q) > There(q)
      <3>1. CASE There(q) < PrefixBytes(f)
        BY <2>1, <3>1
      <3>2. CASE ~(There(q) < PrefixBytes(f))
        <4> Needs(f, q) = HeaderLength(f, q)
          BY <1>2, <3>2 DEF Needs
        <4> QED BY Zenon DEF Waits
      <3> QED BY <3>1, <3>2
    <2>3. PesStream(f, q, Len(q)) = <<>>
      BY <2>2, Zenon DEF PesStream, There
    <2> QED BY <2>3, Zenon DEF Video
  <1> QED BY <1>1, <1>2

-----------------------------------------------------------------------------
(* A complete header says the same of all that it begins.                  *)
LEMMA CompleteExtends ==
  ASSUME NEW f \in Files, NEW q \in Offsets, NEW r \in Offsets, Begins(q, r),
         There(q) >= HeaderLength(f, q)
  PROVE  /\ HeaderLength(f, r) = HeaderLength(f, q)
         /\ Stamped(f, r) <=> Stamped(f, q)
         /\ Stamped(f, q) <=> f.tags /\ StampBit(f, q)
         /\ r[1] = q[1]
  <1>1. /\ HeaderLength(f, q) \in 7 .. 264 /\ There(q) \in Nat
        /\ StampField(f, q) \in Nat
    BY HeaderBounds, ThereType
  <1>2. There(q) >= IF IsMpeg2(f, q) THEN 9 ELSE StampField(f, q)
    <2>1. CASE IsMpeg2(f, q)
      <3> HeaderLength(f, q) >= 9
        BY <2>1, HeaderBounds, Zenon
      <3> There(q) >= 9
        BY <1>1
      <3> QED BY <2>1, Zenon
    <2>2. CASE ~IsMpeg2(f, q)
      <3> HeaderLength(f, q) >= StampField(f, q)
        BY <2>2, HeaderBounds, Zenon
      <3> There(q) >= StampField(f, q)
        BY <1>1
      <3> QED BY <2>2, Zenon
    <2> QED BY <2>1, <2>2
  <1>3. HeaderLength(f, r) = HeaderLength(f, q) /\ (StampBit(f, r) <=> StampBit(f, q))
    BY <1>2, HeaderLengthExtends, Zenon
  <1>4. /\ Stamped(f, r) <=> f.tags /\ StampBit(f, r)
        /\ Stamped(f, q) <=> f.tags /\ StampBit(f, q)
    BY Zenon DEF Stamped, StampBit
  <1>5. r[1] = q[1]
    <2> 1 \in 1 .. There(q)
      BY <1>1
    <2> QED BY Zenon DEF Begins
  <1> QED BY <1>3, <1>4, <1>5, Zenon

LEMMA BeginsConcat ==
  ASSUME NEW q \in Offsets, NEW r \in Offsets
  PROVE  q \o r \in Offsets /\ Begins(q, q \o r)
  <1>1. Len(q) \in Nat /\ Len(r) \in Nat
    BY DEF Offsets
  <1>2. /\ q \o r \in Seq(Nat) /\ Len(q \o r) = Len(q) + Len(r)
        /\ \A k \in 1 .. Len(q) + Len(r) :
             (q \o r)[k] = IF k <= Len(q) THEN q[k] ELSE r[k - Len(q)]
    BY ConcatProperties, Zenon DEF Offsets
  <1>3. Len(q) <= Len(q \o r) /\ \A k \in 1 .. Len(q) : (q \o r)[k] = q[k]
    BY <1>1, <1>2
  <1> QED BY <1>2, <1>3, Zenon DEF Begins, There, Offsets

(* Of a packet of video whose header is q: its tag, what is left of q      *)
(* itself and what follows q.                                              *)
LEMMA VideoIs ==
  ASSUME NEW f \in Files, f.kind = "ts", NEW q \in Offsets, NEW r \in Offsets,
         Started(f, q), There(q) >= HeaderLength(f, q)
  PROVE  Video(f, q \o r) =
           (IF Stamped(f, q) THEN Stamp(q) ELSE <<>>) \o
           (Sent(From(q, HeaderLength(f, q))) \o Sent(r))
  <1> DEFINE all == q \o r
  <1>1. all \in Offsets /\ Begins(q, all)
    BY BeginsConcat, Zenon
  <1>2. HeaderLength(f, q) \in 7 .. 264 /\ There(q) \in Nat /\ There(all) \in Nat
        /\ There(q) <= There(all)
    BY <1>1, HeaderBounds, ThereType DEF Begins
  <1>3. StartsWith(f, all, Code(f)) /\ Code(f) = <<0, 0, 1>>
    <2>1. Code(f) = <<0, 0, 1>> /\ Len(Code(f)) = 3
      BY DEF Code
    <2>2. There(q) >= Len(Code(f))
      BY <1>2, <2>1
    <2> QED BY <1>1, <2>1, <2>2, StartsExtends, Zenon DEF Started
  <1>4. /\ HeaderLength(f, all) = HeaderLength(f, q)
        /\ Stamped(f, all) <=> Stamped(f, q)
        /\ all[1] = q[1]
    BY <1>1, CompleteExtends, Zenon
  <1>5. ~(HeaderLength(f, all) > There(all))
    <2> HIDE DEF all
    <2> QED BY <1>2, <1>4
  <1>6. SubSeq(all, 1, Least(Len(all), Len(all))) = all
    <2>1. Least(Len(all), Len(all)) = Len(all)
      BY Zenon DEF Least
    <2>2. SubSeq(all, 1, Len(all)) = all
      BY <1>1, SubSeqFull, Zenon DEF Offsets
    <2> QED BY <2>1, <2>2, Zenon
  <1>7. PesStream(f, all, Len(all)) =
          (IF Stamped(f, all) THEN Stamp(all) ELSE <<>>) \o
          Sent(From(all, HeaderLength(f, all)))
    BY <1>5, <1>6, Zenon DEF PesStream, There
  <1>8. From(all, HeaderLength(f, q)) = From(q, HeaderLength(f, q)) \o r
    <2>1. HeaderLength(f, q) \in 0 .. There(q)
      BY <1>2
    <2> QED BY <2>1, FromConcat, Zenon DEF Offsets, There
  <1>9. Sent(From(q, HeaderLength(f, q)) \o r) =
          Sent(From(q, HeaderLength(f, q))) \o Sent(r)
    <2>1. HeaderLength(f, q) \in Nat
      BY <1>2
    <2>2. From(q, HeaderLength(f, q)) \in Seq(Nat) /\ r \in Seq(Nat)
      BY <2>1, FromAny, Zenon DEF Offsets
    <2> QED BY <2>2, SentConcat, Zenon
  <1>10. Stamp(all) = Stamp(q)
    BY <1>4, Zenon DEF Stamp
  <1>11. Video(f, all) = PesStream(f, all, Len(all))
    BY <1>3, Zenon DEF Video
  <1> HIDE DEF all
  <1>12. Video(f, all) = (IF Stamped(f, q) THEN Stamp(q) ELSE <<>>) \o
           (Sent(From(q, HeaderLength(f, q))) \o Sent(r))
    BY <1>4, <1>7, <1>8, <1>9, <1>10, <1>11, Zenon
  <1> QED BY <1>12, Zenon DEF all

-----------------------------------------------------------------------------
(* What is passed on from the header of a packet of video on.              *)
LEMMA CutCopy ==
  ASSUME NEW m \in Nat, NEW h \in Nat, NEW n \in Nat, NEW len \in Nat
  PROVE  Sent(From(SubSeq(Copy(m, h), 1, Least(n, m)), len)) =
           Run(h + len, Least(n, m) - len)
  <1> DEFINE l == Least(n, m)
  <1>1. l \in Int /\ l <= m
    BY DEF Least
  <1> HIDE DEF l
  <1>2. SubSeq(Copy(m, h), 1, l) = Copy(l - 1 + 1, h + 1 - 1)
    <2>1. m \in Int /\ 1 \in Nat \ {0}
      OBVIOUS
    <2> QED BY <1>1, <2>1, SubCopy, Zenon
  <1>3. l - 1 + 1 = l /\ h + 1 - 1 = h
    BY <1>1
  <1>4. From(Copy(l, h), len) = Copy(l - len, h + len)
    BY <1>1, FromCopy, Zenon
  <1>5. l - len \in Int /\ h + len \in Nat
    BY <1>1
  <1>6. Sent(Copy(l - len, h + len)) = Run(h + len, l - len)
    BY <1>5, SentCopy, Zenon
  <1>7. Sent(From(SubSeq(Copy(m, h), 1, l), len)) = Run(h + len, l - len)
    BY <1>2, <1>3, <1>4, <1>6, Zenon
  <1> QED BY <1>7, Zenon DEF l

LEMMA FromByteIs ==
  ASSUME NEW f \in Files, NEW h \in Nat, NEW q, q = FromByte(f, h), There(q) > 0
  PROVE  /\ There(q) \in Nat /\ There(q) = Len(f.bytes) - h /\ h < Len(f.bytes)
         /\ Len(f.bytes) \in Nat
         /\ q = Copy(There(q), h) /\ q[1] = h
  <1>1. /\ Len(f.bytes) \in Nat
        /\ There(q) = IF h < Len(f.bytes) THEN Len(f.bytes) - h ELSE 0
    BY FromByteType, Zenon
  <1>2. h < Len(f.bytes) /\ There(q) = Len(f.bytes) - h /\ There(q) \in Nat
    BY <1>1
  <1>3. q = Copy(There(q), h)
    BY <1>2, Zenon DEF FromByte
  <1>4. There(q) \in Int /\ 1 \in 1 .. There(q)
    BY <1>2
  <1>5. Copy(There(q), h)[1] = h + 1 - 1
    BY <1>4, CopyType, Zenon
  <1>6. h + 1 - 1 = h
    OBVIOUS
  <1> QED BY <1>1, <1>2, <1>3, <1>5, <1>6, Zenon

LEMMA CutHeader ==
  ASSUME NEW h \in Nat, NEW q, q = Copy(There(q), h), There(q) \in Nat,
         NEW n \in Nat, NEW len \in Nat
  PROVE  Sent(From(SubSeq(q, 1, Least(n, Len(q))), len)) =
           Run(h + len, Least(n, There(q)) - len)
  <1>1. Sent(From(SubSeq(Copy(There(q), h), 1, Least(n, There(q))), len)) =
          Run(h + len, Least(n, There(q)) - len)
    BY CutCopy
  <1>2. Len(q) = There(q)
    BY Zenon DEF There
  <1> QED BY <1>1, <1>2, Zenon

LEMMA ProgramAt ==
  ASSUME NEW f \in Files, f.kind = "ps", NEW h \in Nat, NEW q, q = FromByte(f, h)
  PROVE  /\ ProgramIs(f, Remaining(f), h, q)
         /\ StreamFrom(f, Remaining(f), h) = Remaining(f)[h]
  <1>1. ProgramIs(f, Remaining(f), h, q)
    BY ProgramFromIs, Zenon
  <1>2. Remaining(f)[h] = StreamFrom(f, Remaining(f), h)
    BY RemainingIs, Zenon
  <1> QED BY <1>1, <1>2, Zenon

LEMMA PvaThere ==
  ASSUME NEW f \in Files, f.kind = "pva", NEW h \in Nat, NEW q, q = FromByte(f, h)
  PROVE  /\ PvaIs(f, Remaining(f), h, q)
         /\ StreamFrom(f, Remaining(f), h) = Remaining(f)[h]
  <1>1. PvaIs(f, Remaining(f), h, q)
    BY PvaFromIs, Zenon
  <1>2. Remaining(f)[h] = StreamFrom(f, Remaining(f), h)
    BY RemainingIs, Zenon
  <1> QED BY <1>1, <1>2, Zenon

LEMMA PesAt ==
  ASSUME NEW f \in Files, f.kind = "ps", NEW h \in Nat, NEW q, q = FromByte(f, h),
         Started(f, q), VideoHeader(f, q), There(q) >= HeaderLength(f, q)
  PROVE  Remaining(f)[h] =
           ((IF Stamped(f, q) THEN <<[tag |-> h]>> ELSE <<>>) \o
            Run(h + HeaderLength(f, q),
                Least(PesSize(f, q), Len(f.bytes) - h) - HeaderLength(f, q))) \o
           Remaining(f)[h + Greatest(PesSize(f, q), HeaderLength(f, q))]
  <1>1. q \in Offsets
    BY FromByteType, Zenon
  <1>2. HeaderLength(f, q) \in 7 .. 264 /\ There(q) \in Nat /\ PesSize(f, q) \in Nat
    BY <1>1, HeaderBounds, ThereType, SizeType
  <1>3. There(q) > 0 /\ HeaderLength(f, q) \in Nat /\ ~(HeaderLength(f, q) > There(q))
    BY <1>2
  <1>4. There(q) = Len(f.bytes) - h /\ q = Copy(There(q), h) /\ q[1] = h
    BY <1>3, FromByteIs, Zenon
  <1>5. Sent(From(SubSeq(q, 1, Least(PesSize(f, q), Len(q))), HeaderLength(f, q))) =
          Run(h + HeaderLength(f, q),
              Least(PesSize(f, q), There(q)) - HeaderLength(f, q))
    <2> DEFINE a == PesSize(f, q)  b == HeaderLength(f, q)
    <2>1. a \in Nat /\ b \in Nat /\ There(q) \in Nat
      BY <1>2, <1>3
    <2> HIDE DEF a, b
    <2>2. Sent(From(SubSeq(q, 1, Least(a, Len(q))), b)) = Run(h + b, Least(a, There(q)) - b)
      BY <1>4, <2>1, CutHeader
    <2> QED BY <2>2, Zenon DEF a, b
  <1>6. PesStream(f, q, PesSize(f, q)) =
          (IF Stamped(f, q) THEN Stamp(q) ELSE <<>>) \o
          Sent(From(SubSeq(q, 1, Least(PesSize(f, q), Len(q))), HeaderLength(f, q)))
    BY <1>3, Zenon DEF PesStream, There
  <1>7. Remaining(f)[h] =
          PesStream(f, q, PesSize(f, q)) \o
          Remaining(f)[h + Greatest(PesSize(f, q), HeaderLength(f, q))]
    BY ProgramAt, Zenon DEF ProgramIs
  <1>8. Stamp(q) = <<[tag |-> h]>>
    BY <1>4, Zenon DEF Stamp
  <1> QED BY <1>4, <1>5, <1>6, <1>7, <1>8, Zenon

LEMMA PvaAt ==
  ASSUME NEW f \in Files, f.kind = "pva", NEW h \in Nat, NEW q, q = FromByte(f, h),
         Started(f, q), There(q) >= PvaHeaderLength(f, q), Item(f, q, 2) = 1
  PROVE  Remaining(f)[h] =
           ((Run(h + 12, PvaHeaderLength(f, q) - 12) \o
             (IF f.tags /\ PvaHeaderLength(f, q) > 8 THEN <<[tag |-> h]>> ELSE <<>>)) \o
            Run(h + PvaHeaderLength(f, q),
                Least(PvaSize(f, q), Len(f.bytes) - h) - PvaHeaderLength(f, q))) \o
           Remaining(f)[h + Greatest(PvaSize(f, q), PvaHeaderLength(f, q))]
  <1> DEFINE len == PvaHeaderLength(f, q)
  <1>1. q \in Offsets
    BY FromByteType, Zenon
  <1>2. len \in 8 .. 15 /\ There(q) \in Nat /\ PvaSize(f, q) \in Nat
    BY <1>1, HeaderBounds, ThereType, SizeType
  <1>3. There(q) > 0 /\ len \in Nat /\ ~(There(q) < len) /\ len \in Int /\ len <= There(q)
        /\ 13 \in Nat \ {0} /\ There(q) \in Int
    BY <1>2
  <1>4. There(q) = Len(f.bytes) - h /\ q = Copy(There(q), h) /\ q[1] = h
    BY <1>3, FromByteIs
  <1>5. Sent(From(SubSeq(q, 1, Least(PvaSize(f, q), Len(q))), len)) =
          Run(h + len, Least(PvaSize(f, q), There(q)) - len)
    <2> DEFINE a == PvaSize(f, q)
    <2>1. a \in Nat /\ len \in Nat /\ There(q) \in Nat
      BY <1>2, <1>3
    <2> HIDE DEF a, len
    <2>2. Sent(From(SubSeq(q, 1, Least(a, Len(q))), len)) = Run(h + len, Least(a, There(q)) - len)
      BY <1>4, <2>1, CutHeader
    <2> QED BY <2>2, Zenon DEF a
  <1>6. Sent(SubSeq(q, 13, len)) = Run(h + 12, len - 12)
    <2>1. SubSeq(Copy(There(q), h), 13, len) = Copy(len - 13 + 1, h + 13 - 1)
      BY <1>3, SubCopy, ZenonT(40)
    <2>2. len - 13 + 1 = len - 12 /\ h + 13 - 1 = h + 12 /\ len - 12 \in Int /\ h + 12 \in Nat
      BY <1>2
    <2>3. Sent(Copy(len - 12, h + 12)) = Run(h + 12, len - 12)
      BY <2>2, SentCopy, Zenon
    <2> QED BY <1>4, <2>1, <2>2, <2>3, Zenon
  <1>7. PvaPacketStream(f, q, PvaSize(f, q)) =
          Sent(SubSeq(q, 13, len)) \o (IF f.tags /\ len > 8 THEN Stamp(q) ELSE <<>>) \o
          Sent(From(SubSeq(q, 1, Least(PvaSize(f, q), Len(q))), len))
    BY <1>3, Zenon DEF PvaPacketStream, There
  <1>8. Remaining(f)[h] =
          PvaPacketStream(f, q, PvaSize(f, q)) \o
          Remaining(f)[h + Greatest(PvaSize(f, q), len)]
    BY PvaThere, Zenon DEF PvaIs
  <1>9. Stamp(q) = <<[tag |-> h]>>
    BY <1>4, Zenon DEF Stamp
  <1> HIDE DEF len
  <1>10. Remaining(f)[h] =
           ((Run(h + 12, len - 12) \o
             (IF f.tags /\ len > 8 THEN <<[tag |-> h]>> ELSE <<>>)) \o
            Run(h + len, Least(PvaSize(f, q), Len(f.bytes) - h) - len)) \o
           Remaining(f)[h + Greatest(PvaSize(f, q), len)]
    BY <1>4, <1>5, <1>6, <1>7, <1>8, <1>9, ZenonT(40)
  <1> QED BY <1>10, Zenon DEF len

LEMMA PvaSkipped ==
  ASSUME NEW f \in Files, f.kind = "pva", NEW h \in Nat, NEW q, q = FromByte(f, h),
         Started(f, q), Item(f, q, 2) # 1
  PROVE  Remaining(f)[h] = Remaining(f)[h + PvaSize(f, q)]
  <1>1. q \in Offsets
    BY FromByteType, Zenon
  <1>2. PvaPacketStream(f, q, PvaSize(f, q)) = <<>>
    BY Zenon DEF PvaPacketStream
  <1>3. PvaHeaderLength(f, q) = 8
    BY Zenon DEF PvaHeaderLength
  <1>4. PvaSize(f, q) \in Nat /\ PvaSize(f, q) >= 8
    BY <1>1, SizeType
  <1>5. Greatest(PvaSize(f, q), 8) = PvaSize(f, q)
    BY <1>4 DEF Greatest
  <1>6. Remaining(f)[h] =
          PvaPacketStream(f, q, PvaSize(f, q)) \o
          Remaining(f)[h + Greatest(PvaSize(f, q), PvaHeaderLength(f, q))]
    BY PvaThere, Zenon DEF PvaIs
  <1>7. Remaining(f)[h + PvaSize(f, q)] \in Seq(Event)
    <2>1. h + PvaSize(f, q) \in Nat
      BY <1>4
    <2>2. Streams(f) = Stream
      BY DEF Streams
    <2> QED BY <2>1, <2>2, RemainingType, Zenon DEF Stream
  <1> QED BY <1>2, <1>3, <1>5, <1>6, <1>7, ConcatEmptySeq, Zenon

-----------------------------------------------------------------------------
(* The bytes of a header that are there; those kept in head_buf.           *)
Seen == IF inHead THEN SubSeq(headBuf, 1, stateBytes) ELSE Copy(end - buf, buf)
Kept == SubSeq(headBuf, 1, stateBytes)
Es == file.kind = "es"
Between == pc \in {"read", "returned", "packet", "switch"}
Position == IF pc = "switch" THEN buf ELSE end
HeaderAt == IF inHead THEN buf - stateBytes ELSE buf

PlaceInv ==
  /\ Es => pc \in {"read", "returned", "done"} /\ state = "skip" /\ stateBytes = 0
  /\ Ts => /\ pc \in {"read", "packet", "switch", "need", "done", "exit"}
           /\ pc \in {"switch", "need", "exit"} => end = packet
  /\ ~Ts => /\ pc \in {"read", "returned", "switch", "need", "done"}
            /\ pc \in {"returned", "switch", "need"} => end = Least(start + size, Length)
TypeInv ==
  /\ file \in Files /\ size \in Sizes
  /\ start \in 0 .. Length /\ packet \in 0 .. Length
  /\ end \in 0 .. Length /\ buf \in 0 .. end
  /\ state \in {"header", "data", "skip"} /\ stateBytes \in Int
  /\ inHead \in BOOLEAN
  /\ headBuf \in Seq(0 .. Length - 1) /\ Len(headBuf) <= HeadSize
  /\ need.n \in Nat
HeaderInv ==
  /\ state = "header" => stateBytes \in 0 .. Len(headBuf)
  /\ state = "header" /\ Between => Waits(file, Kept)
  /\ pc = "need" => /\ Parsed(file, Seen, need.n, need.of)
                    /\ inHead => /\ state = "header" /\ stateBytes > 0
                                 /\ stateBytes <= need.n \/ Waits(file, Seen)
PieceInv ==
  ~Ts /\ pc # "done" =>
    /\ state = "header" /\ (Between \/ inHead) =>
         LET p == IF pc = "need" THEN buf ELSE Position IN
         stateBytes <= p /\ Kept = Copy(stateBytes, p - stateBytes)
    /\ state # "header" /\ Between => stateBytes >= 0

(* What is still to be passed on: from a header on, between two calls of   *)
(* demux or pva_demux, and the same for the packets of a transport stream. *)
Units == Remaining(file)[packet]
AheadInHeader == Remaining(file)[HeaderAt]
AheadOfCall ==
  (IF state = "data" THEN Run(Position, Least(stateBytes, Length - Position)) ELSE <<>>)
  \o Remaining(file)[IF state = "header" THEN Position - stateBytes
                     ELSE Position + stateBytes]
Now == (IF pc = "switch" THEN Copy(end - buf, buf) ELSE <<>>) \o Units.now
InPayload == Seen \o (IF inHead THEN Copy(end - buf, buf) ELSE <<>>)
OfUnit(f, what, kept, now) ==
  IF what = "header" THEN IF There(kept) = 0 THEN <<>> ELSE Video(f, kept \o now)
  ELSE IF what = "data" THEN Sent(now) ELSE <<>>
AheadOfUnit == OfUnit(file, state, Kept, Now) \o Units.later
AheadInUnit == OfUnit(file, "header", InPayload, Units.now) \o Units.later
Ahead ==
  IF pc = "done" THEN <<>>
  ELSE IF Es THEN Run(end, Length - end)
  ELSE IF Ts THEN IF pc \in {"need", "exit"} THEN AheadInUnit ELSE AheadOfUnit
  ELSE IF pc = "need" THEN AheadInHeader ELSE AheadOfCall
StreamInv ==
  sent \in Stream /\ Ahead \in Stream /\ sent \o Ahead = ElementaryStream[file]

LEMMA LengthType == TypeInv => Length \in Nat
  <1> SUFFICES ASSUME TypeInv PROVE Length \in Nat
    OBVIOUS
  <1>1. file.bytes \in Seq(0 .. 255)
    BY DemuxAssumption, Zenon DEF TypeInv
  <1> QED BY <1>1, LenProperties, Zenon DEF Length

LEMMA KeptIs ==
  TypeInv /\ HeaderInv /\ state = "header" =>
    /\ Kept \in Offsets /\ There(Kept) = stateBytes /\ stateBytes \in Nat
    /\ stateBytes <= Len(headBuf)
    /\ \A k \in 1 .. stateBytes : Kept[k] = headBuf[k] /\ headBuf[k] \in 0 .. Length - 1
  <1> SUFFICES ASSUME TypeInv, HeaderInv, state = "header"
               PROVE  /\ Kept \in Offsets /\ There(Kept) = stateBytes /\ stateBytes \in Nat
                      /\ stateBytes <= Len(headBuf)
                      /\ \A k \in 1 .. stateBytes :
                           Kept[k] = headBuf[k] /\ headBuf[k] \in 0 .. Length - 1
    OBVIOUS
  <1> DEFINE S == 0 .. Length - 1
  <1>1. headBuf \in Seq(S) /\ stateBytes \in 0 .. Len(headBuf)
    BY Zenon DEF TypeInv, HeaderInv
  <1> HIDE DEF S
  <1>2. SubSeq(headBuf, 1, stateBytes) \in Seq(S) /\ Len(SubSeq(headBuf, 1, stateBytes)) = stateBytes
        /\ \A k \in 1 .. stateBytes : SubSeq(headBuf, 1, stateBytes)[k] = headBuf[k]
    BY <1>1, TakeType, Zenon
  <1>3. Len(headBuf) \in Nat /\ \A k \in 1 .. Len(headBuf) : headBuf[k] \in S
    BY <1>1, LenProperties, ElementOfSeq, Zenon
  <1>4. stateBytes \in Nat /\ stateBytes <= Len(headBuf)
        /\ \A k \in 1 .. stateBytes : k \in 1 .. Len(headBuf)
    BY <1>1, <1>3
  <1>5. SubSeq(headBuf, 1, stateBytes) \in Seq(Nat)
    <2>1. Length \in Nat
      BY LengthType, Zenon
    <2>2. S \subseteq Nat
      BY <2>1 DEF S
    <2> QED BY <1>2, <2>2, SeqMonotonic, Zenon
  <1>6. Kept \in Offsets /\ There(Kept) = stateBytes
    BY <1>2, <1>5, Zenon DEF Kept, Offsets, There
  <1> QED BY <1>2, <1>3, <1>4, <1>6, Zenon DEF Kept, S

(* The header as the code sees it, byte by byte, and as the sequence Seen. *)
LEMMA SeenIs ==
  TypeInv /\ HeaderInv /\ pc = "need" =>
    /\ Seen \in Offsets /\ There(Seen) = Bytes /\ Bytes \in Nat
    /\ \A k \in Nat : k < Bytes =>
         /\ Offset(k) = Seen[k + 1] /\ Header(k) = Item(file, Seen, k)
         /\ Offset(k) \in 0 .. Length - 1 /\ Header(k) \in 0 .. 255
  <1> SUFFICES ASSUME TypeInv, HeaderInv, pc = "need"
               PROVE  /\ Seen \in Offsets /\ There(Seen) = Bytes /\ Bytes \in Nat
                      /\ \A k \in Nat : k < Bytes =>
                           /\ Offset(k) = Seen[k + 1] /\ Header(k) = Item(file, Seen, k)
                           /\ Offset(k) \in 0 .. Length - 1 /\ Header(k) \in 0 .. 255
    OBVIOUS
  <1>1. Length \in Nat /\ buf \in Nat /\ end \in Nat /\ buf <= end /\ end <= Length
    BY LengthType DEF TypeInv
  <1>2. /\ Seen \in Offsets /\ There(Seen) = Bytes /\ Bytes \in Nat
        /\ \A k \in Nat : k < Bytes =>
             Offset(k) = Seen[k + 1] /\ Offset(k) \in 0 .. Length - 1
    <2>1. CASE inHead
      <3>1. state = "header"
        BY <2>1, Zenon DEF HeaderInv
      <3>2. /\ Kept \in Offsets /\ There(Kept) = stateBytes /\ stateBytes \in Nat
            /\ \A k \in 1 .. stateBytes :
                 Kept[k] = headBuf[k] /\ headBuf[k] \in 0 .. Length - 1
        BY <3>1, KeptIs, Zenon
      <3>3. Seen = Kept /\ Bytes = stateBytes /\ \A k : Offset(k) = headBuf[k + 1]
        BY <2>1, Zenon DEF Seen, Kept, Bytes, Offset
      <3>4. \A k \in Nat : k < stateBytes => k + 1 \in 1 .. stateBytes
        BY <3>2
      <3> QED BY <3>2, <3>3, <3>4, Zenon
    <2>2. CASE ~inHead
      <3>1. Seen = Copy(end - buf, buf) /\ Bytes = end - buf /\ \A k : Offset(k) = buf + k
        BY <2>2, Zenon DEF Seen, Bytes, Offset
      <3>2. end - buf \in Int /\ end - buf \in Nat
        BY <1>1
      <3>3. /\ Copy(end - buf, buf) \in Seq(Nat)
            /\ Len(Copy(end - buf, buf)) = IF end - buf > 0 THEN end - buf ELSE 0
            /\ \A k \in 1 .. end - buf : Copy(end - buf, buf)[k] = buf + k - 1
        BY <1>1, <3>2, CopyType, Zenon
      <3>4. (IF end - buf > 0 THEN end - buf ELSE 0) = end - buf
        BY <3>2
      <3>5. \A k \in Nat : k < end - buf =>
               /\ k + 1 \in 1 .. end - buf /\ buf + (k + 1) - 1 = buf + k
               /\ buf + k \in 0 .. Length - 1
        BY <1>1
      <3>6. Seen \in Offsets /\ There(Seen) = Bytes
        BY <3>1, <3>3, <3>4, Zenon DEF Offsets, There
      <3>7. Bytes \in Nat
        BY <3>1, <3>2
      <3>8. ASSUME NEW k \in Nat, k < end - buf
            PROVE  Copy(end - buf, buf)[k + 1] = buf + k
        BY <3>3, <3>5, <3>8, Zenon
      <3> QED BY <3>1, <3>5, <3>6, <3>7, <3>8, Zenon
    <2> QED BY <2>1, <2>2, Zenon
  <1>3. ASSUME NEW k \in Nat, k < Bytes
        PROVE  Header(k) = Item(file, Seen, k) /\ Header(k) \in 0 .. 255
    <2>1. Offset(k) = Seen[k + 1] /\ Offset(k) \in 0 .. Length - 1
      BY <1>2, <1>3, Zenon
    <2>2. Offset(k) < Length /\ Offset(k) \in Nat
      BY <1>1, <2>1
    <2>3. Header(k) = Byte(file, Seen[k + 1])
      BY <2>1, <2>2, Zenon DEF Header, At, Byte, Length
    <2>4. Item(file, Seen, k) = Byte(file, Seen[k + 1])
      BY <1>2, <1>3, Zenon DEF Item, There
    <2>5. Byte(file, Seen[k + 1]) \in 0 .. 255
      BY <2>1, <2>2, ByteType, Zenon DEF TypeInv
    <2> QED BY <2>3, <2>4, <2>5, Zenon
  <1> QED BY <1>2, <1>3, Zenon

LEMMA NeedBounds ==
  TypeInv /\ HeaderInv /\ pc = "need" => need.n \in 1 .. 264 /\ need.n <= HeadSize
  <1> SUFFICES ASSUME TypeInv, HeaderInv, pc = "need"
               PROVE  need.n \in 1 .. 264 /\ need.n <= HeadSize
    OBVIOUS
  <1>1. Seen \in Offsets /\ file \in Files /\ Parsed(file, Seen, need.n, need.of)
    BY SeenIs, Zenon DEF TypeInv, HeaderInv
  <1>2. /\ need.n \in 1 .. 264
        /\ file.kind = "pva" => need.n <= 15
        /\ file.kind = "pva" /\ ~file.tags => need.n <= 12
    BY <1>1, ParsedBounds, Zenon
  <1> DEFINE n == need.n
  <1>3. HeadSize = IF ~Pva THEN 264 ELSE IF file.tags THEN 15 ELSE 12
    BY Zenon DEF HeadSize
  <1> SUFFICES n \in 1 .. 264 /\ n <= HeadSize
    OBVIOUS
  <1>4. n \in 1 .. 264 /\ (Pva => n <= 15) /\ (Pva /\ ~file.tags => n <= 12)
    BY <1>2, Zenon DEF Pva
  <1> HIDE DEF n
  <1> QED BY <1>3, <1>4

(* The last NEEDBYTES of a header asks for all of it, no more and no less. *)
LEMMA FinalIs ==
  TypeInv /\ HeaderInv /\ Satisfied /\ Needs(file, Seen) <= need.n =>
    /\ Needs(file, Seen) \in Nat => (inHead => stateBytes = need.n)
    /\ Done(need.n) \in buf .. end
  <1> SUFFICES ASSUME TypeInv, HeaderInv, Satisfied, Needs(file, Seen) <= need.n
               PROVE  /\ Needs(file, Seen) \in Nat => (inHead => stateBytes = need.n)
                      /\ Done(need.n) \in buf .. end
    OBVIOUS
  <1> DEFINE n == need.n  w == Needs(file, Seen)
  <1>1. pc = "need" /\ n <= Bytes /\ w <= n
    BY Zenon DEF Satisfied
  <1>2. /\ Bytes = (IF inHead THEN stateBytes ELSE end - buf)
        /\ Done(n) = (IF inHead THEN buf ELSE buf + n)
    BY Zenon DEF Bytes, Done
  <1>3. /\ n \in Nat /\ stateBytes \in Int /\ buf \in Nat /\ end \in Nat /\ buf <= end
        /\ inHead \in BOOLEAN
    BY LengthType DEF TypeInv
  <1>4. inHead => stateBytes <= n \/ w > Bytes
    BY <1>1, SeenIs, Zenon DEF HeaderInv, Waits
  <1> SUFFICES (w \in Nat => (inHead => stateBytes = n)) /\ Done(n) \in buf .. end
    OBVIOUS
  <1> HIDE DEF n, w
  <1>5. inHead => stateBytes <= n \/ ~(w \in Nat)
    BY <1>1, <1>2, <1>3, <1>4
  <1>6. w \in Nat => (inHead => stateBytes = n)
    BY <1>1, <1>2, <1>3, <1>5
  <1>7. ASSUME inHead PROVE Done(n) \in buf .. end
    <2>1. Done(n) = buf
      BY <1>2, <1>7, Zenon
    <2> QED BY <2>1, <1>3
  <1>8. ASSUME ~inHead PROVE Done(n) \in buf .. end
    <2>1. Done(n) = buf + n /\ n <= end - buf
      BY <1>1, <1>2, <1>8, Zenon
    <2> QED BY <2>1, <1>3
  <1> QED BY <1>6, <1>7, <1>8, Zenon

-----------------------------------------------------------------------------
Inv1 == PlaceInv /\ TypeInv /\ HeaderInv

LEMMA SameFile ==
  ASSUME file' = file
  PROVE  /\ Ts' = Ts /\ Pva' = Pva /\ Es' = Es /\ Length' = Length
         /\ HeadSize' = HeadSize /\ Back' = Back /\ NeedPrefix' = NeedPrefix
         /\ PrefixLength' = PrefixLength
  <1>1. Ts' = Ts /\ Pva' = Pva /\ Es' = Es /\ Length' = Length
    BY DEF Ts, Pva, Es, Length
  <1>2. HeadSize' = HeadSize
    BY <1>1, Zenon DEF HeadSize
  <1>3. Back' = Back /\ PrefixLength' = PrefixLength
    BY <1>1, Zenon DEF Back, PrefixLength
  <1>4. NeedPrefix' = NeedPrefix
    BY <1>3, Zenon DEF NeedPrefix
  <1> QED BY <1>1, <1>2, <1>3, <1>4, Zenon

LEMMA KindIs ==
  ASSUME TypeInv
  PROVE  /\ file.kind \in Kinds /\ (Ts => ~Es /\ ~Pva) /\ (Es => ~Pva)
         /\ file \in Files /\ PacketSize \in Nat /\ PacketSize >= 5
         /\ PrefixLength = PrefixBytes(file) /\ PrefixLength \in {2, 4}
         /\ NeedPrefix.n = PrefixLength /\ NeedPrefix.of = "prefix"
         /\ ~Ts /\ ~Pva /\ ~Es => file.kind = "ps"
  <1>1. file.kind \in Kinds /\ file \in Files /\ PacketSize \in Nat /\ PacketSize >= 5
    BY DemuxAssumption DEF TypeInv
  <1>2. (Ts => ~Es /\ ~Pva) /\ (Es => ~Pva)
    BY DEF Ts, Es, Pva
  <1>3. PrefixLength = PrefixBytes(file) /\ PrefixLength \in {2, 4}
    BY DEF PrefixLength, PrefixBytes, Pva
  <1>4. ~Ts /\ ~Pva /\ ~Es => file.kind = "ps"
    BY <1>1 DEF Kinds, Ts, Pva, Es
  <1>5. NeedPrefix.n = PrefixLength /\ NeedPrefix.of = "prefix"
    BY DEF NeedPrefix
  <1> QED BY <1>1, <1>2, <1>3, <1>4, <1>5, Zenon

LEMMA PrefixParsed ==
  ASSUME NEW f, NEW q
  PROVE  Parsed(f, q, PrefixBytes(f), "prefix")
  BY Zenon DEF Parsed

LEMMA NeedMoreKeeps ==
  ASSUME Inv1, Satisfied, NEW n \in Nat, NEW of, NeedMore(n, of), n >= need.n,
         Parsed(file, Seen, n, of)
  PROVE  Inv1' /\ Seen' = Seen
  <1>1. /\ pc = "need" /\ file' = file /\ size' = size /\ pc' = pc /\ start' = start
        /\ packet' = packet /\ buf' = buf /\ end' = end /\ state' = state
        /\ stateBytes' = stateBytes /\ headBuf' = headBuf /\ inHead' = inHead
        /\ need' = [n |-> n, of |-> of]
    BY DEF NeedMore, statics, Satisfied
  <1>2. need'.n = n /\ need'.of = of
    BY <1>1
  <1>3. Seen' = Seen /\ Kept' = Kept
    BY <1>1, Zenon DEF Seen, Kept
  <1>4. /\ Ts' = Ts /\ Es' = Es /\ Length' = Length /\ HeadSize' = HeadSize
    BY <1>1, SameFile, Zenon
  <1>5. PlaceInv'
    BY <1>1, <1>4, Zenon DEF PlaceInv, Inv1
  <1>6. TypeInv'
    BY <1>1, <1>2, <1>4, Zenon DEF TypeInv, Inv1
  <1>7. inHead => stateBytes <= n \/ Waits(file, Seen)
    <2>1. inHead => stateBytes <= need.n \/ Waits(file, Seen)
      BY <1>1, Zenon DEF Inv1, HeaderInv
    <2>2. stateBytes \in Int /\ need.n \in Nat
      BY DEF Inv1, TypeInv
    <2>3. stateBytes <= need.n => stateBytes <= n
      BY <2>2
    <2> QED BY <2>1, <2>3, Zenon
  <1>8. HeaderInv'
    <2>1. Parsed(file', Seen', need'.n, need'.of)
      BY <1>1, <1>2, <1>3, Zenon
    <2>2. inHead' => /\ state' = "header" /\ stateBytes' > 0
                     /\ stateBytes' <= need'.n \/ Waits(file', Seen')
      BY <1>1, <1>2, <1>3, <1>7, Zenon DEF Inv1, HeaderInv
    <2>3. ~Between'
      BY <1>1 DEF Between
    <2> QED BY <1>1, <2>1, <2>2, <2>3, Zenon DEF Inv1, HeaderInv
  <1> QED BY <1>3, <1>5, <1>6, <1>8, Zenon DEF Inv1

LEMMA NextHeaderKeeps ==
  ASSUME Inv1, pc = "need", NEW from \in 0 .. end, NextHeader(from)
  PROVE  Inv1'
  <1>1. /\ file' = file /\ size' = size /\ start' = start
        /\ packet' = packet /\ buf' = from /\ end' = end
        /\ stateBytes' = stateBytes /\ headBuf' = headBuf /\ inHead' = FALSE
        /\ need' = NeedPrefix
        /\ IF Ts THEN state' = "skip" /\ pc' = Back ELSE state' = state /\ pc' = pc
    BY DEF NextHeader
  <1>2. /\ Ts' = Ts /\ Es' = Es /\ Length' = Length /\ HeadSize' = HeadSize
    BY <1>1, SameFile, Zenon
  <1>3. /\ PrefixLength = PrefixBytes(file) /\ PrefixLength \in Nat
        /\ need'.n = PrefixLength /\ need'.of = "prefix" /\ (Ts => ~Es)
    BY <1>1, KindIs DEF Inv1
  <1>4. Ts => pc' = "packet" /\ state' = "skip"
    BY <1>1, Zenon DEF Back
  <1>5. ~Ts => pc' = "need" /\ state' = state
    BY <1>1, Zenon
  <1>6. ~Es
    BY DEF Inv1, PlaceInv
  <1>7. PlaceInv'
    BY <1>1, <1>2, <1>4, <1>5, <1>6 DEF Inv1, PlaceInv
  <1>8. state' \in {"header", "data", "skip"}
    BY <1>4, <1>5, Zenon DEF Inv1, TypeInv
  <1>9. TypeInv'
    BY <1>1, <1>2, <1>3, <1>8 DEF Inv1, TypeInv
  <1>10. HeaderInv'
    <2>1. Parsed(file', Seen', need'.n, need'.of)
      BY <1>1, <1>3, PrefixParsed, Zenon
    <2>2. state' = "header" => ~Between'
      BY <1>4, <1>5 DEF Between
    <2>3. state' = "header" => state = "header"
      BY <1>4, <1>5
    <2> QED BY <1>1, <2>1, <2>2, <2>3, Zenon DEF Inv1, HeaderInv
  <1> QED BY <1>7, <1>9, <1>10, Zenon DEF Inv1

LEMMA ContentsKeeps ==
  ASSUME Inv1, pc = "need", NEW from \in 0 .. end, NEW n \in Int,
         NEW what \in {"data", "skip"}, NEW before, Contents(from, n, what, before)
  PROVE  Inv1'
  <1>1. CASE (what = "data" /\ Ts) \/ n > end - from
    <2>1. /\ file' = file /\ size' = size /\ start' = start
          /\ packet' = packet /\ buf' = end /\ end' = end
          /\ state' = what /\ stateBytes' = n - (end - from) /\ headBuf' = headBuf
          /\ inHead' = inHead /\ need' = need /\ pc' = Back
      BY <1>1 DEF Contents
    <2>2. /\ Ts' = Ts /\ Es' = Es /\ Length' = Length /\ HeadSize' = HeadSize
      BY <2>1, SameFile, Zenon
    <2>3. pc' = IF Ts THEN "packet" ELSE "returned"
      BY <2>1, Zenon DEF Back
    <2>4. ~Es /\ state' # "header"
      BY <2>1 DEF Inv1, PlaceInv
    <2>5. (Ts => ~Es) /\ (Ts => end = packet) /\ (~Ts => end = Least(start + size, Length))
      BY KindIs, Zenon DEF Inv1, PlaceInv
    <2>6. PlaceInv'
      BY <2>1, <2>2, <2>3, <2>4, <2>5 DEF PlaceInv
    <2>7. stateBytes' \in Int
      BY <2>1, LengthType DEF Inv1, TypeInv
    <2>8. state' \in {"header", "data", "skip"} /\ buf' \in 0 .. end'
      BY <2>1, LengthType DEF Inv1, TypeInv
    <2>9. TypeInv'
      BY <2>1, <2>2, <2>7, <2>8, Zenon DEF Inv1, TypeInv
    <2>10. pc' # "need"
      BY <2>3
    <2> QED BY <2>4, <2>6, <2>9, <2>10, Zenon DEF Inv1, HeaderInv
  <1>2. CASE ~((what = "data" /\ Ts) \/ n > end - from)
    <2>1. NextHeader(IF n > 0 THEN from + n ELSE from)
      BY <1>2 DEF Contents
    <2>2. (IF n > 0 THEN from + n ELSE from) \in 0 .. end
      BY <1>2, LengthType DEF Inv1, TypeInv
    <2> QED BY <2>1, <2>2, NextHeaderKeeps
  <1> QED BY <1>1, <1>2, Zenon

LEMMA StopKeeps ==
  ASSUME Inv1, pc = "need", NEW where, where = (IF Ts THEN "exit" ELSE "done"), Stop(where)
  PROVE  Inv1'
  <1>1. /\ file' = file /\ size' = size /\ start' = start
        /\ packet' = packet /\ buf' = buf /\ end' = end /\ state' = state
        /\ stateBytes' = stateBytes /\ headBuf' = headBuf /\ inHead' = inHead
        /\ need' = need /\ pc' = where
    BY DEF Stop, statics
  <1>2. /\ Ts' = Ts /\ Es' = Es /\ Length' = Length /\ HeadSize' = HeadSize
    BY <1>1, SameFile, Zenon
  <1>3. PlaceInv'
    BY <1>1, <1>2 DEF Inv1, PlaceInv
  <1>4. TypeInv'
    BY <1>1, <1>2, Zenon DEF Inv1, TypeInv
  <1>5. pc' # "need" /\ ~Between'
    BY <1>1 DEF Between
  <1> QED BY <1>1, <1>3, <1>4, <1>5, Zenon DEF Inv1, HeaderInv

-----------------------------------------------------------------------------
(* The first NEEDBYTES is for the prefix; what a header starts with.       *)
LEMMA PrefixNeed ==
  ASSUME NEW f, NEW q, NEW n, Parsed(f, q, n, "prefix")
  PROVE  n = PrefixBytes(f)
  BY DEF Parsed, ParsedVideo, ParsedPack, ParsedOther, ParsedPva

LEMMA CodeIs ==
  ASSUME NEW f \in Files, NEW q \in Offsets
  PROVE  /\ f.kind # "pva" /\ There(q) >= 4 =>
              (StartsWith(f, q, Code(f)) <=>
                 Item(f, q, 0) = 0 /\ Item(f, q, 1) = 0 /\ Item(f, q, 2) = 1)
         /\ f.kind = "pva" /\ There(q) >= 2 =>
              (StartsWith(f, q, Code(f)) <=> Item(f, q, 0) = 65 /\ Item(f, q, 1) = 86)
  <1>1. ASSUME f.kind # "pva", There(q) >= 4
        PROVE  StartsWith(f, q, Code(f)) <=>
                 Item(f, q, 0) = 0 /\ Item(f, q, 1) = 0 /\ Item(f, q, 2) = 1
    <2> DEFINE i0 == Item(f, q, 0)  i1 == Item(f, q, 1)  i2 == Item(f, q, 2)
    <2>1. Code(f) = <<0, 0, 1>> /\ Len(q) >= 3
      BY <1>1, ThereType DEF Code, There
    <2>2. StartsWith(f, q, Code(f)) <=>
            \A k \in DOMAIN <<0, 0, 1>> : Item(f, q, k - 1) = <<0, 0, 1>>[k]
      BY <2>1 DEF StartsWith
    <2>3. DOMAIN <<0, 0, 1>> = {1, 2, 3} /\ 1 - 1 = 0 /\ 2 - 1 = 1 /\ 3 - 1 = 2
          /\ <<0, 0, 1>>[1] = 0 /\ <<0, 0, 1>>[2] = 0 /\ <<0, 0, 1>>[3] = 1
      OBVIOUS
    <2> QED BY <2>2, <2>3, Zenon
  <1>2. ASSUME f.kind = "pva", There(q) >= 2
        PROVE  StartsWith(f, q, Code(f)) <=> Item(f, q, 0) = 65 /\ Item(f, q, 1) = 86
    <2>1. Code(f) = <<65, 86>> /\ Len(q) >= 2
      BY <1>2, ThereType DEF Code, There
    <2>2. StartsWith(f, q, Code(f)) <=>
            \A k \in DOMAIN <<65, 86>> : Item(f, q, k - 1) = <<65, 86>>[k]
      BY <2>1 DEF StartsWith
    <2>3. DOMAIN <<65, 86>> = {1, 2} /\ 1 - 1 = 0 /\ 2 - 1 = 1
          /\ <<65, 86>>[1] = 65 /\ <<65, 86>>[2] = 86
      OBVIOUS
    <2>4. StartsWith(f, q, Code(f)) <=>
            \A k \in {1, 2} : Item(f, q, k - 1) = <<65, 86>>[k]
      BY <2>2, <2>3, Zenon
    <2> QED BY <2>3, <2>4
  <1> QED BY <1>1, <1>2, Zenon

(* What the code knows of a header when a NEEDBYTES is done.               *)
LEMMA HeaderIs ==
  Inv1 /\ Satisfied =>
    /\ pc = "need" /\ Seen \in Offsets /\ file \in Files /\ ~Es
    /\ Parsed(file, Seen, need.n, need.of) /\ need.n \in 1 .. 264
    /\ There(Seen) \in Nat /\ There(Seen) = Bytes /\ There(Seen) >= need.n
    /\ \A k \in Nat : k < need.n =>
         Offset(k) = Seen[k + 1] /\ Header(k) = Item(file, Seen, k) /\ Header(k) \in 0 .. 255
  <1> SUFFICES ASSUME Inv1, Satisfied
               PROVE  /\ pc = "need" /\ Seen \in Offsets /\ file \in Files /\ ~Es
                      /\ Parsed(file, Seen, need.n, need.of) /\ need.n \in 1 .. 264
                      /\ There(Seen) \in Nat /\ There(Seen) = Bytes
                      /\ There(Seen) >= need.n
                      /\ \A k \in Nat : k < need.n =>
                           /\ Offset(k) = Seen[k + 1] /\ Header(k) = Item(file, Seen, k)
                           /\ Header(k) \in 0 .. 255
    OBVIOUS
  <1>1. pc = "need" /\ need.n <= Bytes
    BY DEF Satisfied
  <1>2. TypeInv /\ HeaderInv /\ PlaceInv
    BY DEF Inv1
  <1>3. Parsed(file, Seen, need.n, need.of) /\ file \in Files /\ ~Es
    BY <1>1, <1>2 DEF HeaderInv, TypeInv, PlaceInv
  <1>4. /\ Seen \in Offsets /\ There(Seen) = Bytes /\ Bytes \in Nat
        /\ \A k \in Nat : k < Bytes =>
             /\ Offset(k) = Seen[k + 1] /\ Header(k) = Item(file, Seen, k)
             /\ Offset(k) \in 0 .. Length - 1 /\ Header(k) \in 0 .. 255
    BY <1>1, <1>2, SeenIs, Zenon
  <1>5. need.n \in 1 .. 264
    BY <1>1, <1>2, NeedBounds, Zenon
  <1> DEFINE n == need.n
  <1>6. \A k \in Nat : k < n => k < Bytes
    <2>1. n \in Nat /\ n <= Bytes /\ Bytes \in Nat
      BY <1>1, <1>4, <1>5
    <2> HIDE DEF n
    <2> QED BY <2>1
  <1>7. There(Seen) >= n
    <2>1. n \in Nat /\ n <= Bytes /\ Bytes \in Nat
      BY <1>1, <1>4, <1>5
    <2>2. Bytes >= n
      <3> HIDE DEF n
      <3> QED BY <2>1
    <2> QED BY <1>4, <2>2, Zenon
  <1> QED BY <1>1, <1>3, <1>4, <1>5, <1>6, <1>7, Zenon

(* The prefix of a header, and that there is none.                         *)
LEMMA PrefixIs ==
  Inv1 /\ Satisfied /\ need.of = "prefix" =>
    /\ need.n = PrefixBytes(file) /\ There(Seen) >= PrefixBytes(file)
    /\ Started(file, Seen) <=> IF Pva THEN Header(0) = 65 /\ Header(1) = 86 ELSE Prefix
  <1> SUFFICES ASSUME Inv1, Satisfied, need.of = "prefix"
               PROVE  /\ need.n = PrefixBytes(file) /\ There(Seen) >= PrefixBytes(file)
                      /\ Started(file, Seen) <=>
                           IF Pva THEN Header(0) = 65 /\ Header(1) = 86 ELSE Prefix
    OBVIOUS
  <1>1. /\ pc = "need" /\ Seen \in Offsets /\ file \in Files
        /\ Parsed(file, Seen, need.n, "prefix") /\ There(Seen) >= need.n
        /\ \A k \in Nat : k < need.n => Header(k) = Item(file, Seen, k)
    BY HeaderIs, Zenon
  <1>2. need.n = PrefixBytes(file)
    BY <1>1, PrefixNeed, Zenon
  <1>3. CASE Pva
    <2>1. need.n = 2 /\ file.kind = "pva" /\ PrefixBytes(file) = 2
      BY <1>2, <1>3 DEF Pva, PrefixBytes
    <2>2. Header(0) = Item(file, Seen, 0) /\ Header(1) = Item(file, Seen, 1)
      BY <1>1, <2>1
    <2>3. There(Seen) >= 2
      BY <1>1, <2>1
    <2>4. StartsWith(file, Seen, Code(file)) <=> Item(file, Seen, 0) = 65 /\ Item(file, Seen, 1) = 86
      BY <1>1, <2>1, <2>3, CodeIs, Zenon
    <2> QED BY <1>2, <1>3, <2>1, <2>2, <2>3, <2>4, Zenon DEF Started
  <1>4. CASE ~Pva
    <2>1. need.n = 4 /\ file.kind # "pva" /\ PrefixBytes(file) = 4
      BY <1>2, <1>4 DEF Pva, PrefixBytes
    <2>2. Header(0) = Item(file, Seen, 0) /\ Header(1) = Item(file, Seen, 1)
          /\ Header(2) = Item(file, Seen, 2)
      BY <1>1, <2>1
    <2>3. There(Seen) >= 4
      BY <1>1, <2>1
    <2>4. StartsWith(file, Seen, Code(file)) <=>
            Item(file, Seen, 0) = 0 /\ Item(file, Seen, 1) = 0 /\ Item(file, Seen, 2) = 1
      BY <1>1, <2>1, <2>3, CodeIs, Zenon
    <2> QED BY <1>2, <1>4, <2>1, <2>2, <2>3, <2>4, Zenon DEF Started, Prefix
  <1> QED BY <1>3, <1>4, Zenon

(* Bytes that are not the start of a header: of head_buf, there are no     *)
(* more than were asked for.                                               *)
LEMMA NoHeader ==
  Inv1 /\ Satisfied /\ need.of = "prefix" /\ ~Started(file, Seen) =>
    /\ Needs(file, Seen) = 0
    /\ inHead => stateBytes = PrefixBytes(file) /\ stateBytes <= Len(headBuf)
    /\ ~inHead => buf + 1 \in 0 .. end
  <1> SUFFICES ASSUME Inv1, Satisfied, need.of = "prefix", ~Started(file, Seen)
               PROVE  /\ Needs(file, Seen) = 0
                      /\ inHead => stateBytes = PrefixBytes(file)
                                   /\ stateBytes <= Len(headBuf)
                      /\ ~inHead => buf + 1 \in 0 .. end
    OBVIOUS
  <1>1. need.n = PrefixBytes(file) /\ There(Seen) >= PrefixBytes(file)
    BY PrefixIs, Zenon
  <1>2. There(Seen) \in Nat /\ There(Seen) = Bytes /\ need.n \in 1 .. 264 /\ pc = "need"
        /\ There(Seen) >= need.n
    BY HeaderIs, Zenon
  <1>3. Needs(file, Seen) = 0
    <2>1. ~StartsWith(file, Seen, Code(file))
      BY <1>1, Zenon DEF Started
    <2>2. ~(There(Seen) < PrefixBytes(file))
      BY <1>1, <1>2 DEF PrefixBytes
    <2> QED BY <2>1, <2>2, Zenon DEF Needs
  <1>4. Needs(file, Seen) <= need.n /\ Needs(file, Seen) \in Nat
    BY <1>2, <1>3
  <1>5. inHead => stateBytes = need.n
    BY <1>4, FinalIs, Zenon DEF Inv1
  <1>6. inHead => stateBytes <= Len(headBuf)
    <2>1. inHead => state = "header"
      BY <1>2, Zenon DEF Inv1, HeaderInv
    <2> QED BY <2>1, KeptIs, Zenon DEF Inv1
  <1>7. ~inHead => buf + 1 \in 0 .. end
    <2>1. ~inHead => end - buf >= need.n
      BY <1>2, Zenon DEF Bytes
    <2> DEFINE n == need.n
    <2>2. n \in 1 .. 264 /\ (~inHead => end - buf >= n)
      BY <1>2, <2>1, Zenon
    <2>3. buf \in Nat /\ end \in Nat
      BY LengthType DEF Inv1, TypeInv
    <2> HIDE DEF n
    <2> QED BY <2>2, <2>3
  <1> QED BY <1>1, <1>3, <1>5, <1>6, <1>7, Zenon

(* The last NEEDBYTES of a header.                                         *)
LEMMA LastNeed ==
  Inv1 /\ Satisfied /\ Needs(file, Seen) = need.n =>
    /\ inHead => stateBytes = need.n
    /\ Done(need.n) \in buf .. end /\ Done(need.n) \in 0 .. end
  <1> SUFFICES ASSUME Inv1, Satisfied, Needs(file, Seen) = need.n
               PROVE  /\ inHead => stateBytes = need.n
                      /\ Done(need.n) \in buf .. end /\ Done(need.n) \in 0 .. end
    OBVIOUS
  <1>1. need.n \in 1 .. 264
    BY HeaderIs, Zenon
  <1>2. Needs(file, Seen) <= need.n /\ Needs(file, Seen) \in Nat
    BY <1>1
  <1>3. /\ inHead => stateBytes = need.n
        /\ Done(need.n) \in buf .. end
    BY <1>2, FinalIs, Zenon DEF Inv1
  <1>4. buf \in Nat
    BY LengthType DEF Inv1, TypeInv
  <1>5. Done(need.n) \in 0 .. end
    BY <1>3, <1>4
  <1> QED BY <1>3, <1>5, Zenon

-----------------------------------------------------------------------------
(* What each action on a header does, told by the bytes of the header.     *)
Rank(n, of) ==      \* falls from one NEEDBYTES of a header to the next
  CASE of = "prefix" -> 30
    [] of \in {"pes", "pack", "other", "pva"} -> 29
    [] of = "stuffing" -> 26 - n
    [] of \in {"buffer", "pes2", "pack2"} -> 1
    [] OTHER -> 0
More ==
  \E n \in Nat : \E of :
    /\ NeedMore(n, of) /\ n >= need.n /\ Parsed(file, Seen, n, of)
    /\ Rank(n, of) < Rank(need.n, need.of)
PassOver == NextHeader(Done(need.n)) /\ sent' = sent
Id == Item(file, Seen, 3)

LEMMA RankIs ==
  ASSUME NEW n
  PROVE  /\ Rank(n, "prefix") = 30
         /\ \A of \in {"pes", "pack", "other", "pva"} : Rank(n, of) = 29
         /\ Rank(n, "stuffing") = 26 - n
         /\ \A of \in {"buffer", "pes2", "pack2"} : Rank(n, of) = 1
         /\ \A of \in {"packEnd", "stamped", "plain", "pvaEnd"} : Rank(n, of) = 0
  BY DEF Rank

(* How many bytes a header has, once its first ones are known.             *)
LEMMA NeedsIs ==
  ASSUME NEW f \in Files, NEW q \in Offsets, Started(f, q)
  PROVE  /\ VideoHeader(f, q) => Needs(f, q) = HeaderLength(f, q)
         /\ f.kind = "pva" => Needs(f, q) = PvaHeaderLength(f, q)
         /\ f.kind = "ps" =>
              /\ Item(f, q, 3) = 186 => Needs(f, q) = PackLength(f, q)
              /\ Item(f, q, 3) < 185 /\ Item(f, q, 3) # f.track => Needs(f, q) = 4
              /\ Item(f, q, 3) > 186 /\ Item(f, q, 3) # f.track => Needs(f, q) = 6
  <1>1. VideoHeader(f, q) => Needs(f, q) = HeaderLength(f, q)
    BY VideoNeeds, Zenon DEF Started
  <1>2. PrefixBytes(f) \in Nat /\ There(q) \in Nat
    BY ThereType DEF PrefixBytes
  <1>3. ~(There(q) < PrefixBytes(f)) /\ StartsWith(f, q, Code(f))
    BY <1>2 DEF Started
  <1>4. f.kind = "pva" => Needs(f, q) = PvaHeaderLength(f, q)
    BY <1>3 DEF Needs
  <1>5. f.kind = "ps" => Needs(f, q) = ProgramNeeds(f, q)
    BY <1>3 DEF Needs
  <1> DEFINE id == Item(f, q, 3)
  <1>6. id \in 0 .. 255
    BY ItemType
  <1>7. /\ id = 186 => ProgramNeeds(f, q) = PackLength(f, q)
        /\ id < 185 /\ id # f.track => ProgramNeeds(f, q) = 4
        /\ id > 186 /\ id # f.track => ProgramNeeds(f, q) = 6
    <2>1. ProgramNeeds(f, q) =
            CASE id = 185 -> 0
              [] id = 186 -> PackLength(f, q)
              [] id = f.track /\ id \notin {185, 186} -> HeaderLength(f, q)
              [] id < 185 /\ id # f.track -> 4
              [] id > 186 /\ id # f.track -> 6
      BY Zenon DEF ProgramNeeds
    <2> HIDE DEF id
    <2> QED BY <1>6, <2>1
  <1> QED BY <1>1, <1>4, <1>5, <1>7, Zenon

LEMMA StreamIdIs ==
  ASSUME Inv1, StreamId
  PROVE  /\ Satisfied /\ ~Pva /\ Started(file, Seen)
         /\ \/ More /\ sent' = sent
            \/ Ts /\ Stop("exit")
            \/ ~Ts /\ Id = 185 /\ Stop("done")
            \/ /\ ~Ts /\ Id < 185 /\ Id # file.track /\ Needs(file, Seen) = 4
               /\ need.n = 4 /\ PassOver
  <1>1. Satisfied /\ need.of = "prefix" /\ ~Pva /\ Prefix
    BY DEF StreamId, Satisfies
  <1>2. Started(file, Seen) /\ need.n = PrefixBytes(file)
    BY <1>1, PrefixIs, Zenon
  <1>3. need.n = 4 /\ file.kind # "pva" /\ file.kind \in Kinds
    BY <1>1, <1>2, KindIs DEF Pva, PrefixBytes, Inv1
  <1>4. /\ Seen \in Offsets /\ file \in Files /\ ~Es
        /\ \A k \in Nat : k < need.n => Header(k) = Item(file, Seen, k)
    BY <1>1, HeaderIs, Zenon
  <1>5. Header(3) = Id
    BY <1>3, <1>4 DEF Id
  <1>6. Id \in 0 .. 255
    BY <1>4, ItemType DEF Id
  <1>7. /\ VideoHeader(file, Seen) => Parsed(file, Seen, 7, "pes")
        /\ file.kind = "ps" /\ Id = 186 => Parsed(file, Seen, 5, "pack")
        /\ file.kind = "ps" /\ Id > 186 /\ Id # file.track => Parsed(file, Seen, 6, "other")
    BY <1>2, <1>4, StartParsed, Zenon DEF Id
  <1>8. ASSUME NEW n \in {5, 6, 7}, NEW of \in {"pes", "pack", "other"},
               NeedMore(n, of), Parsed(file, Seen, n, of)
        PROVE  More /\ sent' = sent
    <2>1. n \in Nat /\ n >= need.n
      BY <1>3
    <2>2. Rank(n, of) < Rank(need.n, need.of)
      <3>1. Rank(n, of) = 29 /\ Rank(need.n, need.of) = 30
        BY <1>1, RankIs
      <3> QED BY <3>1
    <2> QED BY <1>8, <2>1, <2>2, Zenon DEF More, NeedMore
  <1>9. CASE Ts
    <2>1. VideoHeader(file, Seen)
      BY <1>9 DEF VideoHeader, Ts
    <2>2. NeedMore(7, "pes") \/ Stop("exit")
      BY <1>9 DEF StreamId
    <2>3. 7 \in {5, 6, 7} /\ "pes" \in {"pes", "pack", "other"}
      OBVIOUS
    <2> QED BY <1>1, <1>2, <1>7, <1>8, <1>9, <2>1, <2>2, <2>3, Zenon
  <1>10. CASE ~Ts
    <2>1. file.kind = "ps"
      BY <1>1, <1>4, <1>10, KindIs, Zenon DEF Inv1
    <2>2. \/ Id = 185 /\ Stop("done")
          \/ Id = 186 /\ NeedMore(5, "pack")
          \/ Id = file.track /\ Id \notin {185, 186} /\ NeedMore(7, "pes")
          \/ Id < 185 /\ Id # file.track /\ NextHeader(Done(4)) /\ sent' = sent
          \/ Id > 186 /\ Id # file.track /\ NeedMore(6, "other")
      BY <1>5, <1>6, <1>10 DEF StreamId
    <2>3. Id = file.track /\ Id \notin {185, 186} => VideoHeader(file, Seen)
      BY <2>1 DEF VideoHeader, Id
    <2>4. /\ 5 \in {5, 6, 7} /\ 6 \in {5, 6, 7} /\ 7 \in {5, 6, 7}
          /\ "pes" \in {"pes", "pack", "other"} /\ "pack" \in {"pes", "pack", "other"}
          /\ "other" \in {"pes", "pack", "other"}
      OBVIOUS
    <2>5. Id < 185 /\ Id # file.track => Needs(file, Seen) = 4
      BY <1>2, <1>4, <2>1, NeedsIs, Zenon DEF Id
    <2> QED BY <1>1, <1>2, <1>3, <1>7, <1>8, <1>10, <2>1, <2>2, <2>3, <2>4, <2>5, Zenon
            DEF PassOver
  <1> QED BY <1>9, <1>10, Zenon

(* A pack header is asked for step by step and then passed over.           *)
LEMMA PackHeaderIs ==
  ASSUME Inv1, PackHeader
  PROVE  /\ Satisfied /\ Started(file, Seen) /\ file.kind = "ps" /\ Id = 186
         /\ \/ More /\ sent' = sent
            \/ Needs(file, Seen) = need.n /\ PackLength(file, Seen) = need.n /\ PassOver
  <1>1. Satisfied /\ need.of \in {"pack", "pack2", "packEnd"}
    BY DEF PackHeader, Satisfies
  <1> DEFINE f == file  q == Seen  n == need.n
  <1>2. /\ q \in Offsets /\ f \in Files /\ Parsed(f, q, n, need.of)
        /\ There(q) >= n /\ n \in 1 .. 264
        /\ \A k \in Nat : k < n => Header(k) = Item(f, q, k) /\ Header(k) \in 0 .. 255
    BY <1>1, HeaderIs, Zenon
  <1>3. /\ Started(f, q) /\ f.kind = "ps" /\ Item(f, q, 3) = 186
        /\ need.of = "pack" /\ Item(f, q, 4) \div 64 = 1 => Parsed(f, q, 14, "pack2")
        /\ need.of = "pack" /\ Item(f, q, 4) \div 64 # 1 /\ Item(f, q, 4) \div 16 = 2 =>
              Parsed(f, q, 12, "packEnd")
        /\ need.of = "pack" /\ Item(f, q, 4) \div 64 # 1 /\ Item(f, q, 4) \div 16 # 2 =>
              PackLength(f, q) = 5 /\ n = 5
        /\ need.of = "pack2" => Parsed(f, q, 14 + (Item(f, q, 13) % 8), "packEnd")
        /\ need.of = "packEnd" => n = PackLength(f, q)
    BY <1>1, <1>2, PackParsed
  <1>4. Needs(f, q) = PackLength(f, q)
    BY <1>2, <1>3, NeedsIs, Zenon
  <1>5. Id = 186
    BY <1>3, Zenon DEF Id
  <1>6. (need.of = "pack" => n = 5) /\ (need.of = "pack2" => n = 14)
    BY <1>2 DEF Parsed, ParsedVideo, ParsedPack, ParsedOther, ParsedPva
  <1>7. ASSUME NEW m \in Nat, NEW of, m >= n, NeedMore(m, of), Parsed(f, q, m, of),
               Rank(m, of) < Rank(n, need.of)
        PROVE  More /\ sent' = sent
    BY <1>7, Zenon DEF More, NeedMore
  <1>8. CASE need.of = "pack"
    <2>1. Header(4) = Item(f, q, 4)
      BY <1>2, <1>6, <1>8
    <2>2. \/ Item(f, q, 4) \div 64 = 1 /\ NeedMore(14, "pack2")
          \/ Item(f, q, 4) \div 64 # 1 /\ Item(f, q, 4) \div 16 = 2 /\ NeedMore(12, "packEnd")
          \/ /\ Item(f, q, 4) \div 64 # 1 /\ Item(f, q, 4) \div 16 # 2
             /\ NextHeader(Done(5)) /\ sent' = sent
      BY <1>8, <2>1 DEF PackHeader, Satisfies, Bits
    <2>3. /\ 14 \in Nat /\ 14 >= n /\ 12 \in Nat /\ 12 >= n
          /\ Rank(14, "pack2") < Rank(n, need.of) /\ Rank(12, "packEnd") < Rank(n, need.of)
      BY <1>6, <1>8, RankIs
    <2>4. \/ More /\ sent' = sent
          \/ Needs(f, q) = n /\ PackLength(f, q) = n /\ NextHeader(Done(n)) /\ sent' = sent
      BY <1>3, <1>4, <1>6, <1>7, <1>8, <2>2, <2>3, Zenon
    <2> QED BY <1>1, <1>5, <1>3, <2>4, Zenon DEF PassOver
  <1>9. CASE need.of = "pack2"
    <2>1. Header(13) = Item(f, q, 13) /\ Header(13) \in 0 .. 255
      BY <1>2, <1>6, <1>9
    <2>2. NeedMore(14 + (Item(f, q, 13) % 8), "packEnd")
      BY <1>9, <2>1 DEF PackHeader, Satisfies
    <2>3. 14 + (Item(f, q, 13) % 8) \in Nat /\ 14 + (Item(f, q, 13) % 8) >= n
      <3> DEFINE i == Item(f, q, 13)
      <3>1. i \in 0 .. 255 /\ n = 14
        BY <1>6, <1>9, <2>1
      <3> HIDE DEF i, n
      <3>2. 14 + (i % 8) \in Nat /\ 14 + (i % 8) >= n
        BY <3>1
      <3> QED BY <3>2 DEF i
    <2> DEFINE m == 14 + (Item(f, q, 13) % 8)
    <2>4. Rank(m, "packEnd") < Rank(n, need.of)
      <3>1. Rank(m, "packEnd") = 0 /\ Rank(n, need.of) = 1
        BY <1>9, RankIs
      <3> QED BY <3>1
    <2> HIDE DEF m
    <2>5. More /\ sent' = sent
      BY <1>3, <1>7, <1>9, <2>2, <2>3, <2>4, Zenon DEF m
    <2> QED BY <1>1, <1>5, <1>3, <2>5, Zenon
  <1>10. CASE need.of = "packEnd"
    <2>1. NextHeader(Done(n)) /\ sent' = sent
      BY <1>10 DEF PackHeader, Satisfies
    <2> QED BY <1>1, <1>5, <1>3, <1>4, <1>10, <2>1, Zenon DEF PassOver
  <1> QED BY <1>1, <1>8, <1>9, <1>10, Zenon

LEMMA MoreIs ==
  ASSUME NEW m \in Nat, NEW of, m >= need.n, NeedMore(m, of), Parsed(file, Seen, m, of),
         Rank(m, of) < Rank(need.n, need.of)
  PROVE  More /\ sent' = sent
  BY Zenon DEF More, NeedMore

LEMMA LongIs ==
  ASSUME Inv1, Satisfied, need.n >= 6
  PROVE  /\ 6 + Long(4) = PesSize(file, Seen)
         /\ need.n >= 8 => Long(6) + 8 = PvaSize(file, Seen)
         /\ PesSize(file, Seen) \in Nat /\ PvaSize(file, Seen) \in Nat
  <1>1. /\ Seen \in Offsets /\ file \in Files /\ need.n \in 1 .. 264
        /\ \A k \in Nat : k < need.n => Header(k) = Item(file, Seen, k) /\ Header(k) \in 0 .. 255
    BY HeaderIs, Zenon
  <1> DEFINE a == Item(file, Seen, 4)  b == Item(file, Seen, 5)
             c == Item(file, Seen, 6)  d == Item(file, Seen, 7)
  <1>2. Header(4) = a /\ Header(5) = b
    BY <1>1
  <1>3. need.n >= 8 => Header(6) = c /\ Header(7) = d
    BY <1>1
  <1>4. a \in 0 .. 255 /\ b \in 0 .. 255 /\ c \in 0 .. 255 /\ d \in 0 .. 255
    BY <1>1, ItemType
  <1>5. Long(4) = Header(4) * 256 + Header(5) /\ Long(6) = Header(6) * 256 + Header(7)
    <2>1. 4 + 1 = 5 /\ 6 + 1 = 7
      OBVIOUS
    <2> QED BY <2>1, Zenon DEF Long
  <1>6. PesSize(file, Seen) = 6 + a * 256 + b /\ PvaSize(file, Seen) = 8 + c * 256 + d
    BY Zenon DEF PesSize, PvaSize
  <1> HIDE DEF a, b, c, d
  <1>7. 6 + (a * 256 + b) = 6 + a * 256 + b /\ (c * 256 + d) + 8 = 8 + c * 256 + d
    BY <1>4
  <1>8. 6 + Long(4) = PesSize(file, Seen)
    BY <1>2, <1>5, <1>6, <1>7, Zenon
  <1>9. need.n >= 8 => Long(6) + 8 = PvaSize(file, Seen)
    BY <1>3, <1>5, <1>6, <1>7
  <1>10. PesSize(file, Seen) \in Nat /\ PvaSize(file, Seen) \in Nat
    BY <1>1, SizeType, Zenon
  <1> QED BY <1>8, <1>9, <1>10, Zenon

(* A packet of another stream is skipped, all of it.                       *)
LEMMA OtherPacketIs ==
  ASSUME Inv1, OtherPacket
  PROVE  /\ Satisfied /\ Started(file, Seen) /\ file.kind = "ps"
         /\ Id > 186 /\ Id # file.track
         /\ Needs(file, Seen) = need.n /\ need.n = 6
         /\ Contents(Done(need.n), PesSize(file, Seen) - need.n, "skip", sent)
  <1>1. Satisfied /\ need.of = "other" /\ Contents(Done(6), Long(4), "skip", sent)
    BY DEF OtherPacket, Satisfies
  <1>2. Seen \in Offsets /\ file \in Files /\ Parsed(file, Seen, need.n, "other")
    BY <1>1, HeaderIs, Zenon
  <1>3. Started(file, Seen) /\ ParsedOther(file, Seen, need.n, "other") /\ need.n = 6
    BY <1>2, ParsedByKind, Zenon
  <1>4. file.kind = "ps" /\ Id > 186 /\ Id # file.track
    BY <1>3, Zenon DEF ParsedOther, Id
  <1>5. Needs(file, Seen) = 6
    BY <1>2, <1>3, <1>4, NeedsIs, Zenon DEF Id
  <1>6. Long(4) = PesSize(file, Seen) - 6
    <2>1. 6 + Long(4) = PesSize(file, Seen) /\ PesSize(file, Seen) \in Nat
      BY <1>1, <1>3, LongIs
    <2>2. Long(4) \in Int
      <3>1. /\ Header(4) \in 0 .. 255 /\ Header(4 + 1) \in 0 .. 255
        BY <1>1, <1>3, HeaderIs
      <3> DEFINE a == Header(4)  b == Header(4 + 1)
      <3>2. Long(4) = a * 256 + b /\ a \in 0 .. 255 /\ b \in 0 .. 255
        BY <3>1, Zenon DEF Long
      <3> HIDE DEF a, b
      <3> QED BY <3>2
    <2> DEFINE l == Long(4)  s == PesSize(file, Seen)
    <2>3. 6 + l = s /\ s \in Nat /\ l \in Int
      BY <2>1, <2>2, Zenon
    <2> HIDE DEF l, s
    <2>4. l = s - 6
      BY <2>3
    <2> QED BY <2>4, Zenon DEF l, s
  <1> QED BY <1>1, <1>3, <1>4, <1>5, <1>6, Zenon

LEMMA BitsIs ==
  ASSUME Inv1, Satisfied, NEW k \in Nat, k < need.n
  PROVE  /\ \A m : Bits(k, m) = Item(file, Seen, k) \div m
         /\ Bits(k, 16) \in 0 .. 15
         /\ mpeg1_skip_table[Item(file, Seen, k) \div 16] \in {0, 4, 9}
  <1>1. Header(k) = Item(file, Seen, k) /\ Header(k) \in 0 .. 255
    BY HeaderIs, Zenon
  <1>2. \A m : Bits(k, m) = Item(file, Seen, k) \div m
    BY <1>1, Zenon DEF Bits
  <1> DEFINE i == Item(file, Seen, k)
  <1>3. i \in 0 .. 255
    BY <1>1, Zenon
  <1>4. Bits(k, 16) = i \div 16
    BY <1>2, Zenon
  <1> HIDE DEF i
  <1>5. i \div 16 \in 0 .. 15
    BY <1>3
  <1>6. mpeg1_skip_table[i \div 16] \in {0, 4, 9}
    BY <1>5 DEF mpeg1_skip_table
  <1> QED BY <1>2, <1>4, <1>5, <1>6, Zenon DEF i

(* mpeg1_skip_table and the lengths of the reference agree.                *)
LEMMA AfterStuffingIs ==
  ASSUME Inv1, Satisfied, NEW n \in 7 .. 24, n = need.n,
         BeforeStamp(file, Seen, n), Stuffing(n), need.of \in {"pes", "stuffing"}
  PROVE  More /\ sent' = sent
  <1> DEFINE f == file  q == Seen  i == Item(f, q, n - 1)
  <1>1. q \in Offsets /\ f \in Files
    BY HeaderIs, Zenon
  <1>2. /\ i = 255 /\ n <= 23 => Parsed(f, q, n + 1, "stuffing")
        /\ ~(i = 255 /\ n <= 23) =>
              /\ i \div 64 = 1 => Parsed(f, q, n + 2, "buffer")
              /\ i \div 64 # 1 =>
                   Parsed(f, q, n + mpeg1_skip_table[i \div 16], StampKind(f, q, n))
    BY <1>1, StuffingParsed
  <1>3. n - 1 \in Nat /\ n - 1 < need.n
    OBVIOUS
  <1>4. /\ Bits(n - 1, 64) = i \div 64 /\ Bits(n - 1, 32) = i \div 32
        /\ Bits(n - 1, 16) = i \div 16 /\ mpeg1_skip_table[i \div 16] \in {0, 4, 9}
        /\ Header(n - 1) = i
    BY <1>3, BitsIs, HeaderIs
  <1>5. \/ i = 255 /\ n <= 23 /\ NeedMore(n + 1, "stuffing")
        \/ ~(i = 255 /\ n <= 23) /\ i \div 64 = 1 /\ NeedMore(n + 2, "buffer")
        \/ /\ ~(i = 255 /\ n <= 23) /\ i \div 64 # 1
           /\ NeedMore(n + mpeg1_skip_table[i \div 16],
                       IF i \div 32 = 1 THEN "stamped" ELSE "plain")
    BY <1>4, Zenon DEF Stuffing, AfterStuffing
  <1>6. StampKind(f, q, n) = IF i \div 32 = 1 THEN "stamped" ELSE "plain"
    BY Zenon DEF StampKind
  <1> DEFINE Asked(m, of) == /\ NeedMore(m, of) /\ m >= n /\ Parsed(f, q, m, of)
                             /\ Rank(m, of) < Rank(n, need.of)
  <1>7. \E m \in Nat : \E of : Asked(m, of)
    <2>1. n + 1 \in Nat /\ n + 1 >= n /\ n + 2 \in Nat /\ n + 2 >= n
      OBVIOUS
    <2> DEFINE t == mpeg1_skip_table[i \div 16]
    <2>2. t \in {0, 4, 9}
      BY <1>4, Zenon
    <2>3. n + t \in Nat /\ n + t >= n
      <3> HIDE DEF t
      <3> QED BY <2>2
    <2>4. /\ Rank(n + 1, "stuffing") < Rank(n, need.of)
          /\ Rank(n + 2, "buffer") < Rank(n, need.of)
          /\ Rank(n + t, StampKind(f, q, n)) < Rank(n, need.of)
      <3>1. /\ Rank(n + 1, "stuffing") = 26 - (n + 1) /\ Rank(n + 2, "buffer") = 1
            /\ Rank(n + t, StampKind(f, q, n)) = 0
        BY <1>6, RankIs
      <3>2. Rank(n, need.of) \in {29, 26 - n}
        BY RankIs
      <3> QED BY <3>1, <3>2
    <2>5. ASSUME i = 255, n <= 23, NeedMore(n + 1, "stuffing")
          PROVE  \E m \in Nat : \E of : Asked(m, of)
      <3>1. Parsed(f, q, n + 1, "stuffing")
        BY <1>2, <2>5, Zenon
      <3>2. Asked(n + 1, "stuffing")
        BY <2>1, <2>4, <2>5, <3>1, Zenon
      <3> QED BY <2>1, <3>2, Zenon
    <2>6. ASSUME ~(i = 255 /\ n <= 23), i \div 64 = 1, NeedMore(n + 2, "buffer")
          PROVE  \E m \in Nat : \E of : Asked(m, of)
      <3>1. Parsed(f, q, n + 2, "buffer")
        BY <1>2, <2>6, Zenon
      <3>2. Asked(n + 2, "buffer")
        BY <2>1, <2>4, <2>6, <3>1, Zenon
      <3> QED BY <2>1, <3>2, Zenon
    <2>7. ASSUME ~(i = 255 /\ n <= 23), i \div 64 # 1, NeedMore(n + t, StampKind(f, q, n))
          PROVE  \E m \in Nat : \E of : Asked(m, of)
      <3>1. Parsed(f, q, n + t, StampKind(f, q, n))
        BY <1>2, <2>7, Zenon
      <3>2. Asked(n + t, StampKind(f, q, n))
        BY <2>3, <2>4, <2>7, <3>1, Zenon
      <3> QED BY <2>3, <3>2, Zenon
    <2> QED BY <1>5, <1>6, <2>5, <2>6, <2>7, Zenon
  <1> QED BY <1>7, Zenon DEF More, NeedMore

(* A header of a packet of video is asked for until all of it is there.    *)
LEMMA PesHeaderIs ==
  ASSUME Inv1, PesHeader
  PROVE  Satisfied /\ More /\ sent' = sent
  <1>1. Satisfied /\ need.of \in {"pes", "stuffing", "buffer", "pes2"}
    BY DEF PesHeader, Satisfies
  <1> DEFINE f == file  q == Seen  n == need.n
  <1>2. /\ q \in Offsets /\ f \in Files /\ Parsed(f, q, n, need.of)
        /\ There(q) >= n /\ n \in 1 .. 264
        /\ \A k \in Nat : k < n => Header(k) = Item(f, q, k) /\ Header(k) \in 0 .. 255
    BY <1>1, HeaderIs, Zenon
  <1>3. CASE need.of = "pes"
    <2>1. /\ n = 7
          /\ Item(f, q, 6) \div 64 = 2 => Parsed(f, q, 9, "pes2")
          /\ Item(f, q, 6) \div 64 # 2 => BeforeStamp(f, q, 7)
      BY <1>2, <1>3, PesParsed, Zenon
    <2>2. Bits(6, 64) = Item(f, q, 6) \div 64
      <3>1. 6 \in Nat /\ 6 < need.n
        BY <2>1
      <3> QED BY <1>1, <3>1, BitsIs, Zenon
    <2>3. \/ Item(f, q, 6) \div 64 = 2 /\ NeedMore(9, "pes2")
          \/ Item(f, q, 6) \div 64 # 2 /\ Stuffing(7)
      BY <1>3, <2>2 DEF PesHeader, Satisfies
    <2>4. /\ 7 \in 7 .. 24 /\ 9 \in Nat /\ 9 >= n /\ need.of \in {"pes", "stuffing"}
          /\ Rank(9, "pes2") < Rank(need.n, need.of)
      BY <1>3, <2>1, RankIs
    <2> QED BY <1>1, <2>1, <2>3, <2>4, AfterStuffingIs, MoreIs, Zenon
  <1>4. CASE need.of = "stuffing"
    <2>1. BeforeStamp(f, q, n)
      BY <1>2, <1>4, FieldParsed, Zenon
    <2>2. n \in 7 .. 24 /\ need.of \in {"pes", "stuffing"}
      BY <1>4, <2>1, Zenon DEF BeforeStamp
    <2>3. Stuffing(n)
      BY <1>4 DEF PesHeader, Satisfies
    <2> QED BY <1>1, <2>1, <2>2, <2>3, AfterStuffingIs, Zenon
  <1>5. CASE need.of = "buffer"
    <2>1. /\ Started(f, q) /\ VideoHeader(f, q) /\ ~IsMpeg2(f, q) /\ StampField(f, q) = n
      BY <1>2, <1>5, FieldParsed, Zenon
    <2> DEFINE i == Item(f, q, n - 1)
    <2>2. Parsed(f, q, n + mpeg1_skip_table[i \div 16], StampKind(f, q, n))
      BY <1>2, <2>1, StampParsed, Zenon
    <2>3. n - 1 \in Nat /\ n - 1 < need.n
      BY <1>2
    <2>4. /\ Bits(n - 1, 32) = i \div 32
          /\ Bits(n - 1, 16) = i \div 16 /\ mpeg1_skip_table[i \div 16] \in {0, 4, 9}
      BY <1>1, <2>3, BitsIs, Zenon
    <2>5. NeedMore(n + mpeg1_skip_table[i \div 16], IF i \div 32 = 1 THEN "stamped" ELSE "plain")
      BY <1>5, <2>4 DEF PesHeader, Satisfies
    <2>6. StampKind(f, q, n) = IF i \div 32 = 1 THEN "stamped" ELSE "plain"
      BY Zenon DEF StampKind
    <2> DEFINE m == n + mpeg1_skip_table[i \div 16]
    <2>7. m \in Nat /\ m >= n
      <3> DEFINE t == mpeg1_skip_table[i \div 16]
      <3>1. n \in 1 .. 264 /\ t \in {0, 4, 9}
        BY <1>2, <2>4, Zenon
      <3> HIDE DEF t, n
      <3>2. n + t \in Nat /\ n + t >= n
        BY <3>1
      <3> QED BY <3>2, Zenon DEF t
    <2>8. Rank(m, StampKind(f, q, n)) < Rank(need.n, need.of)
      <3> HIDE DEF m
      <3>1. Rank(m, StampKind(f, q, n)) = 0 /\ Rank(need.n, need.of) = 1
        BY <1>5, <2>6, RankIs
      <3> QED BY <3>1
    <2> HIDE DEF m
    <2> QED BY <1>1, <2>2, <2>5, <2>6, <2>7, <2>8, MoreIs, Zenon DEF m
  <1>6. CASE need.of = "pes2"
    <2>1. n = 9 /\ Parsed(f, q, 9 + Item(f, q, 8), Mpeg2Kind(f, q))
      BY <1>2, <1>6, FieldParsed, Zenon
    <2>2. Header(8) = Item(f, q, 8) /\ Header(7) = Item(f, q, 7) /\ Header(8) \in 0 .. 255
      BY <1>2, <2>1
    <2>3. Mpeg2Kind(f, q) = IF Header(7) >= 128 THEN "stamped" ELSE "plain"
      BY <2>2, Zenon DEF Mpeg2Kind
    <2>4. NeedMore(9 + Header(8), Mpeg2Kind(f, q))
      BY <1>6, <2>3 DEF PesHeader, Satisfies
    <2>5. 9 + Header(8) \in Nat /\ 9 + Header(8) >= n
      BY <2>1, <2>2
    <2>6. Rank(9 + Header(8), Mpeg2Kind(f, q)) < Rank(need.n, need.of)
      <3>1. Rank(9 + Header(8), Mpeg2Kind(f, q)) = 0 /\ Rank(need.n, need.of) = 1
        BY <1>6, <2>3, RankIs
      <3> QED BY <3>1
    <2> QED BY <1>1, <2>1, <2>2, <2>4, <2>5, <2>6, MoreIs, Zenon
  <1> QED BY <1>1, <1>3, <1>4, <1>5, <1>6, Zenon

TagOf(q) == <<[tag |-> q[1]]>>
Early == [k \in 1 .. need.n - 12 |-> [byte |-> Offset(11 + k)]]

(* A packet of video: its tag and contents are those of the reference.     *)
LEMMA PesPacketIs ==
  ASSUME Inv1, PesPacket
  PROVE  /\ Satisfied /\ Started(file, Seen) /\ VideoHeader(file, Seen)
         /\ Needs(file, Seen) = need.n /\ HeaderLength(file, Seen) = need.n
         /\ Contents(Done(need.n), PesSize(file, Seen) - need.n, "data",
                     sent \o (IF Stamped(file, Seen) THEN TagOf(Seen) ELSE <<>>))
  <1>1. /\ Satisfied /\ need.of \in {"stamped", "plain"}
        /\ Contents(Done(need.n), 6 + Long(4) - need.n, "data",
                    sent \o TAG(need.of = "stamped"))
    BY DEF PesPacket
  <1>2. /\ Seen \in Offsets /\ file \in Files /\ Parsed(file, Seen, need.n, need.of)
        /\ There(Seen) >= need.n /\ need.n \in 1 .. 264
        /\ \A k \in Nat : k < need.n => Offset(k) = Seen[k + 1]
    BY <1>1, HeaderIs, Zenon
  <1>3. /\ Started(file, Seen) /\ VideoHeader(file, Seen)
        /\ need.n = HeaderLength(file, Seen)
        /\ (need.of = "stamped" <=> StampBit(file, Seen))
    BY <1>1, <1>2, FieldParsed
  <1>4. Needs(file, Seen) = HeaderLength(file, Seen)
    BY <1>2, <1>3, NeedsIs, Zenon
  <1>5. need.n >= 6
    <2>1. HeaderLength(file, Seen) \in 7 .. 264
      BY <1>2, HeaderBounds, Zenon
    <2>2. need.n \in 7 .. 264
      BY <1>3, <2>1, Zenon
    <2> QED BY <2>2
  <1>6. 6 + Long(4) = PesSize(file, Seen)
    BY <1>1, <1>5, LongIs, Zenon
  <1>7. Offset(0) = Seen[1]
    <2>1. 0 \in Nat /\ 0 < need.n /\ 0 + 1 = 1
      BY <1>2
    <2> QED BY <1>2, <2>1, Zenon
  <1>8. Stamped(file, Seen) <=> file.tags /\ StampBit(file, Seen)
    BY Zenon DEF Stamped, StampBit
  <1>9. TAG(need.of = "stamped") = IF Stamped(file, Seen) THEN TagOf(Seen) ELSE <<>>
    <2>1. (need.of = "stamped" /\ file.tags) <=> Stamped(file, Seen)
      BY <1>3, <1>8, Zenon
    <2>2. TAG(need.of = "stamped") =
            IF need.of = "stamped" /\ file.tags THEN <<[tag |-> Offset(0)]>> ELSE <<>>
      BY Zenon DEF TAG
    <2>3. TagOf(Seen) = <<[tag |-> Offset(0)]>>
      BY <1>7, Zenon DEF TagOf
    <2>4. CASE Stamped(file, Seen)
      BY <2>1, <2>2, <2>3, <2>4, Zenon
    <2>5. CASE ~Stamped(file, Seen)
      BY <2>1, <2>2, <2>3, <2>5, Zenon
    <2> QED BY <2>4, <2>5, Zenon
  <1>10. Contents(Done(need.n), PesSize(file, Seen) - need.n, "data",
                  sent \o (IF Stamped(file, Seen) THEN TagOf(Seen) ELSE <<>>))
    <2>1. 6 + Long(4) - need.n = PesSize(file, Seen) - need.n
      <3>1. 4 \in Nat /\ 4 + 1 \in Nat /\ 4 < need.n /\ 4 + 1 < need.n
        BY <1>2, <1>5
      <3>2. Header(4) \in 0 .. 255 /\ Header(4 + 1) \in 0 .. 255 /\ need.n \in 1 .. 264
        BY <1>1, <3>1, HeaderIs, Zenon
      <3> DEFINE b == Header(4)  c == Header(4 + 1)
                 a == Long(4)  s == PesSize(file, Seen)  n == need.n  
      <3>3. a = b * 256 + c /\ b \in 0 .. 255 /\ c \in 0 .. 255
        BY <3>2, Zenon DEF Long
      <3>4. 6 + a = s /\ n \in 1 .. 264
        BY <1>6, <3>2, Zenon
      <3> HIDE DEF a, b, c, s, n
      <3>5. 6 + a - n = s - n
        BY <3>3, <3>4
      <3> QED BY <3>5, Zenon DEF a, s, n
    <2>2. sent \o TAG(need.of = "stamped") =
            sent \o (IF Stamped(file, Seen) THEN TagOf(Seen) ELSE <<>>)
      BY <1>9, Zenon
    <2> QED BY <1>1, <2>1, <2>2, Zenon
  <1>11. Needs(file, Seen) = need.n
    BY <1>3, <1>4, Zenon
  <1> QED BY <1>1, <1>3, <1>10, <1>11, Zenon

(* A PVA header: the packet is skipped or passed on, or more is asked for. *)
LEMMA PvaHeaderIs ==
  ASSUME Inv1, PvaHeader
  PROVE  /\ Satisfied /\ Started(file, Seen) /\ Pva
         /\ \/ More /\ sent' = sent
            \/ /\ Needs(file, Seen) = need.n /\ need.n = 8
               /\ PvaHeaderLength(file, Seen) = 8
               /\ Contents(Done(need.n), PvaSize(file, Seen) - need.n,
                           IF Item(file, Seen, 2) # 1 THEN "skip" ELSE "data", sent)
  <1>1. Satisfied /\ need.of = "pva" /\ Pva
    BY DEF PvaHeader
  <1> DEFINE f == file  q == Seen  n == need.n
  <1>2. /\ q \in Offsets /\ f \in Files /\ Parsed(f, q, n, need.of)
        /\ There(q) >= n /\ n \in 1 .. 264
        /\ \A k \in Nat : k < n => Header(k) = Item(f, q, k) /\ Header(k) \in 0 .. 255
    BY <1>1, HeaderIs, Zenon
  <1>3. /\ Started(f, q) /\ f.kind = "pva" /\ n = 8
        /\ Item(f, q, 2) = 1 /\ PvaStamped(f, q) => Parsed(f, q, 12 + PvaEarly(f, q), "pvaEnd")
        /\ ~(Item(f, q, 2) = 1 /\ PvaStamped(f, q)) => PvaHeaderLength(f, q) = 8
    BY <1>1, <1>2, PvaParsed
  <1>4. Needs(f, q) = PvaHeaderLength(f, q)
    BY <1>2, <1>3, NeedsIs, Zenon
  <1>5. Header(2) = Item(f, q, 2) /\ Header(5) = Item(f, q, 5) /\ Header(5) \in 0 .. 255
    BY <1>2, <1>3
  <1>6. Long(6) = PvaSize(f, q) - 8
    <2>1. Long(6) + 8 = PvaSize(f, q) /\ PvaSize(f, q) \in Nat
      BY <1>1, <1>3, LongIs
    <2> DEFINE a == Header(6)  b == Header(6 + 1)  l == Long(6)  s == PvaSize(f, q)
    <2>2. a \in 0 .. 255 /\ b \in 0 .. 255
      BY <1>2, <1>3
    <2>3. l = a * 256 + b
      BY Zenon DEF Long
    <2>4. l + 8 = s /\ s \in Nat
      BY <2>1, Zenon
    <2> HIDE DEF a, b, l, s
    <2>5. l = s - 8
      BY <2>2, <2>3, <2>4
    <2> QED BY <2>5, Zenon DEF l, s
  <1>7. PvaStamped(f, q) <=> Bits(5, 16) % 2 = 1
    BY <1>5, Zenon DEF PvaStamped, Bits
  <1>8. (IF file.tags THEN Header(5) % 4 ELSE 0) = PvaEarly(f, q)
    BY <1>5, Zenon DEF PvaEarly
  <1>9. \/ Item(f, q, 2) # 1 /\ Contents(Done(8), Long(6), "skip", sent)
        \/ /\ Item(f, q, 2) = 1 /\ PvaStamped(f, q)
           /\ NeedMore(12 + PvaEarly(f, q), "pvaEnd")
        \/ /\ Item(f, q, 2) = 1 /\ ~PvaStamped(f, q)
           /\ Contents(Done(8), Long(6), "data", sent)
    BY <1>5, <1>7, <1>8, Zenon DEF PvaHeader
  <1>10. CASE Item(f, q, 2) = 1 /\ PvaStamped(f, q)
    <2>1. PvaEarly(f, q) \in 0 .. 3
      <3> DEFINE i == Item(f, q, 5)
      <3>1. PvaEarly(f, q) = (IF f.tags THEN i % 4 ELSE 0) /\ i \in 0 .. 255
        BY <1>5, Zenon DEF PvaEarly
      <3> HIDE DEF i
      <3> QED BY <3>1
    <2> DEFINE m == 12 + PvaEarly(f, q)
    <2>2. m \in Nat /\ m >= n
      BY <1>3, <2>1
    <2>3. NeedMore(m, "pvaEnd") /\ Parsed(f, q, m, "pvaEnd")
      BY <1>3, <1>9, <1>10, Zenon
    <2> HIDE DEF m
    <2>4. Rank(m, "pvaEnd") < Rank(n, need.of)
      BY <1>1, RankIs
    <2> QED BY <1>1, <1>3, <2>2, <2>3, <2>4, MoreIs, Zenon
  <1>11. CASE Item(f, q, 2) # 1
    BY <1>1, <1>3, <1>4, <1>6, <1>9, <1>11, Zenon
  <1>12. CASE Item(f, q, 2) = 1 /\ ~PvaStamped(f, q)
    BY <1>1, <1>3, <1>4, <1>6, <1>9, <1>12, Zenon
  <1> QED BY <1>10, <1>11, <1>12, Zenon

(* The bytes of the picture before are passed on before the tag.           *)
LEMMA EarlyIs ==
  ASSUME NEW q \in Offsets, NEW n \in Nat, n >= 12, n <= There(q)
  PROVE  Sent(SubSeq(q, 13, n)) = [k \in 1 .. n - 12 |-> [byte |-> q[12 + k]]]
  <1>1. \A i \in 13 .. n : q[i] \in Nat
    BY DEF Offsets, There
  <1>2. 13 \in Int /\ n \in Int
    OBVIOUS
  <1> DEFINE r == SubSeq(q, 13, n)
  <1>3. /\ r \in Seq(Nat) /\ Len(r) = (IF 13 <= n THEN n - 13 + 1 ELSE 0)
        /\ \A i \in 1 .. n - 13 + 1 : r[i] = q[13 + i - 1]
    BY <1>1, <1>2, SubSeqProperties, SMTT(20)
  <1> HIDE DEF r
  <1>4. Len(r) = n - 12
    BY <1>3
  <1>5. \A i \in 1 .. n - 12 : i \in 1 .. n - 13 + 1 /\ 13 + i - 1 = 12 + i
    OBVIOUS
  <1>6. DOMAIN r = 1 .. n - 12
    BY <1>3, <1>4, LenProperties, Zenon
  <1>7. \A i \in 1 .. n - 12 : r[i] = q[12 + i]
    BY <1>3, <1>5, Zenon
  <1>8. Sent(r) = [k \in 1 .. n - 12 |-> [byte |-> q[12 + k]]]
    BY <1>6, <1>7, Zenon DEF Sent
  <1> QED BY <1>8, Zenon DEF r

LEMMA PvaPacketIs ==
  ASSUME Inv1, PvaPacket
  PROVE  /\ Satisfied /\ Started(file, Seen) /\ Pva
         /\ Needs(file, Seen) = need.n /\ PvaHeaderLength(file, Seen) = need.n
         /\ need.n >= 12 /\ Item(file, Seen, 2) = 1
         /\ Contents(Done(need.n), PvaSize(file, Seen) - need.n, "data",
                     sent \o Sent(SubSeq(Seen, 13, need.n))
                          \o (IF file.tags THEN TagOf(Seen) ELSE <<>>))
  <1>1. /\ Satisfied /\ need.of = "pvaEnd" /\ Pva
        /\ Contents(Done(need.n), Long(6) + 8 - need.n, "data",
                    sent \o Early \o TAG(TRUE))
    BY DEF PvaPacket, Early
  <1> DEFINE f == file  q == Seen  n == need.n
  <1>2. /\ q \in Offsets /\ f \in Files /\ Parsed(f, q, n, need.of)
        /\ There(q) \in Nat /\ There(q) >= n /\ n \in 1 .. 264
        /\ \A k \in Nat : k < n => Offset(k) = q[k + 1]
    BY <1>1, HeaderIs, Zenon
  <1>3. /\ Started(f, q) /\ f.kind = "pva" /\ n = PvaHeaderLength(f, q)
        /\ Item(f, q, 2) = 1 /\ PvaStamped(f, q)
    BY <1>1, <1>2, PvaParsed
  <1>4. Needs(f, q) = n
    BY <1>2, <1>3, NeedsIs, Zenon
  <1>5. n >= 12
    <2>1. n = 12 + PvaEarly(f, q)
      BY <1>3, Zenon DEF PvaHeaderLength
    <2>2. PvaEarly(f, q) \in 0 .. 3
      <3> DEFINE i == Item(f, q, 5)
      <3>1. PvaEarly(f, q) = (IF f.tags THEN i % 4 ELSE 0)
        BY Zenon DEF PvaEarly
      <3>2. i \in 0 .. 255
        BY <1>2, ItemType
      <3> HIDE DEF i
      <3> QED BY <3>1, <3>2
    <2> DEFINE e == PvaEarly(f, q)
    <2>3. n = 12 + e /\ e \in 0 .. 3
      BY <2>1, <2>2, Zenon
    <2> HIDE DEF e, n
    <2> QED BY <2>3
  <1>6. Long(6) + 8 = PvaSize(f, q)
    <2>1. need.n >= 6 /\ need.n >= 8
      BY <1>2, <1>5
    <2> QED BY <1>1, <2>1, LongIs, Zenon
  <1>7. Early = Sent(SubSeq(q, 13, n))
    <2>1. n \in Nat /\ n <= There(q)
      BY <1>2
    <2>2. Sent(SubSeq(q, 13, n)) = [k \in 1 .. n - 12 |-> [byte |-> q[12 + k]]]
      BY <1>2, <1>5, <2>1, EarlyIs, Zenon
    <2>3. \A k \in 1 .. n - 12 : 11 + k \in Nat /\ 11 + k < n /\ (11 + k) + 1 = 12 + k
      BY <1>2
    <2>4. \A k \in 1 .. n - 12 : Offset(11 + k) = q[12 + k]
      BY <1>2, <2>3, Zenon
    <2> QED BY <2>2, <2>4, Zenon DEF Early
  <1>8. TAG(TRUE) = IF file.tags THEN TagOf(Seen) ELSE <<>>
    <2>1. 0 \in Nat /\ 0 < n /\ 0 + 1 = 1
      BY <1>2
    <2>2. Offset(0) = q[1]
      BY <1>2, <2>1, Zenon
    <2> QED BY <2>2, Zenon DEF TAG, TagOf
  <1>9. Contents(Done(need.n), PvaSize(file, Seen) - need.n, "data",
                 sent \o Sent(SubSeq(Seen, 13, need.n))
                      \o (IF file.tags THEN TagOf(Seen) ELSE <<>>))
    <2>1. Long(6) + 8 - need.n = PvaSize(file, Seen) - need.n
      <3>1. 6 \in Nat /\ 6 + 1 \in Nat /\ 6 < need.n /\ 6 + 1 < need.n
        BY <1>2, <1>5
      <3>2. Header(6) \in 0 .. 255 /\ Header(6 + 1) \in 0 .. 255 /\ need.n \in 1 .. 264
        BY <1>1, <3>1, HeaderIs, Zenon
      <3> DEFINE b == Header(6)  c == Header(6 + 1)
                 a == Long(6)  s == PvaSize(file, Seen)  
      <3>3. a = b * 256 + c /\ b \in 0 .. 255 /\ c \in 0 .. 255
        BY <3>2, Zenon DEF Long
      <3>4. a + 8 = s /\ n \in 1 .. 264
        BY <1>6, <3>2, Zenon
      <3> HIDE DEF a, b, c, s, n
      <3>5. a + 8 - n = s - n
        BY <3>3, <3>4
      <3> QED BY <3>5, Zenon DEF a, s, n
    <2>2. sent \o Early \o TAG(TRUE) =
            sent \o Sent(SubSeq(Seen, 13, need.n))
                 \o (IF file.tags THEN TagOf(Seen) ELSE <<>>)
      BY <1>7, <1>8, Zenon
    <2> QED BY <1>1, <2>1, <2>2, Zenon
  <1> QED BY <1>1, <1>3, <1>4, <1>5, <1>9, Zenon

-----------------------------------------------------------------------------
(* Inv1 holds of the initial states, and every step preserves it.          *)
LEMMA InitInv1 ==
  Init => Inv1
  <1> SUFFICES ASSUME Init PROVE Inv1
    OBVIOUS
  <1>1. /\ file \in Files /\ size \in Sizes /\ pc = "read" /\ start = 0 /\ packet = 0
        /\ buf = 0 /\ end = 0 /\ state = "skip" /\ stateBytes = 0 /\ headBuf = <<>>
        /\ inHead = FALSE /\ need = NeedPrefix
    BY DEF Init
  <1>2. file.bytes \in Seq(0 .. 255)
    BY <1>1, DemuxAssumption, Zenon
  <1>3. Length \in Nat
    BY <1>2, LenProperties, Zenon DEF Length
  <1>4. headBuf \in Seq(0 .. Length - 1) /\ Len(headBuf) <= HeadSize
    <2>1. HeadSize \in {264, 15, 12}
      BY DEF HeadSize
    <2>2. Len(<<>>) <= HeadSize
      BY <2>1
    <2> QED BY <1>1, <2>2, EmptySeq, Zenon
  <1>5. need.n \in Nat
    BY <1>1 DEF NeedPrefix, PrefixLength
  <1>6. TypeInv
    <2>1. 0 \in 0 .. Length /\ 0 \in 0 .. 0 /\ 0 \in Int
      BY <1>3
    <2>2. inHead \in BOOLEAN /\ state \in {"header", "data", "skip"}
      BY <1>1, Zenon
    <2> QED BY <1>1, <1>4, <1>5, <2>1, <2>2, Zenon DEF TypeInv
  <1>7. PlaceInv
    BY <1>1 DEF PlaceInv
  <1>8. HeaderInv
    BY <1>1 DEF HeaderInv
  <1> QED BY <1>6, <1>7, <1>8, Zenon DEF Inv1

LEMMA ReadInv1 ==
  ASSUME Inv1, Read
  PROVE  Inv1'
  <1>1. /\ pc = "read" /\ ~Ts /\ file' = file /\ size' = size /\ packet' = packet
        /\ start' = end /\ end' = Least(end + size, Length)
        /\ state' = state /\ stateBytes' = stateBytes /\ headBuf' = headBuf
        /\ inHead' = inHead /\ need' = need
        /\ IF Es THEN buf' = end' /\ pc' = "returned" ELSE buf' = end /\ pc' = "switch"
    BY DEF Read, Es, statics
  <1>2. /\ Ts' = Ts /\ Es' = Es /\ Length' = Length /\ HeadSize' = HeadSize
    BY <1>1, SameFile, Zenon
  <1>3. end \in Nat /\ end <= Length /\ Length \in Nat /\ size \in Nat
    BY LengthType, DemuxAssumption DEF Inv1, TypeInv
  <1>4. end' \in 0 .. Length /\ end <= end' /\ buf' \in 0 .. end' /\ start' \in 0 .. Length
    BY <1>1, <1>3 DEF Least
  <1>5. TypeInv'
    BY <1>1, <1>2, <1>4, Zenon DEF Inv1, TypeInv
  <1>6. PlaceInv'
    BY <1>1, <1>2 DEF Inv1, PlaceInv
  <1>7. HeaderInv'
    <2>1. Between /\ pc' # "need" /\ Kept' = Kept
      BY <1>1 DEF Between, Kept
    <2> QED BY <1>1, <2>1, Zenon DEF Inv1, HeaderInv
  <1> QED BY <1>5, <1>6, <1>7, Zenon DEF Inv1

LEMMA ReturnedInv1 ==
  ASSUME Inv1, Returned
  PROVE  Inv1'
  <1>1. /\ pc = "returned" /\ ~Ts /\ file' = file /\ size' = size /\ packet' = packet
        /\ start' = start /\ end' = end /\ buf' = buf
        /\ state' = state /\ stateBytes' = stateBytes /\ headBuf' = headBuf
        /\ inHead' = inHead /\ need' = need
        /\ pc' = IF end = start + size THEN "read" ELSE "done"
    BY DEF Returned, statics
  <1>2. /\ Ts' = Ts /\ Es' = Es /\ Length' = Length /\ HeadSize' = HeadSize
    BY <1>1, SameFile, Zenon
  <1>3. TypeInv'
    BY <1>1, <1>2, Zenon DEF Inv1, TypeInv
  <1>4. PlaceInv'
    BY <1>1, <1>2 DEF Inv1, PlaceInv
  <1>5. HeaderInv'
    <2>1. Between /\ pc' # "need" /\ Kept' = Kept
      BY <1>1 DEF Between, Kept
    <2> QED BY <1>1, <2>1, Zenon DEF Inv1, HeaderInv
  <1> QED BY <1>3, <1>4, <1>5, Zenon DEF Inv1

LEMMA FillInv1 ==
  ASSUME Inv1, Fill
  PROVE  Inv1'
  <1>1. /\ pc = "read" /\ Ts /\ file' = file /\ size' = size /\ packet' = packet
        /\ start' = packet /\ end' = end /\ buf' = buf
        /\ state' = state /\ stateBytes' = stateBytes /\ headBuf' = headBuf
        /\ inHead' = inHead /\ need' = need /\ pc' = "packet"
    BY DEF Fill, statics
  <1>2. /\ Ts' = Ts /\ Es' = Es /\ Length' = Length /\ HeadSize' = HeadSize
    BY <1>1, SameFile, Zenon
  <1>3. ~Es
    BY <1>1, KindIs, Zenon DEF Inv1
  <1>4. TypeInv'
    BY <1>1, <1>2, Zenon DEF Inv1, TypeInv
  <1>5. PlaceInv'
    BY <1>1, <1>2, <1>3 DEF Inv1, PlaceInv
  <1>6. HeaderInv'
    <2>1. Between /\ pc' # "need" /\ Kept' = Kept
      BY <1>1 DEF Between, Kept
    <2> QED BY <1>1, <2>1, Zenon DEF Inv1, HeaderInv
  <1> QED BY <1>4, <1>5, <1>6, Zenon DEF Inv1

LEMMA LastPacketInv1 ==
  ASSUME Inv1, LastPacket
  PROVE  Inv1'
  <1>1. /\ pc = "packet" /\ file' = file /\ size' = size /\ packet' = packet
        /\ start' = start /\ end' = end /\ buf' = buf
        /\ state' = state /\ stateBytes' = stateBytes /\ headBuf' = headBuf
        /\ inHead' = inHead /\ need' = need
        /\ pc' = IF FillEnd = start + size THEN "read" ELSE "done"
    BY DEF LastPacket, statics
  <1>2. /\ Ts' = Ts /\ Es' = Es /\ Length' = Length /\ HeadSize' = HeadSize
    BY <1>1, SameFile, Zenon
  <1>3. Ts /\ ~Es
    BY <1>1 DEF Inv1, PlaceInv
  <1>4. TypeInv'
    BY <1>1, <1>2, Zenon DEF Inv1, TypeInv
  <1>5. PlaceInv'
    BY <1>1, <1>2, <1>3 DEF Inv1, PlaceInv
  <1>6. HeaderInv'
    <2>1. Between /\ pc' # "need" /\ Kept' = Kept
      BY <1>1 DEF Between, Kept
    <2> QED BY <1>1, <2>1, Zenon DEF Inv1, HeaderInv
  <1> QED BY <1>4, <1>5, <1>6, Zenon DEF Inv1

(* The bytes of a transport packet are those the reference takes.          *)
LEMMA PacketBytes ==
  Inv1 /\ packet + PacketSize <= Length =>
    /\ At(packet) = Field(file, packet, 0) /\ Payload(packet) = Body(file, packet)
    /\ Wanted(packet) <=> At(packet) = 71 /\ Mine(file, packet)
    /\ PayloadStart(packet) <=> (Field(file, packet, 1) \div 64) % 2 # 0
    /\ Body(file, packet) \in Nat /\ Body(file, packet) >= packet
  <1> SUFFICES ASSUME Inv1, packet + PacketSize <= Length
               PROVE  /\ At(packet) = Field(file, packet, 0)
                      /\ Payload(packet) = Body(file, packet)
                      /\ Wanted(packet) <=> At(packet) = 71 /\ Mine(file, packet)
                      /\ PayloadStart(packet) <=> (Field(file, packet, 1) \div 64) % 2 # 0
                      /\ Body(file, packet) \in Nat /\ Body(file, packet) >= packet
    OBVIOUS
  <1> DEFINE f == file  p == packet
  <1>1. f \in Files /\ p \in Nat /\ Length \in Nat /\ PacketSize \in Nat /\ PacketSize >= 5
    BY LengthType, KindIs DEF Inv1, TypeInv
  <1>2. \A k \in 0 .. 4 : At(p + k) = Field(f, p, k)
    <2>1. ASSUME NEW k \in 0 .. 4
          PROVE  At(p + k) = Field(f, p, k)
      <3>1. p + k < Length
        BY <1>1
      <3> QED BY <3>1, Zenon DEF At, Field, Byte, Length
    <2> QED BY <2>1, Zenon
  <1>3. /\ At(p + 1) = Field(f, p, 1) /\ At(p + 2) = Field(f, p, 2)
        /\ At(p + 3) = Field(f, p, 3) /\ At(p + 4) = Field(f, p, 4)
    BY <1>2
  <1>4. At(p) = Field(f, p, 0)
    <2>1. p + 0 = p /\ 0 \in 0 .. 4
      BY <1>1
    <2> QED BY <1>2, <2>1, Zenon
  <1>5. \A k \in Nat : Field(f, p, k) \in 0 .. 255
    BY <1>1, BodyType, Zenon
  <1> DEFINE a == Field(f, p, 1)  b == Field(f, p, 2)  c == Field(f, p, 3)
             d == Field(f, p, 4)
  <1>6. /\ a \in 0 .. 255 /\ b \in 0 .. 255 /\ c \in 0 .. 255 /\ d \in 0 .. 255
    BY <1>5
  <1>7. Payload(p) = IF (c \div 32) % 2 = 1 THEN p + 5 + d ELSE p + 4
    BY <1>3, Zenon DEF Payload
  <1>8. Body(f, p) = p + (IF (c \div 32) % 2 = 1 THEN 5 + d ELSE 4)
    BY Zenon DEF Body
  <1>9. Pid(p) = (a * 256 + b) % 8192 /\ (HasPayload(p) <=> (c \div 16) % 2 = 1)
        /\ (PayloadStart(p) <=> (a \div 64) % 2 = 1)
    BY <1>3 DEF Pid, HasPayload, PayloadStart
  <1>10. Mine(f, p) <=> /\ (a * 256 + b) % 8192 = f.track /\ (c \div 16) % 2 = 1
                        /\ Body(f, p) <= p + PacketSize
    BY DEF Mine
  <1> HIDE DEF a, b, c, d
  <1>11. Payload(p) = Body(f, p) /\ Body(f, p) \in Nat /\ Body(f, p) >= p
    BY <1>1, <1>6, <1>7, <1>8
  <1>12. (a \div 64) % 2 = 1 <=> (a \div 64) % 2 # 0
    BY <1>6
  <1>13. Wanted(p) <=> At(p) = 71 /\ Mine(f, p)
    BY <1>9, <1>10, <1>11 DEF Wanted
  <1>14. PayloadStart(p) <=> (a \div 64) % 2 # 0
    BY <1>9, <1>12
  <1> QED BY <1>4, <1>11, <1>13, <1>14, Zenon DEF a

LEMMA PacketIs ==
  ASSUME Inv1, Packet
  PROVE  /\ pc = "packet" /\ Ts /\ file' = file /\ size' = size /\ start' = start
         /\ state' = state /\ stateBytes' = stateBytes /\ headBuf' = headBuf
         /\ sent' = sent /\ inHead' = FALSE /\ need' = NeedPrefix
         /\ packet + PacketSize <= Length
         /\ packet' = packet + (IF At(packet) = 71 THEN PacketSize ELSE 1)
         /\ IF Wanted(packet)
              THEN /\ buf' = Payload(packet) /\ end' = packet'
                   /\ pc' = IF PayloadStart(packet) THEN "need" ELSE "switch"
              ELSE pc' = pc /\ buf' = buf /\ end' = end
  <1>1. pc = "packet" /\ packet + PacketSize <= FillEnd
    BY DEF Packet
  <1>2. Ts
    BY <1>1 DEF Inv1, PlaceInv
  <1>3. packet + PacketSize <= Length
    <2>1. /\ packet \in Nat /\ PacketSize \in Nat /\ start \in Nat /\ size \in Nat
          /\ Length \in Nat
      BY LengthType, KindIs, DemuxAssumption DEF Inv1, TypeInv
    <2> QED BY <1>1, <2>1 DEF FillEnd, Least
  <1> QED BY <1>1, <1>2, <1>3 DEF Packet, statics

LEMMA PacketInv1 ==
  ASSUME Inv1, Packet
  PROVE  Inv1'
  <1>1. /\ pc = "packet" /\ Ts /\ file' = file /\ size' = size /\ start' = start
        /\ state' = state /\ stateBytes' = stateBytes /\ headBuf' = headBuf
        /\ inHead' = FALSE /\ need' = NeedPrefix
        /\ packet + PacketSize <= Length
        /\ packet' = packet + (IF At(packet) = 71 THEN PacketSize ELSE 1)
        /\ IF Wanted(packet)
             THEN /\ buf' = Payload(packet) /\ end' = packet'
                  /\ pc' = IF PayloadStart(packet) THEN "need" ELSE "switch"
             ELSE pc' = pc /\ buf' = buf /\ end' = end
    BY PacketIs, Zenon
  <1>2. /\ Ts' = Ts /\ Es' = Es /\ Length' = Length /\ HeadSize' = HeadSize
    BY <1>1, SameFile, Zenon
  <1>3. /\ PrefixLength = PrefixBytes(file) /\ PrefixLength \in {2, 4} /\ ~Es
        /\ need'.n = PrefixLength /\ need'.of = "prefix" /\ PacketSize \in Nat
        /\ PacketSize >= 5
    BY <1>1, KindIs, Zenon DEF Inv1
  <1>4. Length \in Nat /\ packet \in Nat
    BY LengthType DEF Inv1, TypeInv
  <1>5. packet' \in 0 .. Length
    BY <1>1, <1>3, <1>4
  <1>6. Payload(packet) \in Nat /\ (Wanted(packet) => packet' = packet + PacketSize)
        /\ (Wanted(packet) => Payload(packet) <= packet + PacketSize)
    <2>1. Payload(packet) = Body(file, packet) /\ Body(file, packet) \in Nat
      BY <1>1, PacketBytes, Zenon
    <2> QED BY <1>1, <2>1 DEF Wanted
  <1>7. end' \in 0 .. Length /\ buf' \in 0 .. end'
    <2>1. CASE Wanted(packet)
      BY <1>1, <1>5, <1>6, <2>1
    <2>2. CASE ~Wanted(packet)
      BY <1>1, <2>2, Zenon DEF Inv1, TypeInv
    <2> QED BY <2>1, <2>2, Zenon
  <1>8. TypeInv'
    <2>1. need'.n \in Nat /\ inHead' \in BOOLEAN
      <3>1. need'.n \in {2, 4}
        BY <1>3, Zenon
      <3>2. need'.n \in Nat
        BY <3>1
      <3> QED BY <1>1, <3>2, Zenon
    <2> QED BY <1>1, <1>2, <1>5, <1>7, <2>1, Zenon DEF Inv1, TypeInv
  <1>9. PlaceInv'
    <2>1. pc' \in {"packet", "need", "switch"}
      BY <1>1
    <2>2. pc' \in {"need", "switch"} => end' = packet'
      BY <1>1
    <2> QED BY <1>1, <1>2, <1>3, <2>1, <2>2 DEF PlaceInv
  <1>10. HeaderInv'
    <2>1. Between /\ Kept' = Kept
      BY <1>1 DEF Between, Kept
    <2>2. Parsed(file', Seen', need'.n, need'.of)
      BY <1>1, <1>3, PrefixParsed, Zenon
    <2> QED BY <1>1, <2>1, <2>2, Zenon DEF Inv1, HeaderInv
  <1> QED BY <1>8, <1>9, <1>10, Zenon DEF Inv1

-----------------------------------------------------------------------------
(* The switch, case by case.                                               *)
LEMMA SwitchIs ==
  ASSUME Inv1, PieceInv, Switch
  PROVE  /\ pc = "switch" /\ ~Es /\ file' = file /\ size' = size /\ start' = start
         /\ packet' = packet /\ end' = end /\ headBuf' = headBuf /\ need' = NeedPrefix
         /\ inHead' = (state = "header" /\ stateBytes > 0)
         /\ \/ /\ state = "header" /\ ~(Ts /\ stateBytes = 0) /\ buf' = buf /\ sent' = sent
               /\ pc' = "need" /\ state' = state /\ stateBytes' = stateBytes
            \/ /\ state = "header" /\ Ts /\ stateBytes = 0 /\ buf' = buf /\ sent' = sent
               /\ pc' = "packet" /\ state' = "skip" /\ stateBytes' = stateBytes
            \/ /\ state # "header" /\ (Ts \/ stateBytes > end - buf) /\ buf' = end
               /\ pc' = Back /\ state' = state /\ stateBytes' = stateBytes - (end - buf)
               /\ sent' = IF state = "data" THEN sent \o Run(buf, end - buf) ELSE sent
            \/ /\ state # "header" /\ ~Ts /\ stateBytes \in 0 .. end - buf
               /\ buf' = buf + stateBytes
               /\ pc' = "need" /\ state' = state /\ stateBytes' = stateBytes
               /\ sent' = IF state = "data" THEN sent \o Run(buf, stateBytes) ELSE sent
  <1>1. /\ pc = "switch" /\ file' = file /\ size' = size /\ start' = start
        /\ packet' = packet /\ end' = end /\ headBuf' = headBuf /\ need' = NeedPrefix
        /\ inHead' = (state = "header" /\ stateBytes > 0)
    BY DEF Switch
  <1>2. ~Es
    BY <1>1 DEF Inv1, PlaceInv
  <1> DEFINE all == state # "header" /\ (Ts \/ stateBytes > end - buf)
             to == IF state = "header" THEN buf ELSE IF all THEN end
                   ELSE buf + stateBytes
  <1>3. /\ sent' = (IF state = "data" THEN sent \o SEND(buf, to) ELSE sent)
        /\ buf' = to
        /\ IF all
             THEN stateBytes' = stateBytes - (end - buf) /\ pc' = Back /\ state' = state
             ELSE IF Ts /\ ~inHead'
               THEN state' = "skip" /\ pc' = Back /\ stateBytes' = stateBytes
               ELSE pc' = "need" /\ state' = state /\ stateBytes' = stateBytes
    BY Zenon DEF Switch
  <1>4. /\ stateBytes \in Int /\ buf \in Nat /\ end \in Nat /\ buf <= end
        /\ state \in {"header", "data", "skip"}
    BY LengthType DEF Inv1, TypeInv
  <1>5. CASE state = "header"
    <2>1. ~all /\ to = buf /\ state # "data"
      BY <1>5
    <2>2. stateBytes \in Nat
      BY <1>5, KeptIs, Zenon DEF Inv1
    <2>3. stateBytes > 0 <=> ~(stateBytes = 0)
      BY <2>2
    <2>4. inHead' <=> ~(stateBytes = 0)
      BY <1>1, <1>5, <2>3, Zenon
    <2>5. Ts => Back = "packet"
      BY Zenon DEF Back
    <2>6. sent' = sent /\ buf' = buf
      BY <1>3, <2>1, Zenon
    <2>7. CASE Ts /\ stateBytes = 0
      BY <1>1, <1>2, <1>3, <1>5, <2>1, <2>4, <2>5, <2>6, <2>7, Zenon
    <2>8. CASE ~(Ts /\ stateBytes = 0)
      BY <1>1, <1>2, <1>3, <1>5, <2>1, <2>4, <2>6, <2>8, Zenon
    <2> QED BY <2>7, <2>8, Zenon
  <1>6. CASE all
    <2>1. to = end
      BY <1>6, Zenon
    <2>2. SEND(buf, end) = Run(buf, end - buf)
      BY Zenon DEF SEND
    <2> QED BY <1>1, <1>2, <1>3, <1>6, <2>1, <2>2, Zenon
  <1>7. CASE state # "header" /\ ~all
    <2>1. to = buf + stateBytes
      BY <1>7, Zenon
    <2>2. ~Ts /\ ~(stateBytes > end - buf)
      BY <1>7, Zenon
    <2>3. stateBytes >= 0
      BY <1>1, <1>7, <2>2 DEF PieceInv, Between
    <2>4. stateBytes \in 0 .. end - buf
      BY <1>4, <2>2, <2>3
    <2>5. SEND(buf, buf + stateBytes) = Run(buf, stateBytes)
      <3>1. (buf + stateBytes) - buf = stateBytes
        BY <1>4
      <3> QED BY <3>1, Zenon DEF SEND
    <2> QED BY <1>1, <1>2, <1>3, <1>7, <2>1, <2>2, <2>4, <2>5, Zenon
  <1> QED BY <1>5, <1>6, <1>7, Zenon

LEMMA SwitchInv1 ==
  ASSUME Inv1, PieceInv, Switch
  PROVE  Inv1'
  <1>1. /\ pc = "switch" /\ ~Es /\ file' = file /\ size' = size /\ start' = start
        /\ packet' = packet /\ end' = end /\ headBuf' = headBuf /\ need' = NeedPrefix
        /\ inHead' = (state = "header" /\ stateBytes > 0)
    BY SwitchIs, Zenon
  <1>2. /\ Ts' = Ts /\ Es' = Es /\ Length' = Length /\ HeadSize' = HeadSize
    BY <1>1, SameFile, Zenon
  <1>3. /\ PrefixLength = PrefixBytes(file) /\ PrefixLength \in {2, 4}
        /\ need'.n = PrefixLength /\ need'.of = "prefix"
    BY <1>1, KindIs, Zenon DEF Inv1
  <1>4. /\ stateBytes \in Int /\ buf \in Nat /\ end \in Nat /\ buf <= end
        /\ state \in {"header", "data", "skip"}
    BY LengthType DEF Inv1, TypeInv
  <1>5. /\ buf' \in 0 .. end /\ stateBytes' \in Int
    BY <1>4, SwitchIs
  <1>6. /\ state' \in {"header", "data", "skip"} /\ pc' \in {"need", Back, "packet"}
        /\ (~Ts => pc' \in {"need", Back})
        /\ state' = "header" => state = "header" /\ stateBytes' = stateBytes /\ pc' = "need"
    BY <1>4, SwitchIs, Zenon
  <1>7. need'.n \in Nat
    <2>1. need'.n \in {2, 4}
      BY <1>3, Zenon
    <2> QED BY <2>1
  <1>8. TypeInv'
    <2>1. inHead' \in BOOLEAN
      BY <1>1, Zenon
    <2> QED BY <1>1, <1>2, <1>5, <1>6, <1>7, <2>1, Zenon DEF Inv1, TypeInv
  <1>9. PlaceInv'
    <2>1. (Ts => end = packet) /\ (~Ts => end = Least(start + size, Length))
      BY <1>1, Zenon DEF Inv1, PlaceInv
    <2>2. (Ts => Back = "packet") /\ (~Ts => Back = "returned")
      BY Zenon DEF Back
    <2> QED BY <1>1, <1>2, <1>6, <2>1, <2>2 DEF PlaceInv
  <1>10. HeaderInv'
    <2>1. Parsed(file', Seen', need'.n, need'.of)
      BY <1>1, <1>3, PrefixParsed, Zenon
    <2>2. state' = "header" => ~Between'
      BY <1>6 DEF Between
    <2>3. state' = "header" => stateBytes' \in 0 .. Len(headBuf')
      BY <1>1, <1>6, Zenon DEF Inv1, HeaderInv
    <2>4. ASSUME pc' = "need", inHead'
          PROVE  /\ state' = "header" /\ stateBytes' > 0 /\ Waits(file', Seen')
      <3>1. state = "header" /\ stateBytes > 0
        BY <1>1, <2>4, Zenon
      <3>2. state' = state /\ stateBytes' = stateBytes
        BY <2>4, <3>1, SwitchIs
      <3>3. Waits(file, Kept)
        BY <1>1, <3>1 DEF Inv1, HeaderInv, Between
      <3>4. Seen' = Kept
        BY <1>1, <2>4, <3>2, Zenon DEF Seen, Kept
      <3> QED BY <1>1, <3>1, <3>2, <3>3, <3>4, Zenon
    <2> QED BY <2>1, <2>2, <2>3, <2>4, Zenon DEF HeaderInv
  <1> QED BY <1>8, <1>9, <1>10, Zenon DEF Inv1

(* Bytes are added to those of a header in head_buf.                       *)
LEMMA NeedBytesIs ==
  ASSUME Inv1, NeedBytes
  PROVE  /\ pc = "need" /\ inHead /\ state = "header" /\ file' = file /\ size' = size
         /\ start' = start /\ packet' = packet /\ end' = end /\ state' = state
         /\ inHead' = inHead /\ need' = need /\ sent' = sent
         /\ Seen = Kept /\ Seen \in Offsets /\ There(Seen) = stateBytes
         /\ Kept' = headBuf' /\ Seen' = headBuf' /\ headBuf' \in Offsets
         /\ headBuf' \in Seq(0 .. Length - 1)
         /\ stateBytes' = Len(headBuf') /\ Parsed(file, headBuf', need.n, need.of)
         /\ \E n \in 0 .. end - buf :
              /\ headBuf' = Seen \o Copy(n, buf) /\ stateBytes' = stateBytes + n
              /\ \/ /\ pc' = "need" /\ buf' = buf + n /\ stateBytes' = need.n
                 \/ /\ pc' = Back /\ buf' = buf /\ n = end - buf
                    /\ stateBytes' < need.n /\ Waits(file, headBuf')
  <1> DEFINE S == 0 .. Length - 1  w == need.n
             n == Least(w - stateBytes, end - buf)
  <1>1. /\ pc = "need" /\ inHead /\ w > Bytes /\ file' = file /\ size' = size
        /\ start' = start /\ packet' = packet /\ end' = end /\ state' = state
        /\ inHead' = inHead /\ need' = need /\ sent' = sent
    BY DEF NeedBytes
  <1>2. Bytes = stateBytes /\ Seen = Kept
    BY <1>1, Zenon DEF Bytes, Seen, Kept
  <1>3. /\ headBuf' = Kept \o Copy(n, buf) /\ stateBytes' = stateBytes + n
        /\ IF w - stateBytes <= end - buf
             THEN buf' = buf + n /\ pc' = pc
             ELSE pc' = Back /\ buf' = buf
    BY <1>2, Zenon DEF NeedBytes, Kept
  <1>4. state = "header" /\ Parsed(file, Seen, w, need.of) /\ file \in Files
    BY <1>1, Zenon DEF Inv1, HeaderInv, TypeInv
  <1>5. /\ Kept \in Offsets /\ There(Kept) = stateBytes /\ stateBytes \in Nat
    BY <1>4, KeptIs, Zenon DEF Inv1
  <1>6. buf \in Nat /\ end \in Nat /\ buf <= end /\ end <= Length /\ Length \in Nat
        /\ w \in Nat /\ w > stateBytes
    BY <1>1, <1>2, LengthType DEF Inv1, TypeInv
  <1> HIDE DEF w
  <1>7. /\ n \in Int /\ n \in 0 .. end - buf /\ n <= end - buf
        /\ n <= w - stateBytes
        /\ w - stateBytes <= end - buf => n = w - stateBytes
        /\ ~(w - stateBytes <= end - buf) => n = end - buf /\ n < w - stateBytes
    BY <1>5, <1>6 DEF Least
  <1> HIDE DEF n
  <1>8. /\ Copy(n, buf) \in Seq(Nat) /\ Len(Copy(n, buf)) = n
        /\ \A k \in 1 .. n : Copy(n, buf)[k] = buf + k - 1
    <2>1. Len(Copy(n, buf)) = (IF n > 0 THEN n ELSE 0) /\ Copy(n, buf) \in Seq(Nat)
          /\ \A k \in 1 .. n : Copy(n, buf)[k] = buf + k - 1
      BY <1>6, <1>7, CopyType, Zenon
    <2>2. (IF n > 0 THEN n ELSE 0) = n
      BY <1>7
    <2> QED BY <2>1, <2>2, Zenon
  <1>9. /\ headBuf' \in Offsets /\ Begins(Kept, headBuf')
    BY <1>3, <1>5, <1>8, BeginsConcat, Zenon DEF Offsets
  <1>10. Len(headBuf') = stateBytes + n
    <2>1. Len(headBuf') = Len(Kept) + Len(Copy(n, buf))
      BY <1>3, <1>5, <1>8, ConcatProperties, Zenon DEF Offsets
    <2> QED BY <1>5, <1>8, <2>1, Zenon DEF There
  <1>11. headBuf' \in Seq(S)
    <2>1. Kept \in Seq(S)
      <3>1. headBuf \in Seq(S) /\ stateBytes \in 0 .. Len(headBuf)
        BY <1>4, Zenon DEF Inv1, TypeInv, HeaderInv
      <3> HIDE DEF S
      <3> QED BY <3>1, TakeType, Zenon DEF Kept
    <2>2. \A k \in 1 .. n : Copy(n, buf)[k] \in S
      <3>1. \A k \in 1 .. n : buf + k - 1 \in S
        BY <1>6, <1>7
      <3> QED BY <1>8, <3>1, Zenon
    <2>3. Copy(n, buf) \in Seq(S)
      <3>1. n \in Nat
        BY <1>7
      <3>2. Copy(n, buf) = [k \in 1 .. n |-> buf + k - 1]
        BY Zenon DEF Copy
      <3>3. \A k \in 1 .. n : buf + k - 1 \in S
        BY <1>6, <1>7
      <3> HIDE DEF S
      <3>4. [k \in 1 .. n |-> buf + k - 1] \in Seq(S)
        BY <3>1, <3>3
      <3> QED BY <3>2, <3>4, Zenon
    <2> HIDE DEF S
    <2> QED BY <1>3, <2>1, <2>3, ConcatProperties, Zenon
  <1>12. Kept' = headBuf' /\ Seen' = headBuf'
    <2> DEFINE hb == headBuf'
    <2>1. hb \in Seq(Nat) /\ Len(hb) = stateBytes'
      BY <1>3, <1>9, <1>10, Zenon DEF Offsets
    <2> HIDE DEF hb
    <2>2. SubSeq(hb, 1, Len(hb)) = hb
      BY <2>1, SubSeqFull, Zenon
    <2>3. SubSeq(hb, 1, stateBytes') = hb
      BY <2>1, <2>2, Zenon
    <2> QED BY <1>1, <2>3, Zenon DEF Kept, Seen, hb
  <1>13. Parsed(file, headBuf', w, need.of)
    BY <1>2, <1>4, <1>5, <1>9, ParsedExtends, Zenon
  <1>14. stateBytes' < w => Waits(file, headBuf')
    <2>1. There(headBuf') = stateBytes'
      BY <1>3, <1>10, Zenon DEF There
    <2> QED BY <1>4, <1>9, <1>13, <2>1, ParsedWaits, Zenon
  <1>15. \/ /\ pc' = "need" /\ buf' = buf + n /\ stateBytes' = w
         \/ /\ pc' = Back /\ buf' = buf /\ n = end - buf
            /\ stateBytes' < w /\ Waits(file, headBuf')
    <2>1. CASE w - stateBytes <= end - buf
      <3>1. stateBytes' = w
        BY <1>3, <1>5, <1>6, <1>7, <2>1
      <3> QED BY <1>1, <1>3, <2>1, <3>1, Zenon
    <2>2. CASE ~(w - stateBytes <= end - buf)
      <3>1. stateBytes' < w
        BY <1>3, <1>5, <1>6, <1>7, <2>2
      <3> QED BY <1>3, <1>7, <1>14, <2>2, <3>1, Zenon
    <2> QED BY <2>1, <2>2, Zenon
  <1>16. \E m \in 0 .. end - buf :
           /\ headBuf' = Seen \o Copy(m, buf) /\ stateBytes' = stateBytes + m
           /\ \/ /\ pc' = "need" /\ buf' = buf + m /\ stateBytes' = w
              \/ /\ pc' = Back /\ buf' = buf /\ m = end - buf
                 /\ stateBytes' < w /\ Waits(file, headBuf')
    BY <1>2, <1>3, <1>7, <1>15, Zenon
  <1>17. stateBytes' = Len(headBuf')
    BY <1>3, <1>10, Zenon
  <1> QED BY <1>1, <1>2, <1>4, <1>5, <1>9, <1>11, <1>12, <1>13, <1>16, <1>17, Zenon DEF w

LEMMA NeedBytesInv1 ==
  ASSUME Inv1, NeedBytes
  PROVE  Inv1'
  <1>1. /\ pc = "need" /\ inHead /\ state = "header" /\ file' = file /\ size' = size
        /\ start' = start /\ packet' = packet /\ end' = end /\ state' = state
        /\ inHead' = inHead /\ need' = need /\ sent' = sent
        /\ There(Seen) = stateBytes /\ Seen \in Offsets
        /\ Kept' = headBuf' /\ Seen' = headBuf'
        /\ headBuf' \in Seq(0 .. Length - 1)
        /\ stateBytes' = Len(headBuf') /\ Parsed(file, headBuf', need.n, need.of)
    BY NeedBytesIs, Zenon
  <1>2. PICK n \in 0 .. end - buf :
              /\ headBuf' = Seen \o Copy(n, buf) /\ stateBytes' = stateBytes + n
              /\ \/ /\ pc' = "need" /\ buf' = buf + n /\ stateBytes' = need.n
                 \/ /\ pc' = Back /\ buf' = buf /\ n = end - buf
                    /\ stateBytes' < need.n /\ Waits(file, headBuf')
    BY NeedBytesIs, Zenon
  <1>3. /\ Ts' = Ts /\ Es' = Es /\ Length' = Length /\ HeadSize' = HeadSize
    BY <1>1, SameFile, Zenon
  <1>4. buf \in Nat /\ end \in Nat /\ buf <= end
    BY LengthType DEF Inv1, TypeInv
  <1>5. need.n \in 1 .. 264 /\ need.n <= HeadSize /\ HeadSize \in {264, 15, 12}
    <2>1. HeadSize \in {264, 15, 12}
      BY Zenon DEF HeadSize
    <2> QED BY <1>1, <2>1, NeedBounds, Zenon DEF Inv1
  <1>6. stateBytes \in Nat /\ stateBytes > 0
    <2>1. stateBytes \in Nat
      BY <1>1, ThereType, Zenon
    <2> QED BY <1>1, <2>1, Zenon DEF Inv1, HeaderInv
  <1> DEFINE w == need.n  h == HeadSize  len == Len(headBuf')
  <1>7. /\ stateBytes' \in Nat /\ stateBytes' > 0 /\ stateBytes' <= h
        /\ stateBytes' = len /\ buf' \in 0 .. end
        /\ stateBytes' \in 0 .. len
    <2>1. stateBytes' = stateBytes + n /\ stateBytes' = len
          /\ (stateBytes' = w \/ stateBytes' < w) /\ (buf' = buf + n \/ buf' = buf)
      BY <1>1, <1>2, Zenon
    <2>2. w \in Nat /\ h \in Nat /\ w <= h
      BY <1>5
    <2> HIDE DEF w, h, len
    <2> QED BY <1>4, <1>6, <2>1, <2>2
  <1>8. TypeInv'
    <2>1. stateBytes' \in Int
      BY <1>7
    <2>2. len <= h
      BY <1>7, Zenon
    <2> QED BY <1>1, <1>3, <1>7, <2>1, <2>2, Zenon DEF Inv1, TypeInv
  <1>9. PlaceInv'
    <2>1. pc' \in {"need", Back} /\ ~Es
      BY <1>1, <1>2 DEF Inv1, PlaceInv
    <2>2. (Ts => end = packet) /\ (~Ts => end = Least(start + size, Length))
      BY <1>1, Zenon DEF Inv1, PlaceInv
    <2>3. (Ts => Back = "packet") /\ (~Ts => Back = "returned")
      BY Zenon DEF Back
    <2> QED BY <1>1, <1>3, <2>1, <2>2, <2>3 DEF PlaceInv
  <1>10. HeaderInv'
    <2>1. Parsed(file', Seen', need'.n, need'.of)
      BY <1>1, Zenon
    <2>2. pc' = "need" => stateBytes' = w
      <3>1. Back # "need"
        BY DEF Back
      <3> QED BY <1>2, <3>1, Zenon
    <2>3. Between' => Waits(file', Kept')
      <3>1. Between' => pc' # "need"
        BY DEF Between
      <3> QED BY <1>1, <1>2, <3>1, Zenon
    <2>4. pc' = "need" => stateBytes' <= need'.n
      <3>1. w <= w
        BY <1>5
      <3> QED BY <1>1, <2>2, <3>1, Zenon
    <2> QED BY <1>1, <1>7, <2>1, <2>3, <2>4, Zenon DEF HeaderInv
  <1> QED BY <1>8, <1>9, <1>10, Zenon DEF Inv1

(* The beginning of a header is put into head_buf.                         *)
LEMMA SaveHeaderIs ==
  ASSUME Inv1, SaveHeader
  PROVE  /\ pc = "need" /\ ~inHead /\ file' = file /\ size' = size /\ start' = start
         /\ packet' = packet /\ buf' = buf /\ end' = end /\ inHead' = inHead
         /\ need' = need /\ sent' = sent /\ state' = "header" /\ pc' = Back
         /\ stateBytes' = end - buf /\ headBuf' = Copy(end - buf, buf)
         /\ Seen = headBuf' /\ Kept' = headBuf' /\ Seen \in Offsets
         /\ There(Seen) = end - buf /\ end - buf \in Nat /\ end - buf < need.n
         /\ Waits(file, Seen) /\ Parsed(file, Seen, need.n, need.of)
  <1>1. /\ pc = "need" /\ ~inHead /\ file' = file /\ size' = size /\ start' = start
        /\ packet' = packet /\ buf' = buf /\ end' = end /\ inHead' = inHead
        /\ need' = need /\ sent' = sent /\ state' = "header" /\ pc' = Back
        /\ stateBytes' = Bytes /\ headBuf' = Copy(Bytes, buf) /\ need.n > Bytes
    BY DEF SaveHeader
  <1>2. Bytes = end - buf /\ Seen = Copy(end - buf, buf)
    BY <1>1, Zenon DEF Bytes, Seen
  <1>3. buf \in Nat /\ end \in Nat /\ buf <= end /\ need.n \in Nat
    BY LengthType DEF Inv1, TypeInv
  <1>4. Seen \in Offsets /\ There(Seen) = Bytes /\ file \in Files
        /\ Parsed(file, Seen, need.n, need.of)
    BY <1>1, SeenIs, Zenon DEF Inv1, TypeInv, HeaderInv
  <1> DEFINE w == need.n  b == end - buf
  <1>5. b \in Nat /\ b < w
    <2>1. w > b /\ w \in Nat
      BY <1>1, <1>2, <1>3, Zenon
    <2>2. b \in Nat
      BY <1>3
    <2> HIDE DEF b, w
    <2> QED BY <2>1, <2>2
  <1>6. Waits(file, Seen)
    BY <1>2, <1>4, <1>5, ParsedWaits, Zenon
  <1>7. Kept' = headBuf'
    <2> DEFINE hb == headBuf'
    <2>1. hb \in Seq(Nat) /\ Len(hb) = stateBytes'
      BY <1>1, <1>2, <1>4, Zenon DEF Offsets, There
    <2> HIDE DEF hb
    <2>2. SubSeq(hb, 1, Len(hb)) = hb
      BY <2>1, SubSeqFull, Zenon
    <2> QED BY <2>1, <2>2, Zenon DEF Kept, hb
  <1> QED BY <1>1, <1>2, <1>4, <1>5, <1>6, <1>7, Zenon

LEMMA SaveHeaderInv1 ==
  ASSUME Inv1, SaveHeader
  PROVE  Inv1'
  <1>1. /\ pc = "need" /\ ~inHead /\ file' = file /\ size' = size /\ start' = start
        /\ packet' = packet /\ buf' = buf /\ end' = end /\ inHead' = inHead
        /\ need' = need /\ state' = "header" /\ pc' = Back
        /\ stateBytes' = end - buf /\ headBuf' = Copy(end - buf, buf)
        /\ Seen = headBuf' /\ Kept' = headBuf'
        /\ There(Seen) = end - buf /\ end - buf \in Nat /\ end - buf < need.n
        /\ Waits(file, Seen)
    BY SaveHeaderIs, Zenon
  <1>2. /\ Ts' = Ts /\ Es' = Es /\ Length' = Length /\ HeadSize' = HeadSize
    BY <1>1, SameFile, Zenon
  <1>3. buf \in Nat /\ end \in Nat /\ buf <= end /\ end <= Length /\ Length \in Nat
    BY LengthType DEF Inv1, TypeInv
  <1>4. need.n \in 1 .. 264 /\ need.n <= HeadSize /\ HeadSize \in {264, 15, 12}
    <2>1. HeadSize \in {264, 15, 12}
      BY Zenon DEF HeadSize
    <2> QED BY <1>1, <2>1, NeedBounds, Zenon DEF Inv1
  <1>5. Len(headBuf') = end - buf
    BY <1>1, Zenon DEF There
  <1>6. headBuf' \in Seq(0 .. Length - 1)
    <2> DEFINE S == 0 .. Length - 1  b == end - buf
    <2>1. b \in Nat /\ \A k \in 1 .. b : buf + k - 1 \in S
      BY <1>3
    <2>2. headBuf' = [k \in 1 .. b |-> buf + k - 1]
      BY <1>1, Zenon DEF Copy
    <2> HIDE DEF S, b
    <2>3. [k \in 1 .. b |-> buf + k - 1] \in Seq(S)
      BY <2>1
    <2> QED BY <2>2, <2>3, Zenon DEF S
  <1>7. TypeInv'
    <2> DEFINE w == need.n  h == HeadSize  b == end - buf
    <2>1. b \in Nat /\ b < w /\ w \in Nat /\ h \in Nat /\ w <= h
      BY <1>1, <1>4
    <2>2. b <= h /\ b \in Int
      <3> HIDE DEF w, h, b
      <3> QED BY <2>1
    <2>3. Len(headBuf') <= HeadSize'
      BY <1>2, <1>5, <2>2, Zenon
    <2>4. state' \in {"header", "data", "skip"}
      BY <1>1, Zenon
    <2>5. stateBytes' \in Int
      BY <1>1, <2>2, Zenon
    <2> QED BY <1>1, <1>2, <1>6, <2>3, <2>4, <2>5, Zenon DEF Inv1, TypeInv
  <1>8. PlaceInv'
    <2>1. ~Es
      BY <1>1 DEF Inv1, PlaceInv
    <2>2. (Ts => end = packet) /\ (~Ts => end = Least(start + size, Length))
      BY <1>1, Zenon DEF Inv1, PlaceInv
    <2>3. (Ts => Back = "packet") /\ (~Ts => Back = "returned")
      BY Zenon DEF Back
    <2> QED BY <1>1, <1>2, <2>1, <2>2, <2>3 DEF PlaceInv
  <1>9. HeaderInv'
    <2>1. pc' # "need"
      BY <1>1 DEF Back
    <2>2. stateBytes' \in 0 .. Len(headBuf')
      <3> DEFINE b == end - buf
      <3>1. b \in Nat /\ stateBytes' = b /\ Len(headBuf') = b
        BY <1>1, <1>5, Zenon
      <3> HIDE DEF b
      <3>2. b \in 0 .. b
        BY <3>1
      <3> QED BY <3>1, <3>2, Zenon
    <2>3. Waits(file', Kept')
      BY <1>1, Zenon
    <2> QED BY <2>1, <2>2, <2>3, Zenon DEF HeaderInv
  <1> QED BY <1>7, <1>8, <1>9, Zenon DEF Inv1

(* What is in head_buf is not the beginning of a header: its first byte    *)
(* goes.                                                                   *)
Drop ==
  /\ inHead /\ ~Ts /\ headBuf' = From(Seen, 1) /\ stateBytes' = stateBytes - 1
  /\ UNCHANGED <<file, size, pc, start, packet, buf, end, state, inHead, need, sent>>
NoStart ==
  IF Ts THEN NextHeader(buf) /\ sent' = sent
  ELSE IF ~inHead THEN NextHeader(buf + 1) /\ sent' = sent
  ELSE Drop

(* headBuf[2], headBuf[3], headBuf[4]: the last bytes of head_buf are      *)
(* kept.                                                                   *)
LEMMA ThreeOf ==
  ASSUME NEW a, NEW b, NEW c, NEW q \in Seq(Nat), Len(q) = 3,
         q[1] = a, q[2] = b, q[3] = c
  PROVE  q = <<a, b, c>>
  OBVIOUS

LEMMA OneOf ==
  ASSUME NEW a, NEW q \in Seq(Nat), Len(q) = 1, q[1] = a
  PROVE  q = <<a>>
  OBVIOUS

LEMMA HeadBufRest ==
  ASSUME Inv1, Satisfied, need.of = "prefix", ~Started(file, Seen), inHead
  PROVE  /\ stateBytes = PrefixBytes(file)
         /\ ~Pva => From(Seen, 1) = <<headBuf[2], headBuf[3], headBuf[4]>>
         /\ Pva => From(Seen, 1) = <<headBuf[2]>>
         /\ Seen = Kept /\ Seen \in Offsets /\ There(Seen) = stateBytes
  <1>1. stateBytes = PrefixBytes(file) /\ pc = "need"
    BY NoHeader, Zenon DEF Satisfied
  <1>2. state = "header" /\ Seen = Kept
    BY <1>1, Zenon DEF Inv1, HeaderInv, Seen, Kept
  <1>3. /\ Seen \in Offsets /\ There(Seen) = stateBytes
        /\ \A k \in 1 .. stateBytes : Seen[k] = headBuf[k]
    BY <1>2, KeptIs, Zenon DEF Inv1
  <1> DEFINE q == Seen
  <1>4. q \in Seq(Nat) /\ Len(q) = stateBytes
    BY <1>3, Zenon DEF Offsets, There
  <1> HIDE DEF q
  <1>5. ASSUME ~Pva PROVE From(q, 1) = <<headBuf[2], headBuf[3], headBuf[4]>>
    <2>1. stateBytes = 4
      BY <1>1, <1>5 DEF PrefixBytes, Pva
    <2>2. 1 \in 0 .. Len(q)
      BY <1>4, <2>1
    <2>3. /\ From(q, 1) \in Seq(Nat) /\ Len(From(q, 1)) = Len(q) - 1
          /\ \A k \in 1 .. Len(q) - 1 : From(q, 1)[k] = q[1 + k]
      BY <1>4, <2>2, FromType, Zenon
    <2>4. Len(q) - 1 = 3 /\ 1 \in 1 .. 3 /\ 2 \in 1 .. 3 /\ 3 \in 1 .. 3
          /\ 1 + 1 = 2 /\ 1 + 2 = 3 /\ 1 + 3 = 4
      BY <1>4, <2>1
    <2>5. q[2] = headBuf[2] /\ q[3] = headBuf[3] /\ q[4] = headBuf[4]
      BY <1>3, <2>1 DEF q
    <2>6. /\ Len(From(q, 1)) = 3 /\ From(q, 1)[1] = headBuf[2]
          /\ From(q, 1)[2] = headBuf[3] /\ From(q, 1)[3] = headBuf[4]
      BY <2>3, <2>4, <2>5, Zenon
    <2> DEFINE r == From(q, 1)
    <2>7. /\ r \in Seq(Nat) /\ Len(r) = 3 /\ r[1] = headBuf[2]
          /\ r[2] = headBuf[3] /\ r[3] = headBuf[4]
      BY <2>3, <2>6, Zenon
    <2> HIDE DEF r
    <2>8. r = <<headBuf[2], headBuf[3], headBuf[4]>>
      BY <2>7, ThreeOf
    <2> QED BY <2>8, Zenon DEF r
  <1>6. ASSUME Pva PROVE From(q, 1) = <<headBuf[2]>>
    <2>1. stateBytes = 2
      BY <1>1, <1>6 DEF PrefixBytes, Pva
    <2>2. 1 \in 0 .. Len(q)
      BY <1>4, <2>1
    <2>3. /\ From(q, 1) \in Seq(Nat) /\ Len(From(q, 1)) = Len(q) - 1
          /\ \A k \in 1 .. Len(q) - 1 : From(q, 1)[k] = q[1 + k]
      BY <1>4, <2>2, FromType, Zenon
    <2>4. Len(q) - 1 = 1 /\ 1 \in 1 .. 1 /\ 1 + 1 = 2
      BY <1>4, <2>1
    <2>5. q[2] = headBuf[2]
      BY <1>3, <2>1 DEF q
    <2>6. Len(From(q, 1)) = 1 /\ From(q, 1)[1] = headBuf[2]
      BY <2>3, <2>4, <2>5, Zenon
    <2> QED BY <2>3, <2>6, OneOf, Zenon
  <1> QED BY <1>1, <1>2, <1>3, <1>5, <1>6, Zenon DEF q

LEMMA NoPrefixIs ==
  ASSUME Inv1, NoPrefix
  PROVE  Satisfied /\ need.of = "prefix" /\ ~Started(file, Seen) /\ NoStart
  <1>1. Satisfied /\ need.of = "prefix" /\ ~Pva /\ ~Prefix
    BY DEF NoPrefix, Satisfies
  <1>2. ~Started(file, Seen)
    BY <1>1, PrefixIs, Zenon
  <1>3. CASE Ts
    BY <1>1, <1>2, <1>3, Zenon DEF NoPrefix, NoStart
  <1>4. CASE ~Ts /\ ~inHead
    BY <1>1, <1>2, <1>4, Zenon DEF NoPrefix, NoStart
  <1>5. CASE ~Ts /\ inHead
    <2>1. /\ headBuf' = <<headBuf[2], headBuf[3], headBuf[4]>> /\ stateBytes' = 3
          /\ UNCHANGED <<file, size, pc, start, packet, buf, end, state, inHead,
                         need, sent>>
      BY <1>5, Zenon DEF NoPrefix
    <2>2. stateBytes = PrefixBytes(file)
          /\ From(Seen, 1) = <<headBuf[2], headBuf[3], headBuf[4]>>
      BY <1>1, <1>2, <1>5, HeadBufRest, Zenon
    <2>3. stateBytes' = stateBytes - 1
      BY <1>1, <2>1, <2>2 DEF PrefixBytes, Pva
    <2> QED BY <1>1, <1>2, <1>5, <2>1, <2>2, <2>3, Zenon DEF NoStart, Drop
  <1> QED BY <1>3, <1>4, <1>5, Zenon

LEMMA PvaPrefixIs ==
  ASSUME Inv1, PvaPrefix
  PROVE  /\ Satisfied /\ need.of = "prefix"
         /\ \/ ~Started(file, Seen) /\ NoStart
            \/ More /\ sent' = sent
  <1>1. Satisfied /\ need.of = "prefix" /\ Pva
    BY DEF PvaPrefix
  <1>2. ~Ts /\ file.kind = "pva"
    BY <1>1 DEF Pva, Ts
  <1>3. /\ need.n = PrefixBytes(file)
        /\ Started(file, Seen) <=> Header(0) = 65 /\ Header(1) = 86
    BY <1>1, PrefixIs, Zenon
  <1>4. Seen \in Offsets /\ file \in Files
    BY <1>1, HeaderIs, Zenon
  <1>5. CASE Started(file, Seen)
    <2>1. NeedMore(8, "pva")
      BY <1>3, <1>5, Zenon DEF PvaPrefix
    <2>2. Parsed(file, Seen, 8, "pva")
      BY <1>2, <1>4, <1>5, StartParsed, Zenon
    <2>3. 8 \in Nat /\ 8 >= need.n /\ Rank(8, "pva") < Rank(need.n, need.of)
      BY <1>1, <1>2, <1>3, RankIs DEF PrefixBytes
    <2> QED BY <1>1, <2>1, <2>2, <2>3, MoreIs, Zenon
  <1>6. CASE ~Started(file, Seen) /\ ~inHead
    BY <1>1, <1>2, <1>3, <1>6, Zenon DEF PvaPrefix, NoStart
  <1>7. CASE ~Started(file, Seen) /\ inHead
    <2>1. /\ headBuf' = <<headBuf[2]>> /\ stateBytes' = 1
          /\ UNCHANGED <<file, size, pc, start, packet, buf, end, state, inHead,
                         need, sent>>
      BY <1>3, <1>7, Zenon DEF PvaPrefix
    <2>2. stateBytes = PrefixBytes(file) /\ From(Seen, 1) = <<headBuf[2]>>
      BY <1>1, <1>7, HeadBufRest, Zenon
    <2>3. stateBytes' = stateBytes - 1
      BY <1>2, <2>1, <2>2 DEF PrefixBytes
    <2> QED BY <1>1, <1>2, <1>7, <2>1, <2>2, <2>3, Zenon DEF NoStart, Drop
  <1> QED BY <1>5, <1>6, <1>7, Zenon

LEMMA DropIs ==
  ASSUME Inv1, Satisfied, need.of = "prefix", ~Started(file, Seen), Drop
  PROVE  /\ pc = "need" /\ state = "header" /\ stateBytes = PrefixBytes(file)
         /\ Seen = Kept /\ There(Seen) = stateBytes /\ Seen \in Offsets
         /\ headBuf' = From(Seen, 1) /\ Kept' = headBuf' /\ Seen' = headBuf'
         /\ headBuf' \in Seq(0 .. Length - 1) /\ Len(headBuf') = stateBytes'
         /\ stateBytes' = stateBytes - 1 /\ stateBytes' \in {1, 3}
  <1>1. /\ stateBytes = PrefixBytes(file) /\ Seen = Kept /\ Seen \in Offsets
        /\ There(Seen) = stateBytes /\ inHead
    BY HeadBufRest, Zenon DEF Drop
  <1>2. pc = "need" /\ inHead' /\ headBuf' = From(Seen, 1) /\ stateBytes' = stateBytes - 1
    BY <1>1, Zenon DEF Satisfied, Drop
  <1>3. state = "header"
    BY <1>1, <1>2, Zenon DEF Inv1, HeaderInv
  <1>4. stateBytes \in {2, 4} /\ stateBytes' \in {1, 3}
    BY <1>1, <1>2 DEF PrefixBytes
  <1> DEFINE S == 0 .. Length - 1  hb == headBuf'
  <1>5. Seen \in Seq(S)
    <2>1. headBuf \in Seq(S) /\ stateBytes \in 0 .. Len(headBuf)
      BY <1>3, Zenon DEF Inv1, TypeInv, HeaderInv
    <2> HIDE DEF S
    <2> QED BY <1>1, <2>1, TakeType, Zenon DEF Kept
  <1>6. 1 \in 0 .. Len(Seen)
    <2>1. Len(Seen) = stateBytes
      BY <1>1, Zenon DEF There
    <2> QED BY <1>4, <2>1
  <1> HIDE DEF S
  <1>7. From(Seen, 1) \in Seq(S) /\ Len(From(Seen, 1)) = Len(Seen) - 1
    BY <1>5, <1>6, FromType, Zenon
  <1>8. hb \in Seq(S) /\ Len(hb) = stateBytes'
    BY <1>1, <1>2, <1>7, Zenon DEF There
  <1> HIDE DEF hb
  <1>9. SubSeq(hb, 1, Len(hb)) = hb
    BY <1>8, SubSeqFull, Zenon
  <1>10. Kept' = headBuf' /\ Seen' = headBuf'
    BY <1>2, <1>8, <1>9, Zenon DEF Kept, Seen, hb
  <1> QED BY <1>1, <1>2, <1>3, <1>4, <1>8, <1>10, Zenon DEF S, hb

LEMMA NoStartInv1 ==
  ASSUME Inv1, Satisfied, need.of = "prefix", ~Started(file, Seen), NoStart
  PROVE  Inv1'
  <1>1. pc = "need" /\ (~inHead => buf + 1 \in 0 .. end) /\ buf \in 0 .. end
    BY NoHeader, Zenon DEF Satisfied, Inv1, TypeInv
  <1>2. CASE Ts
    BY <1>1, <1>2, NextHeaderKeeps, Zenon DEF NoStart
  <1>3. CASE ~Ts /\ ~inHead
    BY <1>1, <1>3, NextHeaderKeeps, Zenon DEF NoStart
  <1>4. CASE ~Ts /\ inHead
    <2>1. Drop
      BY <1>4, Zenon DEF NoStart
    <2>2. /\ file' = file /\ size' = size /\ pc' = pc /\ start' = start /\ packet' = packet
          /\ buf' = buf /\ end' = end /\ state' = state /\ inHead' = inHead /\ need' = need
      BY <2>1 DEF Drop
    <2>3. /\ state = "header" /\ stateBytes = PrefixBytes(file) /\ Seen' = headBuf'
          /\ headBuf' \in Seq(0 .. Length - 1) /\ Len(headBuf') = stateBytes'
          /\ stateBytes' = stateBytes - 1 /\ stateBytes' \in {1, 3}
      BY <2>1, DropIs, Zenon
    <2>4. /\ Ts' = Ts /\ Es' = Es /\ Length' = Length /\ HeadSize' = HeadSize
      BY <2>2, SameFile, Zenon
    <2>5. PlaceInv'
      BY <2>2, <2>3, <2>4, <1>1 DEF Inv1, PlaceInv
    <2>6. TypeInv'
      <3>1. HeadSize \in {264, 15, 12}
        BY DEF HeadSize
      <3>2. stateBytes' \in Int
        BY <2>3
      <3>3. Len(headBuf') <= HeadSize
        BY <2>3, <3>1
      <3> QED BY <2>2, <2>3, <2>4, <3>2, <3>3, Zenon DEF Inv1, TypeInv
    <2>7. need.n = PrefixBytes(file) /\ need.of = "prefix"
      BY PrefixIs, Zenon
    <2>8. HeaderInv'
      <3>1. Parsed(file', Seen', need'.n, need'.of)
        BY <2>2, <2>7, PrefixParsed, Zenon
      <3>2. stateBytes' > 0 /\ stateBytes' \in 0 .. Len(headBuf')
        BY <2>3
      <3>3. stateBytes' <= need'.n
        <4>1. need'.n = stateBytes /\ stateBytes \in Int
          BY <2>2, <2>3, <2>7, Zenon DEF Inv1, TypeInv
        <4> QED BY <2>3, <4>1
      <3>4. ~Between'
        BY <1>1, <2>2 DEF Between
      <3> QED BY <2>2, <2>3, <3>1, <3>2, <3>3, <3>4, Zenon DEF HeaderInv
    <2> QED BY <2>5, <2>6, <2>8, Zenon DEF Inv1
  <1> QED BY <1>2, <1>3, <1>4, Zenon

-----------------------------------------------------------------------------
(* The actions on a header, by what they do with it.                       *)
HeaderAction ==
  NoPrefix \/ StreamId \/ PackHeader \/ OtherPacket \/ PesHeader \/ PesPacket
  \/ PvaPrefix \/ PvaHeader \/ PvaPacket
Last == Needs(file, Seen) = need.n

LEMMA HeaderActionIs ==
  ASSUME Inv1, HeaderAction
  PROVE  /\ Satisfied
         /\ \/ More /\ sent' = sent
            \/ need.of = "prefix" /\ ~Started(file, Seen) /\ NoStart
            \/ Ts /\ Started(file, Seen) /\ Stop("exit")
            \/ ~Ts /\ Started(file, Seen) /\ Id = 185 /\ Stop("done")
            \/ Last /\ PassOver
            \/ Last /\ \E n \in Int : \E what \in {"data", "skip"} : \E before :
                 Contents(Done(need.n), n, what, before)
  <1>1. ASSUME Satisfied, NEW size_ \in Nat, NEW what \in {"data", "skip"}, NEW before,
               Contents(Done(need.n), size_ - need.n, what, before)
        PROVE  \E n \in Int : \E w \in {"data", "skip"} : \E b :
                 Contents(Done(need.n), n, w, b)
    <2>1. need.n \in 1 .. 264
      BY <1>1, HeaderIs, Zenon
    <2>2. size_ - need.n \in Int
      <3> DEFINE m == need.n
      <3>1. m \in 1 .. 264
        BY <2>1
      <3> HIDE DEF m
      <3>2. size_ - m \in Int
        BY <3>1
      <3> QED BY <3>2 DEF m
    <2> QED BY <1>1, <2>2, Zenon
  <1>2. ASSUME Satisfied
        PROVE  PesSize(file, Seen) \in Nat /\ PvaSize(file, Seen) \in Nat
    BY <1>2, HeaderIs, SizeType, Zenon
  <1>3. CASE NoPrefix
    BY <1>3, NoPrefixIs, Zenon
  <1>4. CASE StreamId
    <2>1. /\ Satisfied /\ Started(file, Seen)
          /\ \/ More /\ sent' = sent
             \/ Ts /\ Stop("exit")
             \/ ~Ts /\ Id = 185 /\ Stop("done")
             \/ Needs(file, Seen) = 4 /\ need.n = 4 /\ PassOver
      BY <1>4, StreamIdIs, Zenon
    <2> QED BY <2>1, Zenon DEF Last
  <1>5. CASE PackHeader
    BY <1>5, PackHeaderIs, Zenon DEF Last
  <1>6. CASE OtherPacket
    <2>1. Satisfied /\ Last /\ "skip" \in {"data", "skip"}
          /\ Contents(Done(need.n), PesSize(file, Seen) - need.n, "skip", sent)
      BY <1>6, OtherPacketIs, Zenon DEF Last
    <2> QED BY <1>1, <1>2, <2>1, Zenon
  <1>7. CASE PesHeader
    BY <1>7, PesHeaderIs, Zenon
  <1>8. CASE PesPacket
    <2> DEFINE b == sent \o (IF Stamped(file, Seen) THEN TagOf(Seen) ELSE <<>>)
    <2>1. Satisfied /\ Last /\ "data" \in {"data", "skip"}
          /\ Contents(Done(need.n), PesSize(file, Seen) - need.n, "data", b)
      BY <1>8, PesPacketIs, Zenon DEF Last
    <2> HIDE DEF b
    <2> QED BY <1>1, <1>2, <2>1, Zenon
  <1>9. CASE PvaPrefix
    BY <1>9, PvaPrefixIs, Zenon
  <1>10. CASE PvaHeader
    <2> DEFINE w == IF Item(file, Seen, 2) # 1 THEN "skip" ELSE "data"
    <2>1. /\ Satisfied
          /\ \/ More /\ sent' = sent
             \/ Last /\ Contents(Done(need.n), PvaSize(file, Seen) - need.n, w, sent)
      BY <1>10, PvaHeaderIs, Zenon DEF Last
    <2>2. w \in {"data", "skip"}
      BY Zenon
    <2> HIDE DEF w
    <2> QED BY <1>1, <1>2, <2>1, <2>2, Zenon
  <1>11. CASE PvaPacket
    <2> DEFINE b == sent \o Sent(SubSeq(Seen, 13, need.n))
                         \o (IF file.tags THEN TagOf(Seen) ELSE <<>>)
    <2>1. Satisfied /\ Last /\ "data" \in {"data", "skip"}
          /\ Contents(Done(need.n), PvaSize(file, Seen) - need.n, "data", b)
      BY <1>11, PvaPacketIs, Zenon DEF Last
    <2> HIDE DEF b
    <2> QED BY <1>1, <1>2, <2>1, Zenon
  <1> QED BY <1>3, <1>4, <1>5, <1>6, <1>7, <1>8, <1>9, <1>10, <1>11, Zenon DEF HeaderAction

LEMMA MoreKeeps ==
  ASSUME Inv1, Satisfied, More
  PROVE  Inv1' /\ Seen' = Seen
  BY NeedMoreKeeps, Zenon DEF More

LEMMA HeaderActionInv1 ==
  ASSUME Inv1, HeaderAction
  PROVE  Inv1'
  <1>1. Satisfied /\ pc = "need"
    BY HeaderActionIs, Zenon DEF Satisfied
  <1>2. CASE More
    BY <1>1, <1>2, MoreKeeps, Zenon
  <1>3. CASE need.of = "prefix" /\ ~Started(file, Seen) /\ NoStart
    BY <1>1, <1>3, NoStartInv1, Zenon
  <1>4. CASE Ts /\ Stop("exit")
    BY <1>1, <1>4, StopKeeps, Zenon
  <1>5. CASE ~Ts /\ Stop("done")
    BY <1>1, <1>5, StopKeeps, Zenon
  <1>6. CASE Last /\ PassOver
    <2>1. Done(need.n) \in 0 .. end
      BY <1>1, <1>6, LastNeed, Zenon DEF Last
    <2> QED BY <1>1, <1>6, <2>1, NextHeaderKeeps, Zenon DEF PassOver
  <1>7. CASE Last /\ \E n \in Int : \E what \in {"data", "skip"} : \E before :
                 Contents(Done(need.n), n, what, before)
    <2>1. Done(need.n) \in 0 .. end
      BY <1>1, <1>7, LastNeed, Zenon DEF Last
    <2> QED BY <1>1, <1>7, <2>1, ContentsKeeps, Zenon
  <1> QED BY <1>2, <1>3, <1>4, <1>5, <1>6, <1>7, HeaderActionIs, Zenon

LEMMA Inv1Step ==
  ASSUME Inv1, PieceInv, [Next]_vars
  PROVE  Inv1'
  <1>1. CASE Next
    BY <1>1, ReadInv1, ReturnedInv1, FillInv1, PacketInv1, LastPacketInv1, SwitchInv1,
       NeedBytesInv1, SaveHeaderInv1, HeaderActionInv1, Zenon DEF Next, HeaderAction
  <1>2. CASE UNCHANGED vars
    <2>1. /\ file' = file /\ size' = size /\ pc' = pc /\ start' = start /\ packet' = packet
          /\ buf' = buf /\ end' = end /\ state' = state /\ stateBytes' = stateBytes
          /\ headBuf' = headBuf /\ inHead' = inHead /\ need' = need
      BY <1>2 DEF vars, statics
    <2>2. /\ Ts' = Ts /\ Es' = Es /\ Length' = Length /\ HeadSize' = HeadSize
      BY <2>1, SameFile, Zenon
    <2>3. Kept' = Kept /\ Seen' = Seen /\ Between' = Between
      BY <2>1, Zenon DEF Kept, Seen, Between
    <2>4. PlaceInv'
      BY <2>1, <2>2, Zenon DEF Inv1, PlaceInv
    <2>5. TypeInv'
      BY <2>1, <2>2, Zenon DEF Inv1, TypeInv
    <2>6. HeaderInv'
      BY <2>1, <2>3, Zenon DEF Inv1, HeaderInv
    <2> QED BY <2>4, <2>5, <2>6, Zenon DEF Inv1
  <1> QED BY <1>1, <1>2, Zenon

-----------------------------------------------------------------------------
(* Outside of transport streams head_buf is where it was in the file.      *)
LEMMA PieceInNeed ==
  ASSUME pc' = "need", ~inHead'
  PROVE  PieceInv'
  BY DEF PieceInv, Between

LEMMA ReadPiece ==
  ASSUME Inv1, PieceInv, Read
  PROVE  PieceInv'
  <1>1. /\ pc = "read" /\ ~Ts /\ file' = file
        /\ state' = state /\ stateBytes' = stateBytes /\ headBuf' = headBuf
        /\ IF Es THEN pc' = "returned" ELSE buf' = end /\ pc' = "switch"
    BY DEF Read, Es, statics
  <1>2. Between /\ Between' /\ pc # "need" /\ pc' # "need" /\ pc # "done"
    BY <1>1 DEF Between
  <1>3. Kept' = Kept
    BY <1>1, Zenon DEF Kept
  <1>4. CASE Es
    <2>1. state' # "header" /\ stateBytes' >= 0
      BY <1>1, <1>4 DEF Inv1, PlaceInv
    <2> QED BY <2>1, Zenon DEF PieceInv
  <1>5. CASE ~Es
    <2>1. Position' = Position
      BY <1>1, <1>5 DEF Position
    <2> QED BY <1>1, <1>2, <1>3, <2>1, Zenon DEF PieceInv
  <1> QED BY <1>4, <1>5, Zenon

LEMMA ReturnedPiece ==
  ASSUME Inv1, PieceInv, Returned
  PROVE  PieceInv'
  <1>1. /\ pc = "returned" /\ ~Ts /\ file' = file /\ end' = end
        /\ state' = state /\ stateBytes' = stateBytes /\ headBuf' = headBuf
        /\ pc' \in {"read", "done"}
    BY DEF Returned, statics
  <1>2. Between /\ pc # "need" /\ pc' # "need" /\ pc # "done"
    BY <1>1 DEF Between
  <1>3. Kept' = Kept /\ Position' = end /\ Position = end
    BY <1>1 DEF Kept, Position
  <1> QED BY <1>1, <1>2, <1>3, Zenon DEF PieceInv

LEMMA SwitchPiece ==
  ASSUME Inv1, PieceInv, Switch
  PROVE  PieceInv'
  <1>1. /\ pc = "switch" /\ ~Es /\ file' = file /\ headBuf' = headBuf /\ end' = end
        /\ inHead' = (state = "header" /\ stateBytes > 0)
    BY SwitchIs, Zenon
  <1>2. CASE Ts
    BY <1>1, <1>2, SameFile, Zenon DEF PieceInv
  <1>3. CASE ~Ts /\ state = "header"
    <2>1. /\ buf' = buf /\ pc' = "need" /\ state' = state /\ stateBytes' = stateBytes
      BY <1>3, SwitchIs, Zenon
    <2>2. Kept' = Kept /\ Position = buf /\ Between /\ pc # "need" /\ pc # "done"
      BY <1>1, <2>1 DEF Kept, Position, Between
    <2>3. stateBytes <= buf /\ Kept = Copy(stateBytes, buf - stateBytes)
      BY <1>3, <2>2, Zenon DEF PieceInv
    <2>4. ~Between'
      BY <2>1 DEF Between
    <2> QED BY <1>3, <2>1, <2>2, <2>3, <2>4, Zenon DEF PieceInv
  <1>4. CASE ~Ts /\ state # "header"
    <2>1. ~inHead'
      BY <1>1, <1>4, Zenon
    <2>2. \/ pc' = "need"
          \/ stateBytes > end - buf /\ state' = state /\ stateBytes' = stateBytes - (end - buf)
      BY <1>4, SwitchIs, Zenon
    <2>3. CASE pc' = "need"
      BY <2>1, <2>3, PieceInNeed, Zenon
    <2>4. CASE stateBytes > end - buf /\ state' = state
               /\ stateBytes' = stateBytes - (end - buf)
      <3>1. stateBytes' >= 0
        BY <2>4, LengthType DEF Inv1, TypeInv
      <3> QED BY <1>4, <2>4, <3>1, Zenon DEF PieceInv
    <2> QED BY <2>2, <2>3, <2>4, Zenon
  <1> QED BY <1>2, <1>3, <1>4, Zenon

(* The bytes of a header are those from HeaderAt on.                       *)
LEMMA KeptAt ==
  Inv1 /\ PieceInv /\ pc = "need" /\ inHead /\ ~Ts =>
    /\ state = "header" /\ stateBytes \in Nat /\ stateBytes <= buf
    /\ Seen = Kept /\ Kept = Copy(stateBytes, buf - stateBytes)
  <1> SUFFICES ASSUME Inv1, PieceInv, pc = "need", inHead, ~Ts
               PROVE  /\ state = "header" /\ stateBytes \in Nat /\ stateBytes <= buf
                      /\ Seen = Kept /\ Kept = Copy(stateBytes, buf - stateBytes)
    OBVIOUS
  <1>1. state = "header" /\ Seen = Kept
    BY Zenon DEF Inv1, HeaderInv, Seen, Kept
  <1>2. stateBytes \in Nat
    BY <1>1, KeptIs, Zenon DEF Inv1
  <1>3. pc # "done"
    OBVIOUS
  <1>4. stateBytes <= buf /\ Kept = Copy(stateBytes, buf - stateBytes)
    BY <1>1, <1>3, Zenon DEF PieceInv
  <1> QED BY <1>1, <1>2, <1>4, Zenon

LEMMA NeedBytesPiece ==
  ASSUME Inv1, PieceInv, NeedBytes
  PROVE  PieceInv'
  <1>1. /\ pc = "need" /\ inHead /\ file' = file /\ end' = end
        /\ Seen = Kept /\ Kept' = headBuf'
    BY NeedBytesIs, Zenon
  <1>2. PICK n \in 0 .. end - buf :
              /\ headBuf' = Seen \o Copy(n, buf) /\ stateBytes' = stateBytes + n
              /\ \/ /\ pc' = "need" /\ buf' = buf + n /\ stateBytes' = need.n
                 \/ /\ pc' = Back /\ buf' = buf /\ n = end - buf
                    /\ stateBytes' < need.n /\ Waits(file, headBuf')
    BY NeedBytesIs, Zenon
  <1>3. CASE Ts
    BY <1>1, <1>3, SameFile, Zenon DEF PieceInv
  <1>4. CASE ~Ts
    <2>1. /\ state = "header" /\ stateBytes \in Nat /\ stateBytes <= buf
          /\ Kept = Copy(stateBytes, buf - stateBytes)
      BY <1>1, <1>4, KeptAt, Zenon
    <2>2. buf \in Nat /\ end \in Nat /\ buf <= end
      BY LengthType DEF Inv1, TypeInv
    <2> DEFINE h == buf - stateBytes  sb == stateBytes
    <2>3. h \in Nat /\ n \in Nat /\ sb \in Nat /\ h + sb = buf
          /\ (sb + n) <= buf + n /\ (buf + n) - (sb + n) = h
      BY <2>1, <2>2
    <2>4. Copy(sb, h) \o Copy(n, h + sb) = Copy(sb + n, h)
      <3> HIDE DEF h, sb
      <3> QED BY <2>3, CopySplit, Zenon
    <2>5. Kept' = Copy(stateBytes', h)
      BY <1>1, <1>2, <2>1, <2>3, <2>4, Zenon
    <2> DEFINE p == IF pc = "need" THEN buf ELSE Position
    <2>6. p' = buf + n
      <3>1. CASE pc' = "need" /\ buf' = buf + n
        BY <3>1, Zenon
      <3>2. CASE pc' = Back /\ buf' = buf /\ n = end - buf
        <4>1. pc' # "need" /\ pc' # "switch"
          BY <3>2 DEF Back
        <4>2. buf + n = end
          BY <3>2, <2>2
        <4> QED BY <1>1, <4>1, <4>2, Zenon DEF Position
      <3> QED BY <1>2, <3>1, <3>2, Zenon
    <2>7. stateBytes' <= p' /\ Kept' = Copy(stateBytes', p' - stateBytes')
      <3>1. stateBytes' = stateBytes + n
        BY <1>2, Zenon
      <3>2. stateBytes + n <= buf + n /\ (buf + n) - (stateBytes + n) = h
        BY <2>3, Zenon
      <3> QED BY <2>5, <2>6, <3>1, <3>2, Zenon
    <2>8. state' = "header"
      BY <2>1, NeedBytesIs, Zenon
    <2> QED BY <2>7, <2>8, Zenon DEF PieceInv
  <1> QED BY <1>3, <1>4, Zenon

LEMMA SaveHeaderPiece ==
  ASSUME Inv1, PieceInv, SaveHeader
  PROVE  PieceInv'
  <1>1. /\ state' = "header" /\ pc' = Back /\ end' = end /\ stateBytes' = end - buf
        /\ headBuf' = Copy(end - buf, buf) /\ Kept' = headBuf'
    BY SaveHeaderIs, Zenon
  <1>2. buf \in Nat /\ end \in Nat /\ buf <= end
    BY LengthType DEF Inv1, TypeInv
  <1>3. pc' # "need" /\ pc' # "switch"
    BY <1>1 DEF Back
  <1>4. Position' = end
    BY <1>1, <1>3, Zenon DEF Position
  <1>5. end - buf <= end /\ end - (end - buf) = buf
    BY <1>2
  <1>6. stateBytes' <= Position' /\ Kept' = Copy(stateBytes', Position' - stateBytes')
    BY <1>1, <1>4, <1>5, Zenon
  <1> QED BY <1>1, <1>3, <1>6, Zenon DEF PieceInv

LEMMA DropPiece ==
  ASSUME Inv1, PieceInv, Satisfied, need.of = "prefix", ~Started(file, Seen), Drop
  PROVE  PieceInv'
  <1>1. /\ pc = "need" /\ inHead /\ ~Ts /\ pc' = pc /\ buf' = buf
        /\ headBuf' = From(Seen, 1) /\ Kept' = headBuf' /\ stateBytes' = stateBytes - 1
    BY DropIs, Zenon DEF Drop
  <1>2. /\ stateBytes \in Nat /\ stateBytes <= buf
        /\ Seen = Copy(stateBytes, buf - stateBytes)
    BY <1>1, KeptAt, Zenon
  <1>3. buf \in Nat
    BY LengthType DEF Inv1, TypeInv
  <1> DEFINE h == buf - stateBytes  sb == stateBytes
  <1>4. h \in Nat /\ sb \in Int /\ sb - 1 <= buf /\ buf - (sb - 1) = h + 1 /\ 1 \in Nat
    BY <1>2, <1>3
  <1>5. From(Copy(sb, h), 1) = Copy(sb - 1, h + 1)
    <2> HIDE DEF h, sb
    <2> QED BY <1>4, FromCopy, Zenon
  <1>6. Kept' = Copy(stateBytes', buf' - stateBytes') /\ stateBytes' <= buf'
    BY <1>1, <1>2, <1>4, <1>5, Zenon
  <1>7. ~Between'
    BY <1>1 DEF Between
  <1> QED BY <1>1, <1>6, <1>7, Zenon DEF PieceInv

LEMMA NextHeaderPiece ==
  ASSUME NEW from, pc = "need", NextHeader(from)
  PROVE  PieceInv'
  <1>1. file' = file /\ inHead' = FALSE /\ (~Ts => pc' = pc)
    BY DEF NextHeader
  <1>2. CASE Ts
    BY <1>1, <1>2, SameFile, Zenon DEF PieceInv
  <1>3. CASE ~Ts
    BY <1>1, <1>3, PieceInNeed, Zenon
  <1> QED BY <1>2, <1>3, Zenon

LEMMA ContentsPiece ==
  ASSUME Inv1, pc = "need", NEW from \in 0 .. end, NEW n \in Int,
         NEW what \in {"data", "skip"}, NEW before, Contents(from, n, what, before)
  PROVE  PieceInv'
  <1>1. CASE (what = "data" /\ Ts) \/ n > end - from
    <2>1. file' = file /\ state' = what /\ stateBytes' = n - (end - from)
      BY <1>1 DEF Contents
    <2>2. CASE Ts
      BY <2>1, <2>2, SameFile, Zenon DEF PieceInv
    <2>3. CASE ~Ts
      <3>1. n > end - from
        BY <1>1, <2>3, Zenon
      <3>2. stateBytes' >= 0
        BY <2>1, <3>1, LengthType DEF Inv1, TypeInv
      <3>3. state' # "header"
        BY <2>1
      <3> QED BY <3>2, <3>3, Zenon DEF PieceInv
    <2> QED BY <2>2, <2>3, Zenon
  <1>2. CASE ~((what = "data" /\ Ts) \/ n > end - from)
    <2>1. NextHeader(IF n > 0 THEN from + n ELSE from)
      BY <1>2 DEF Contents
    <2> QED BY <2>1, NextHeaderPiece, Zenon
  <1> QED BY <1>1, <1>2, Zenon

LEMMA MorePiece ==
  ASSUME Inv1, PieceInv, Satisfied, More
  PROVE  PieceInv'
  <1>1. /\ pc = "need" /\ file' = file /\ pc' = pc /\ buf' = buf /\ state' = state
        /\ stateBytes' = stateBytes /\ headBuf' = headBuf /\ inHead' = inHead
    BY DEF More, NeedMore, statics, Satisfied
  <1>2. Kept' = Kept /\ ~Between /\ ~Between' /\ Ts' = Ts
    BY <1>1, SameFile DEF Kept, Between
  <1> QED BY <1>1, <1>2, Zenon DEF PieceInv

LEMMA HeaderActionPiece ==
  ASSUME Inv1, PieceInv, HeaderAction
  PROVE  PieceInv'
  <1>1. Satisfied /\ pc = "need"
    BY HeaderActionIs, Zenon DEF Satisfied
  <1>2. CASE More
    BY <1>1, <1>2, MorePiece, Zenon
  <1>3. CASE need.of = "prefix" /\ ~Started(file, Seen) /\ NoStart
    BY <1>1, <1>3, DropPiece, NextHeaderPiece, Zenon DEF NoStart
  <1>4. CASE Ts /\ Stop("exit")
    BY <1>4, SameFile, Zenon DEF PieceInv, Stop
  <1>5. CASE Stop("done")
    BY <1>5, Zenon DEF PieceInv, Stop
  <1>6. CASE Last /\ PassOver
    BY <1>1, <1>6, NextHeaderPiece, Zenon DEF PassOver
  <1>7. CASE Last /\ \E n \in Int : \E what \in {"data", "skip"} : \E before :
                 Contents(Done(need.n), n, what, before)
    <2>1. Done(need.n) \in 0 .. end
      BY <1>1, <1>7, LastNeed, Zenon DEF Last
    <2> QED BY <1>1, <1>7, <2>1, ContentsPiece, Zenon
  <1> QED BY <1>2, <1>3, <1>4, <1>5, <1>6, <1>7, HeaderActionIs, Zenon

LEMMA InitPiece ==
  Init => PieceInv
  <1> SUFFICES ASSUME Init PROVE PieceInv
    OBVIOUS
  <1>1. state # "header" /\ stateBytes >= 0
    BY DEF Init
  <1> QED BY <1>1, Zenon DEF PieceInv

LEMMA PieceStep ==
  ASSUME Inv1, PieceInv, [Next]_vars
  PROVE  PieceInv'
  <1>1. CASE Fill \/ Packet \/ LastPacket
    <2>1. file' = file /\ Ts
      BY <1>1 DEF Fill, Packet, LastPacket, Inv1, PlaceInv
    <2> QED BY <2>1, SameFile, Zenon DEF PieceInv
  <1>2. CASE UNCHANGED vars
    <2>1. /\ file' = file /\ pc' = pc /\ buf' = buf /\ end' = end /\ state' = state
          /\ stateBytes' = stateBytes /\ headBuf' = headBuf /\ inHead' = inHead
      BY <1>2 DEF vars, statics
    <2>2. Kept' = Kept /\ Between' = Between /\ Position' = Position /\ Ts' = Ts
      BY <2>1, SameFile DEF Kept, Between, Position
    <2> QED BY <2>1, <2>2, Zenon DEF PieceInv
  <1> QED BY <1>1, <1>2, ReadPiece, ReturnedPiece, SwitchPiece, NeedBytesPiece,
             SaveHeaderPiece, HeaderActionPiece, Zenon DEF Next, HeaderAction

LEMMA TypeOKHolds ==
  Inv1 => TypeOK
  <1> SUFFICES ASSUME Inv1 PROVE TypeOK
    OBVIOUS
  <1>1. /\ file \in Files /\ size \in Sizes /\ start \in 0 .. Length /\ packet \in 0 .. Length
        /\ end \in 0 .. Length /\ buf \in 0 .. end
        /\ state \in {"header", "data", "skip"} /\ stateBytes \in Int
        /\ inHead \in BOOLEAN /\ Len(headBuf) <= HeadSize
        /\ state = "header" => stateBytes \in 0 .. Len(headBuf)
    BY Zenon DEF Inv1, TypeInv, HeaderInv
  <1>2. pc \in {"read", "returned", "packet", "switch", "need", "done", "exit"}
    BY DEF Inv1, PlaceInv
  <1>3. buf <= end /\ buf \in Nat
    BY <1>1, LengthType DEF Inv1
  <1> QED BY <1>1, <1>2, <1>3, Zenon DEF TypeOK

(* For any file, cut into pieces of any size: what the static variables    *)
(* and pointers of demux and pva_demux may hold, TypeOK. head_buf never    *)
(* overflows, and a pointer never leaves what was read (mpeg2dec.c:359-747 *)
(* and extract_mpeg2.c:101-445).                                           *)
THEOREM DemuxTypeCorrect == Spec => []TypeOK
  <1>1. Init => Inv1 /\ PieceInv
    BY InitInv1, InitPiece, Zenon
  <1>2. Inv1 /\ PieceInv /\ [Next]_vars => (Inv1 /\ PieceInv)'
    BY Inv1Step, PieceStep, Zenon
  <1>3. Inv1 /\ PieceInv => TypeOK
    BY TypeOKHolds, Zenon
  <1> QED BY <1>1, <1>2, <1>3, PTL DEF Spec

-----------------------------------------------------------------------------
(* What a step passes on comes from what was ahead.                        *)
LEMMA Associative ==
  ASSUME NEW s \in Stream, NEW t \in Stream, NEW u \in Stream
  PROVE  (s \o t) \o u = s \o (t \o u)
  BY ConcatAssociative, SMTT(40) DEF Stream

LEMMA Passes ==
  ASSUME StreamInv, file' = file, NEW x \in Stream, sent' = sent \o x,
         Ahead' \in Stream, Ahead = x \o Ahead'
  PROVE  StreamInv'
  <1>1. sent \in Stream /\ sent \o Ahead = ElementaryStream[file]
    BY Zenon DEF StreamInv
  <1>2. sent' \in Stream
    BY <1>1, JoinType, Zenon
  <1>3. (sent \o x) \o Ahead' = sent \o (x \o Ahead')
    BY <1>1, Associative, Zenon
  <1>4. sent' \o Ahead' = ElementaryStream[file']
    BY <1>1, <1>3, Zenon
  <1> QED BY <1>2, <1>4, Zenon DEF StreamInv

LEMMA PassesNothing ==
  ASSUME StreamInv, file' = file, sent' = sent, Ahead' = Ahead
  PROVE  StreamInv'
  BY Zenon DEF StreamInv

LEMMA Empty ==
  ASSUME NEW s \in Stream
  PROVE  <<>> \o s = s /\ s \o <<>> = s
  BY ConcatEmptySeq, Zenon DEF Stream

LEMMA EmptyOffsets ==
  ASSUME NEW s \in Offsets
  PROVE  <<>> \o s = s /\ s \o <<>> = s
  BY ConcatEmptySeq, Zenon DEF Offsets

LEMMA StreamAt ==
  ASSUME NEW f \in Files, NEW p \in Nat
  PROVE  /\ f.kind # "ts" => Remaining(f)[p] \in Stream
         /\ f.kind = "ts" => /\ Remaining(f)[p].now \in Offsets
                             /\ Remaining(f)[p].later \in Stream
  <1>1. Remaining(f)[p] \in Streams(f)
    BY RemainingType, Zenon
  <1>2. f.kind # "ts" => Remaining(f)[p] \in Stream
    BY <1>1, Zenon DEF Streams
  <1>3. f.kind = "ts" => Remaining(f)[p] \in Unit
    BY <1>1, Zenon DEF Streams
  <1>4. f.kind = "ts" => /\ Remaining(f)[p].now \in Offsets
                         /\ Remaining(f)[p].later \in Stream
    BY <1>3 DEF Unit
  <1> QED BY <1>2, <1>4, Zenon

LEMMA RunStream ==
  ASSUME NEW p \in Nat, NEW n \in Int
  PROVE  Run(p, n) \in Stream /\ (n <= 0 => Run(p, n) = <<>>)
  BY RunType, Zenon DEF Stream

LEMMA Ints ==
  Inv1 => /\ Length \in Nat /\ buf \in Nat /\ end \in Nat /\ buf <= end /\ end <= Length
          /\ stateBytes \in Int /\ packet \in Nat /\ packet <= Length /\ file \in Files
          /\ size \in Nat /\ start \in Nat /\ Length = Len(file.bytes)
  BY LengthType, DemuxAssumption DEF Inv1, TypeInv, Length

-----------------------------------------------------------------------------
(* An elementary stream is passed on as it is.                             *)
LEMMA ReadEs ==
  ASSUME Inv1, StreamInv, Read, Es
  PROVE  StreamInv'
  <1>1. /\ pc = "read" /\ file' = file /\ end' = Least(end + size, Length)
        /\ sent' = sent \o SEND(end, end') /\ pc' = "returned"
    BY DEF Read, Es
  <1>2. Length' = Length /\ Es' = Es
    BY <1>1, SameFile, Zenon
  <1>3. Ahead = Run(end, Length - end) /\ Ahead' = Run(end', Length - end')
    BY <1>1, <1>2 DEF Ahead
  <1>4. end \in Nat /\ Length \in Nat /\ end' \in Nat /\ end <= end' /\ end' <= Length
    BY <1>1, Ints DEF Least
  <1> DEFINE e == end'  l == Length  a == e - end  b == l - e
  <1>5. a \in Nat /\ b \in Nat /\ end + a = e /\ a + b = l - end
    <2>1. end \in Nat /\ l \in Nat /\ e \in Nat /\ end <= e /\ e <= l
      BY <1>4
    <2> HIDE DEF e, l
    <2> QED BY <2>1
  <1> HIDE DEF a, b
  <1>6. Run(end, a) \o Run(end + a, b) = Run(end, a + b)
    BY <1>4, <1>5, RunSplit, Zenon
  <1>7. Run(end, a) \in Stream /\ Run(end', b) \in Stream
    BY <1>4, <1>5, RunStream
  <1>8. SEND(end, end') = Run(end, a)
    BY Zenon DEF SEND, a
  <1>9. Ahead = Run(end, a) \o Ahead' /\ Ahead' \in Stream
    BY <1>3, <1>5, <1>6, <1>7, Zenon DEF b
  <1> QED BY <1>1, <1>7, <1>8, <1>9, Passes, Zenon

LEMMA AtLength ==
  ASSUME Inv1, Returned, pc' = "done"
  PROVE  end = Length
  <1>1. pc = "returned" /\ ~Ts /\ end # start + size
    BY DEF Returned
  <1>2. end = Least(start + size, Length)
    BY <1>1, Zenon DEF Inv1, PlaceInv
  <1> QED BY <1>1, <1>2 DEF Least

LEMMA ReturnedEs ==
  ASSUME Inv1, StreamInv, Returned, Es
  PROVE  StreamInv'
  <1>1. /\ pc = "returned" /\ file' = file /\ end' = end /\ sent' = sent
        /\ pc' \in {"read", "done"}
    BY DEF Returned
  <1>2. Length' = Length /\ Es' = Es
    BY <1>1, SameFile, Zenon
  <1>3. Ahead = Run(end, Length - end)
    BY <1>1 DEF Ahead
  <1>4. CASE pc' = "read"
    <2>1. Ahead' = Run(end, Length - end)
      BY <1>1, <1>2, <1>4 DEF Ahead
    <2> QED BY <1>1, <1>3, <2>1, PassesNothing, Zenon
  <1>5. CASE pc' = "done"
    <2>1. Ahead' = <<>>
      BY <1>5 DEF Ahead
    <2>2. Length - end \in Int /\ Length - end <= 0 /\ end \in Nat
      BY <1>5, AtLength, Ints
    <2>3. Run(end, Length - end) = <<>>
      BY <2>2, RunStream, Zenon
    <2> QED BY <1>1, <1>3, <2>1, <2>3, PassesNothing, Zenon
  <1> QED BY <1>1, <1>4, <1>5, Zenon

-----------------------------------------------------------------------------
(* Program streams and PVA: between two calls.                             *)
Piecewise == ~Ts /\ ~Es

LEMMA AheadCall ==
  Piecewise /\ pc \in {"read", "returned", "switch"} => Ahead = AheadOfCall
  BY DEF Ahead, Piecewise

LEMMA AheadHeader ==
  Piecewise /\ pc = "need" => Ahead = AheadInHeader
  BY DEF Ahead, Piecewise

LEMMA ReadPiecewise ==
  ASSUME Inv1, StreamInv, Read, Piecewise
  PROVE  StreamInv'
  <1>1. /\ pc = "read" /\ file' = file /\ buf' = end /\ pc' = "switch" /\ sent' = sent
        /\ state' = state /\ stateBytes' = stateBytes
    BY DEF Read, Piecewise, Es, statics
  <1>2. Length' = Length /\ Es' = Es /\ Ts' = Ts
    BY <1>1, SameFile, Zenon
  <1>3. (Piecewise /\ pc \in {"read", "returned", "switch"} => Ahead = AheadOfCall)'
    BY AheadCall, PTL
  <1>4. Ahead = AheadOfCall /\ Ahead' = AheadOfCall'
    BY <1>1, <1>2, <1>3, AheadCall DEF Piecewise
  <1>5. Position' = Position
    BY <1>1 DEF Position
  <1>6. AheadOfCall' = AheadOfCall
    BY <1>1, <1>2, <1>5, Zenon DEF AheadOfCall
  <1> QED BY <1>1, <1>4, <1>6, PassesNothing, Zenon

LEMMA NotTs ==
  ASSUME Inv1, Piecewise
  PROVE  file.kind \in {"ps", "pva"} /\ file.kind # "ts" /\ file \in Files
  BY KindIs DEF Inv1, Piecewise, Ts, Pva

LEMMA ReturnedPiecewise ==
  ASSUME Inv1, PieceInv, StreamInv, Returned, Piecewise
  PROVE  StreamInv'
  <1>1. /\ pc = "returned" /\ file' = file /\ end' = end /\ sent' = sent
        /\ state' = state /\ stateBytes' = stateBytes
        /\ pc' \in {"read", "done"}
    BY DEF Returned, statics
  <1>2. Length' = Length /\ Es' = Es /\ Ts' = Ts
    BY <1>1, SameFile, Zenon
  <1>3. Ahead = AheadOfCall /\ Position = end
    BY <1>1, AheadCall DEF Position
  <1>4. CASE pc' = "read"
    <2>1. (Piecewise /\ pc \in {"read", "returned", "switch"} => Ahead = AheadOfCall)'
      BY AheadCall, PTL
    <2>2. Ahead' = AheadOfCall' /\ Position' = end
      BY <1>1, <1>2, <1>4, <2>1 DEF Piecewise, Position
    <2>3. AheadOfCall' = AheadOfCall
      BY <1>1, <1>2, <1>3, <2>2, Zenon DEF AheadOfCall
    <2> QED BY <1>1, <1>3, <2>2, <2>3, PassesNothing, Zenon
  <1>5. CASE pc' = "done"
    <2>1. Ahead' = <<>>
      BY <1>5 DEF Ahead
    <2>2. end = Length
      BY <1>5, AtLength, Zenon
    <2>3. Length \in Nat /\ stateBytes \in Int /\ Length = Len(file.bytes)
          /\ state \in {"header", "data", "skip"}
      BY Ints, Zenon DEF Inv1, TypeInv
    <2>4. CASE state = "header"
      <3>1. /\ Waits(file, Kept) /\ stateBytes <= Length
            /\ Kept = Copy(stateBytes, Length - stateBytes)
        <4>1. Between /\ pc # "done" /\ pc # "need"
          BY <1>1 DEF Between
        <4> QED BY <1>3, <2>2, <2>4, <4>1, Zenon DEF Inv1, HeaderInv, PieceInv, Piecewise
      <3>2. stateBytes \in Nat
        BY <2>4, KeptIs, Zenon DEF Inv1
      <3> DEFINE p == Length - stateBytes
      <3>3. p \in Nat /\ Length - p = stateBytes
        BY <2>3, <3>1, <3>2
      <3>4. Kept = FromByte(file, p)
        BY <2>3, <3>1, <3>3, Zenon DEF FromByte
      <3>5. Remaining(file)[p] = <<>>
        <4> HIDE DEF p
        <4> QED BY <3>1, <3>3, <3>4, NotTs, WaitsNothing, Zenon
      <3>6. AheadOfCall = <<>> \o <<>>
        BY <1>3, <2>2, <2>4, <3>5 DEF AheadOfCall
      <3>7. Ahead = <<>>
        BY <1>3, <3>6, Empty, EmptyType, Zenon
      <3> QED BY <1>1, <2>1, <3>7, PassesNothing, Zenon
    <2>5. CASE state # "header"
      <3>1. stateBytes \in Nat
        <4>1. Between /\ pc # "done"
          BY <1>1 DEF Between
        <4>2. stateBytes >= 0
          BY <2>5, <4>1, Zenon DEF PieceInv, Piecewise
        <4> QED BY <2>3, <4>2
      <3> DEFINE p == Length + stateBytes  m == Least(stateBytes, Length - Length)
      <3>2. p \in Nat /\ p >= Length /\ m \in Int /\ m <= 0
        BY <2>3, <3>1 DEF Least
      <3>3. Remaining(file)[p] = <<>>
        <4> HIDE DEF p
        <4>1. Remaining(file)[p] = AtEnd(file)
          BY <2>3, <3>2, NotTs, BeyondEnd, Zenon
        <4> QED BY <4>1, NotTs, Zenon DEF AtEnd
      <3>4. Run(Length, m) = <<>>
        <4> HIDE DEF m
        <4> QED BY <2>3, <3>2, RunStream, Zenon
      <3>5. AheadOfCall = <<>> \o <<>>
        BY <1>3, <2>2, <2>5, <3>3, <3>4, Zenon DEF AheadOfCall
      <3>6. Ahead = <<>>
        BY <1>3, <3>5, Empty, EmptyType, Zenon
      <3> QED BY <1>1, <2>1, <3>6, PassesNothing, Zenon
    <2> QED BY <2>4, <2>5, Zenon
  <1> QED BY <1>1, <1>4, <1>5, Zenon

-----------------------------------------------------------------------------
(* The switch of demux and pva_demux.                                      *)
Rest(p) == Remaining(file)[p]

LEMMA RestType ==
  ASSUME Inv1, Piecewise, NEW p \in Nat
  PROVE  Rest(p) \in Stream
  BY NotTs, StreamAt, Zenon DEF Rest

LEMMA SamePiecewise ==
  ASSUME Piecewise, file' = file
  PROVE  Piecewise'
  <1>1. Ts' = Ts /\ Es' = Es
    BY SameFile, Zenon
  <1> QED BY <1>1 DEF Piecewise

LEMMA ToHeader ==
  ASSUME Inv1, Piecewise, file' = file, pc' = "need"
  PROVE  Ahead' = Rest(HeaderAt')
  <1>1. Piecewise'
    BY SamePiecewise, Zenon
  <1>2. (Piecewise /\ pc = "need" => Ahead = AheadInHeader)'
    BY AheadHeader, PTL
  <1>3. Ahead' = AheadInHeader'
    BY <1>1, <1>2, Zenon
  <1>4. AheadInHeader' = Remaining(file')[HeaderAt']
    BY DEF AheadInHeader
  <1> QED BY <1>3, <1>4, Zenon DEF Rest

LEMMA OutOfCall ==
  ASSUME Inv1, Piecewise, file' = file, pc' = "returned"
  PROVE  Ahead' =
           (IF state' = "data" THEN Run(end', Least(stateBytes', Length - end')) ELSE <<>>)
           \o Rest(IF state' = "header" THEN end' - stateBytes' ELSE end' + stateBytes')
  <1>1. Piecewise' /\ Length' = Length
    BY SameFile, SamePiecewise, Zenon
  <1>2. (Piecewise /\ pc \in {"read", "returned", "switch"} => Ahead = AheadOfCall)'
    BY AheadCall, PTL
  <1>3. Ahead' = AheadOfCall' /\ Position' = end'
    BY <1>1, <1>2 DEF Position
  <1>4. AheadOfCall' =
           (IF state' = "data" THEN Run(Position', Least(stateBytes', Length' - Position'))
            ELSE <<>>)
           \o Remaining(file')[IF state' = "header" THEN Position' - stateBytes'
                               ELSE Position' + stateBytes']
    BY DEF AheadOfCall
  <1> QED BY <1>1, <1>3, <1>4, Zenon DEF Rest

LEMMA BeforeSwitch ==
  ASSUME Inv1, Piecewise, pc = "switch"
  PROVE  Ahead = (IF state = "data" THEN Run(buf, Least(stateBytes, Length - buf)) ELSE <<>>)
                 \o Rest(IF state = "header" THEN buf - stateBytes ELSE buf + stateBytes)
  <1>1. Ahead = AheadOfCall /\ Position = buf
    BY AheadCall DEF Position
  <1> QED BY <1>1, Zenon DEF AheadOfCall, Rest

LEMMA CutRun ==
  ASSUME NEW b \in Nat, NEW e \in Nat, NEW l \in Nat, b <= e, e <= l,
         NEW n \in Int, n > e - b
  PROVE  /\ Run(b, Least(n, l - b)) = Run(b, e - b) \o Run(e, Least(n - (e - b), l - e))
         /\ b + n = e + (n - (e - b)) /\ b + n \in Nat
         /\ e - b \in Nat
  <1> DEFINE m == e - b  r == Least(n - (e - b), l - e)
  <1>1. m \in Nat /\ r \in Nat /\ b + m = e /\ m + r = Least(n, l - b)
    BY DEF Least
  <1>2. b + n = e + (n - (e - b)) /\ b + n \in Nat
    OBVIOUS
  <1> HIDE DEF m, r
  <1>3. Run(b, m) \o Run(b + m, r) = Run(b, m + r)
    BY <1>1, RunSplit, Zenon
  <1>4. Run(b, Least(n, l - b)) = Run(b, m) \o Run(e, r)
    BY <1>1, <1>3, Zenon
  <1> QED BY <1>1, <1>2, <1>4, Zenon DEF m, r

LEMMA SwitchPiecewise ==
  ASSUME Inv1, PieceInv, StreamInv, Switch, Piecewise
  PROVE  StreamInv'
  <1>1. /\ pc = "switch" /\ file' = file /\ end' = end
        /\ inHead' = (state = "header" /\ stateBytes > 0)
    BY SwitchIs, Zenon
  <1>2. /\ Length \in Nat /\ buf \in Nat /\ end \in Nat /\ buf <= end /\ end <= Length
        /\ stateBytes \in Int
    BY Ints, Zenon
  <1>3. CASE /\ state = "header" /\ buf' = buf /\ sent' = sent
             /\ pc' = "need" /\ stateBytes' = stateBytes
    <2>1. HeaderAt' = (IF stateBytes > 0 THEN buf - stateBytes ELSE buf)
      BY <1>1, <1>3 DEF HeaderAt
    <2>2. stateBytes <= buf
      <3>1. Between /\ pc # "done" /\ pc # "need" /\ Position = buf
        BY <1>1 DEF Between, Position
      <3> QED BY <1>3, <3>1, Zenon DEF PieceInv, Piecewise
    <2>3. stateBytes \in Nat
      BY <1>3, KeptIs, Zenon DEF Inv1
    <2> DEFINE p == buf - stateBytes
    <2>4. p \in Nat /\ HeaderAt' = p
      BY <1>2, <2>1, <2>2, <2>3
    <2>5. Ahead = <<>> \o Rest(p)
      BY <1>1, <1>3, BeforeSwitch
    <2>6. Ahead' = Rest(HeaderAt')
      BY <1>1, <1>3, ToHeader, Zenon
    <2> HIDE DEF p
    <2>7. Rest(p) \in Stream
      BY <2>4, RestType, Zenon
    <2>8. Ahead = Rest(p)
      BY <2>5, <2>7, Empty, Zenon
    <2> QED BY <1>1, <1>3, <2>4, <2>6, <2>8, PassesNothing, Zenon
  <1>4. CASE /\ state # "header" /\ stateBytes > end - buf /\ buf' = end
             /\ pc' = "returned" /\ state' = state /\ stateBytes' = stateBytes - (end - buf)
             /\ sent' = IF state = "data" THEN sent \o Run(buf, end - buf) ELSE sent
    <2> DEFINE m == end - buf  sb == stateBytes - (end - buf)
               later == Run(end, Least(sb, Length - end))
    <2>1. /\ Run(buf, Least(stateBytes, Length - buf)) = Run(buf, m) \o later
          /\ buf + stateBytes = end + sb /\ buf + stateBytes \in Nat /\ m \in Nat
      BY <1>2, <1>4, CutRun, Zenon
    <2>2. Ahead = (IF state = "data" THEN Run(buf, Least(stateBytes, Length - buf)) ELSE <<>>)
                  \o Rest(buf + stateBytes)
      BY <1>1, <1>4, BeforeSwitch, Zenon
    <2>3. Ahead' = (IF state = "data" THEN later ELSE <<>>) \o Rest(end + sb)
      BY <1>1, <1>4, OutOfCall, Zenon
    <2>4. later \in Stream
      <3>1. Least(sb, Length - end) \in Int
        BY <1>2 DEF Least
      <3> QED BY <1>2, <3>1, RunStream, Zenon
    <2> HIDE DEF m, sb, later
    <2>5. Rest(buf + stateBytes) \in Stream /\ Run(buf, m) \in Stream
      <3>1. m \in Int
        BY <2>1
      <3> QED BY <1>2, <2>1, <3>1, RestType, RunStream, Zenon
    <2>6. CASE state = "data"
      <3>1. Ahead = (Run(buf, m) \o later) \o Rest(buf + stateBytes)
        BY <2>1, <2>2, <2>6, Zenon
      <3>2. Ahead' = later \o Rest(buf + stateBytes)
        BY <2>1, <2>3, <2>6, Zenon
      <3>3. Ahead' \in Stream /\ Ahead = Run(buf, m) \o Ahead'
        BY <2>4, <2>5, <3>1, <3>2, Associative, JoinType, Zenon
      <3>4. sent' = sent \o Run(buf, m)
        BY <1>4, <2>6, Zenon DEF m
      <3> QED BY <1>1, <2>5, <3>3, <3>4, Passes, Zenon
    <2>7. CASE state # "data"
      <3>1. Ahead = <<>> \o Rest(buf + stateBytes) /\ Ahead' = <<>> \o Rest(buf + stateBytes)
        BY <2>1, <2>2, <2>3, <2>7, Zenon
      <3>2. sent' = sent
        BY <1>4, <2>7, Zenon
      <3> QED BY <1>1, <3>1, <3>2, PassesNothing, Zenon
    <2> QED BY <2>6, <2>7, Zenon
  <1>5. CASE /\ state # "header" /\ stateBytes \in 0 .. end - buf
             /\ buf' = buf + stateBytes /\ pc' = "need"
             /\ sent' = IF state = "data" THEN sent \o Run(buf, stateBytes) ELSE sent
    <2> DEFINE p == buf + stateBytes
    <2>1. HeaderAt' = p
      BY <1>1, <1>5 DEF HeaderAt
    <2>2. p \in Nat /\ Least(stateBytes, Length - buf) = stateBytes
      BY <1>2, <1>5 DEF Least
    <2>3. Ahead = (IF state = "data" THEN Run(buf, stateBytes) ELSE <<>>) \o Rest(p)
      BY <1>1, <1>5, <2>2, BeforeSwitch, Zenon
    <2>4. Ahead' = Rest(p)
      BY <1>1, <1>5, <2>1, ToHeader, Zenon
    <2> HIDE DEF p
    <2>5. Rest(p) \in Stream /\ Run(buf, stateBytes) \in Stream
      BY <1>2, <2>2, RestType, RunStream, Zenon
    <2>6. CASE state = "data"
      BY <1>1, <1>5, <2>3, <2>4, <2>5, <2>6, Passes, Zenon
    <2>7. CASE state # "data"
      <3>1. Ahead = Rest(p)
        BY <2>3, <2>5, <2>7, Empty, Zenon
      <3> QED BY <1>1, <1>5, <2>4, <2>7, <3>1, PassesNothing, Zenon
    <2> QED BY <2>6, <2>7, Zenon
  <1>6. Back = "returned"
    BY DEF Back, Piecewise
  <1> QED
    <2>1. \/ /\ state = "header" /\ ~(Ts /\ stateBytes = 0) /\ buf' = buf /\ sent' = sent
             /\ pc' = "need" /\ state' = state /\ stateBytes' = stateBytes
          \/ /\ state = "header" /\ Ts /\ stateBytes = 0 /\ buf' = buf /\ sent' = sent
             /\ pc' = "packet" /\ state' = "skip" /\ stateBytes' = stateBytes
          \/ /\ state # "header" /\ (Ts \/ stateBytes > end - buf) /\ buf' = end
             /\ pc' = Back /\ state' = state /\ stateBytes' = stateBytes - (end - buf)
             /\ sent' = IF state = "data" THEN sent \o Run(buf, end - buf) ELSE sent
          \/ /\ state # "header" /\ ~Ts /\ stateBytes \in 0 .. end - buf
             /\ buf' = buf + stateBytes
             /\ pc' = "need" /\ state' = state /\ stateBytes' = stateBytes
             /\ sent' = IF state = "data" THEN sent \o Run(buf, stateBytes) ELSE sent
      BY SwitchIs, Zenon
    <2> QED BY <1>3, <1>4, <1>5, <1>6, <2>1, Zenon DEF Piecewise

-----------------------------------------------------------------------------
(* While a header is collected: it starts at HeaderAt.                     *)
LEMMA CopyBegins ==
  ASSUME NEW n \in Nat, NEW m \in Nat, NEW p \in Nat, n <= m
  PROVE  Begins(Copy(n, p), Copy(m, p))
  <1>1. n \in Int /\ m \in Int /\ \A k \in 1 .. n : k \in 1 .. m
    OBVIOUS
  <1>2. (IF n > 0 THEN n ELSE 0) = n /\ (IF m > 0 THEN m ELSE 0) = m
    OBVIOUS
  <1>3. /\ Len(Copy(n, p)) = IF n > 0 THEN n ELSE 0
        /\ \A k \in 1 .. n : Copy(n, p)[k] = p + k - 1
    BY <1>1, CopyType, Zenon
  <1>4. /\ Len(Copy(m, p)) = IF m > 0 THEN m ELSE 0
        /\ \A k \in 1 .. m : Copy(m, p)[k] = p + k - 1
    BY <1>1, CopyType, Zenon
  <1>5. There(Copy(n, p)) = n /\ There(Copy(m, p)) = m
    BY <1>2, <1>3, <1>4, Zenon DEF There
  <1>6. \A k \in 1 .. n : Copy(m, p)[k] = Copy(n, p)[k]
    BY <1>1, <1>3, <1>4, Zenon
  <1> QED BY <1>5, <1>6, Zenon DEF Begins

LEMMA HeaderPlace ==
  ASSUME Inv1, PieceInv, Piecewise, pc = "need"
  PROVE  /\ HeaderAt \in Nat /\ Bytes \in Nat /\ HeaderAt + Bytes <= Length
         /\ HeaderAt + Bytes = (IF inHead THEN buf ELSE end)
         /\ Seen = Copy(Bytes, HeaderAt) /\ There(Seen) = Bytes /\ Seen \in Offsets
  <1>1. /\ Length \in Nat /\ buf \in Nat /\ end \in Nat /\ buf <= end /\ end <= Length
    BY Ints, Zenon
  <1>2. There(Seen) = Bytes /\ Bytes \in Nat /\ Seen \in Offsets
    BY SeenIs, Zenon DEF Inv1
  <1>3. CASE inHead
    <2>1. /\ stateBytes \in Nat /\ stateBytes <= buf
          /\ Seen = Copy(stateBytes, buf - stateBytes)
      BY <1>3, KeptAt, Zenon DEF Piecewise
    <2>2. Bytes = stateBytes /\ HeaderAt = buf - stateBytes
      BY <1>3, Zenon DEF Bytes, HeaderAt
    <2>3. HeaderAt \in Nat /\ HeaderAt + Bytes = buf /\ buf <= Length
      BY <1>1, <2>1, <2>2
    <2>4. HeaderAt + Bytes <= Length
      BY <2>3, Zenon
    <2> QED BY <1>2, <1>3, <2>1, <2>2, <2>3, <2>4, Zenon
  <1>4. CASE ~inHead
    <2>1. Bytes = end - buf /\ HeaderAt = buf /\ Seen = Copy(end - buf, buf)
      BY <1>4, Zenon DEF Bytes, HeaderAt, Seen
    <2>2. HeaderAt \in Nat /\ HeaderAt + Bytes = end /\ end <= Length
      BY <1>1, <2>1
    <2>3. HeaderAt + Bytes <= Length
      BY <2>2, Zenon
    <2> QED BY <1>2, <1>4, <2>1, <2>2, <2>3, Zenon
  <1> QED BY <1>3, <1>4, Zenon

LEMMA SeenBegins ==
  ASSUME Inv1, PieceInv, Piecewise, pc = "need"
  PROVE  /\ FromByte(file, HeaderAt) \in Offsets
         /\ Begins(Seen, FromByte(file, HeaderAt))
  <1> DEFINE h == HeaderAt  b == Bytes  m == Length - h
  <1>1. /\ h \in Nat /\ b \in Nat /\ h + b <= Length /\ Seen = Copy(b, h)
        /\ Length \in Nat /\ file \in Files
    BY HeaderPlace, Ints, Zenon
  <1> HIDE DEF h, b
  <1>2. m \in Nat /\ b <= m
    BY <1>1
  <1>3. FromByte(file, h) = Copy(m, h)
    BY Zenon DEF FromByte, Length
  <1> HIDE DEF m
  <1>4. Begins(Seen, FromByte(file, h))
    BY <1>1, <1>2, <1>3, CopyBegins, Zenon
  <1>5. FromByte(file, h) \in Offsets
    BY <1>1, FromByteType, Zenon
  <1> QED BY <1>4, <1>5, Zenon DEF h

LEMMA InHeader ==
  ASSUME Inv1, PieceInv, Piecewise, pc = "need"
  PROVE  Ahead = Rest(HeaderAt) /\ Rest(HeaderAt) \in Stream
  <1>1. HeaderAt \in Nat
    BY HeaderPlace, Zenon
  <1>2. Rest(HeaderAt) \in Stream
    BY <1>1, RestType, Zenon
  <1>3. Ahead = AheadInHeader
    BY AheadHeader, Zenon
  <1> QED BY <1>2, <1>3, Zenon DEF AheadInHeader, Rest

LEMMA SameHeader ==
  ASSUME Inv1, PieceInv, StreamInv, Piecewise, pc = "need", pc' = "need", file' = file,
         sent' = sent, HeaderAt' = HeaderAt
  PROVE  StreamInv'
  <1>1. Ahead' = Ahead
    BY ToHeader, InHeader, Zenon
  <1> QED BY <1>1, PassesNothing, Zenon

LEMMA KeepsHeader ==
  ASSUME Inv1, PieceInv, StreamInv, Piecewise, pc = "need", pc' = "returned", file' = file,
         sent' = sent, state' = "header", end' - stateBytes' = HeaderAt
  PROVE  StreamInv'
  <1>1. state' # "data"
    OBVIOUS
  <1>2. Ahead' = <<>> \o Rest(HeaderAt)
    BY <1>1, OutOfCall, Zenon
  <1>3. Ahead' = Ahead
    BY <1>2, InHeader, Empty, Zenon
  <1> QED BY <1>3, PassesNothing, Zenon

LEMMA NeedBytesPiecewise ==
  ASSUME Inv1, PieceInv, StreamInv, NeedBytes, Piecewise
  PROVE  StreamInv'
  <1>1. /\ pc = "need" /\ inHead /\ inHead' = inHead /\ file' = file /\ sent' = sent
        /\ end' = end /\ state' = "header"
    BY NeedBytesIs, Zenon
  <1>2. PICK n \in 0 .. end - buf :
          /\ stateBytes' = stateBytes + n
          /\ \/ pc' = "need" /\ buf' = buf + n
             \/ pc' = Back /\ n = end - buf
    BY NeedBytesIs, Zenon
  <1>3. /\ stateBytes \in Int /\ buf \in Nat /\ end \in Nat /\ buf <= end
    BY Ints, Zenon
  <1>4. HeaderAt = buf - stateBytes
    BY <1>1, Zenon DEF HeaderAt
  <1>5. CASE pc' = "need" /\ buf' = buf + n
    <2>1. HeaderAt' = buf' - stateBytes'
      BY <1>1, Zenon DEF HeaderAt
    <2>2. buf' - stateBytes' = buf - stateBytes
      BY <1>2, <1>3, <1>5
    <2> QED BY <1>1, <1>4, <1>5, <2>1, <2>2, SameHeader, Zenon
  <1>6. CASE pc' = Back /\ n = end - buf
    <2>1. end' - stateBytes' = buf - stateBytes
      BY <1>1, <1>2, <1>3, <1>6
    <2>2. pc' = "returned"
      BY <1>6 DEF Back, Piecewise
    <2> QED BY <1>1, <1>4, <2>1, <2>2, KeepsHeader, Zenon
  <1> QED BY <1>2, <1>5, <1>6, Zenon

LEMMA SaveHeaderPiecewise ==
  ASSUME Inv1, PieceInv, StreamInv, SaveHeader, Piecewise
  PROVE  StreamInv'
  <1>1. /\ pc = "need" /\ ~inHead /\ file' = file /\ sent' = sent
        /\ end' = end /\ state' = "header" /\ stateBytes' = end - buf /\ pc' = Back
    BY SaveHeaderIs, Zenon
  <1>2. buf \in Nat /\ end \in Nat
    BY Ints, Zenon
  <1>3. end' - stateBytes' = buf /\ HeaderAt = buf /\ pc' = "returned"
    <2>1. end' - stateBytes' = buf
      BY <1>1, <1>2
    <2>2. HeaderAt = buf
      BY <1>1, Zenon DEF HeaderAt
    <2>3. pc' = "returned"
      BY <1>1 DEF Back, Piecewise
    <2> QED BY <2>1, <2>2, <2>3, Zenon
  <1> QED BY <1>1, <1>3, KeepsHeader, Zenon

-----------------------------------------------------------------------------
(* What is read of a header is what the file has there.                    *)
InFile == FromByte(file, HeaderAt)

LEMMA CodeLength ==
  ASSUME NEW f
  PROVE  Len(Code(f)) \in Nat /\ Len(Code(f)) <= PrefixBytes(f)
         /\ PrefixBytes(f) \in {2, 4} /\ (f.kind # "pva" => PrefixBytes(f) = 4)
         /\ (f.kind = "pva" => PrefixBytes(f) = 2)
  <1>1. Len(<<65, 86>>) = 2 /\ Len(<<0, 0, 1>>) = 3
    OBVIOUS
  <1>2. CASE f.kind = "pva"
    <2>1. Code(f) = <<65, 86>> /\ PrefixBytes(f) = 2
      BY <1>2, Zenon DEF Code, PrefixBytes
    <2>2. Len(Code(f)) = 2
      BY <1>1, <2>1, Zenon
    <2> QED BY <1>2, <2>1, <2>2
  <1>3. CASE f.kind # "pva"
    <2>1. Code(f) = <<0, 0, 1>> /\ PrefixBytes(f) = 4
      BY <1>3, Zenon DEF Code, PrefixBytes
    <2>2. Len(Code(f)) = 3
      BY <1>1, <2>1, Zenon
    <2> QED BY <1>3, <2>1, <2>2
  <1> QED BY <1>2, <1>3, Zenon

LEMMA InFileIs ==
  ASSUME Inv1, PieceInv, Piecewise, Satisfied
  PROVE  /\ pc = "need" /\ Seen \in Offsets /\ InFile \in Offsets /\ Begins(Seen, InFile)
         /\ There(Seen) \in Nat /\ There(InFile) \in Nat
         /\ There(Seen) <= There(InFile) /\ need.n <= There(Seen) /\ need.n \in 1 .. 264
         /\ \A k \in Nat : k < need.n => Item(file, InFile, k) = Item(file, Seen, k)
  <1>1. pc = "need" /\ Seen \in Offsets /\ InFile \in Offsets /\ Begins(Seen, InFile)
    BY SeenBegins, HeaderIs, Zenon DEF InFile
  <1>2. There(Seen) \in Nat /\ There(InFile) \in Nat
    BY <1>1, ThereType, Zenon
  <1>3. There(Seen) >= need.n /\ need.n \in 1 .. 264
    BY HeaderIs, Zenon
  <1>4. There(Seen) <= There(InFile)
    BY <1>1, Zenon DEF Begins
  <1>5. \A k \in Nat : k < There(Seen) => Item(file, InFile, k) = Item(file, Seen, k)
    BY <1>1, ItemBegins, Zenon
  <1>6. need.n <= There(Seen)
    BY <1>2, <1>3
  <1>7. ASSUME NEW k \in Nat, k < need.n
        PROVE  k < There(Seen)
    <2> DEFINE n == need.n  t == There(Seen)
    <2>1. k < n /\ n <= t /\ n \in Nat /\ t \in Nat
      BY <1>2, <1>3, <1>6, <1>7
    <2> HIDE DEF n, t
    <2>2. k < t
      BY <2>1
    <2> QED BY <2>2, Zenon DEF t
  <1> QED BY <1>1, <1>2, <1>3, <1>4, <1>5, <1>6, <1>7, Zenon

LEMMA StartedInFile ==
  ASSUME Inv1, PieceInv, Piecewise, Satisfied, There(Seen) >= PrefixBytes(file)
  PROVE  /\ There(InFile) >= PrefixBytes(file)
         /\ StartsWith(file, InFile, Code(file)) <=> Started(file, Seen)
         /\ Started(file, InFile) <=> Started(file, Seen)
  <1> DEFINE t == There(Seen)  u == There(InFile)  p == PrefixBytes(file)
             l == Len(Code(file))
  <1>1. t \in Nat /\ u \in Nat /\ t <= u
    BY InFileIs, Zenon
  <1>2. l \in Nat /\ l <= p /\ p \in {2, 4} /\ t >= p
    BY CodeLength, Zenon
  <1> HIDE DEF t, u, p, l
  <1>3. t >= l /\ u >= p
    BY <1>1, <1>2
  <1>4. StartsWith(file, InFile, Code(file)) <=> StartsWith(file, Seen, Code(file))
    BY <1>3, InFileIs, NotTs, StartsExtends, Zenon DEF t, l
  <1> QED BY <1>3, <1>4, Zenon DEF Started, t, u, p

LEMMA IdInFile ==
  ASSUME Inv1, PieceInv, Piecewise, Satisfied, Started(file, Seen), ~Pva
  PROVE  /\ Item(file, InFile, 3) = Id /\ file.kind = "ps"
         /\ Started(file, InFile) /\ ProgramIs(file, Remaining(file), HeaderAt, InFile)
         /\ Rest(HeaderAt) = StreamFrom(file, Remaining(file), HeaderAt)
         /\ Id \in 0 .. 255
  <1>1. file.kind = "ps" /\ file \in Files
    BY NotTs, Zenon DEF Pva
  <1>2. There(Seen) >= 4 /\ There(Seen) \in Nat
    <2>1. PrefixBytes(file) = 4 /\ There(Seen) >= PrefixBytes(file)
      BY <1>1, Zenon DEF PrefixBytes, Started
    <2> QED BY <2>1, InFileIs, Zenon
  <1>3. 3 < There(Seen) /\ 3 \in Nat
    BY <1>2
  <1>4. Item(file, InFile, 3) = Id
    BY <1>3, InFileIs, ItemBegins, Zenon DEF Id
  <1>5. Id \in 0 .. 255
    BY <1>1, <1>3, InFileIs, ItemType, Zenon DEF Id
  <1>6. HeaderAt \in Nat
    BY InFileIs, HeaderPlace, Zenon
  <1>7. Started(file, InFile)
    BY StartedInFile, Zenon DEF Started
  <1>8. ProgramIs(file, Remaining(file), HeaderAt, InFile)
        /\ StreamFrom(file, Remaining(file), HeaderAt) = Remaining(file)[HeaderAt]
    BY <1>1, <1>6, ProgramAt, Zenon DEF InFile
  <1> QED BY <1>1, <1>4, <1>5, <1>7, <1>8, Zenon DEF Rest

LEMMA PvaInFile ==
  ASSUME Inv1, PieceInv, Piecewise, Satisfied, Started(file, Seen), Pva
  PROVE  Started(file, InFile) /\ file.kind = "pva"
  <1>1. Started(file, InFile)
    BY StartedInFile, Zenon DEF Started
  <1> QED BY <1>1, Zenon DEF Pva

-----------------------------------------------------------------------------
(* The steps that pass nothing on.                                         *)
LEMMA MovesOn ==
  ASSUME Inv1, PieceInv, StreamInv, Piecewise, pc = "need", pc' = "need", file' = file,
         sent' = sent, Rest(HeaderAt') = Rest(HeaderAt)
  PROVE  StreamInv'
  <1>1. Ahead' = Ahead
    BY ToHeader, InHeader, Zenon
  <1> QED BY <1>1, PassesNothing, Zenon

LEMMA NextHeaderAt ==
  ASSUME NEW from, NextHeader(from), Piecewise, pc = "need"
  PROVE  pc' = "need" /\ HeaderAt' = from /\ file' = file
  <1>1. buf' = from /\ inHead' = FALSE /\ pc' = pc /\ file' = file
    BY DEF NextHeader, Piecewise
  <1>2. HeaderAt' = buf'
    BY <1>1, Zenon DEF HeaderAt
  <1> QED BY <1>1, <1>2, Zenon

LEMMA SeekOn ==
  ASSUME Inv1, PieceInv, Piecewise, Satisfied, need.of = "prefix", ~Started(file, Seen)
  PROVE  Rest(HeaderAt) = Rest(HeaderAt + 1)
  <1>1. There(Seen) >= PrefixBytes(file)
    BY PrefixIs, Zenon
  <1>2. There(InFile) >= PrefixBytes(file) /\ ~StartsWith(file, InFile, Code(file))
    BY <1>1, StartedInFile, Zenon
  <1>3. HeaderAt \in Nat
    BY InFileIs, HeaderPlace, Zenon
  <1>4. CASE file.kind = "ps"
    <2>1. There(InFile) >= 4
      BY <1>2, <1>4, Zenon DEF PrefixBytes
    <2>2. ProgramIs(file, Remaining(file), HeaderAt, InFile)
          /\ StreamFrom(file, Remaining(file), HeaderAt) = Remaining(file)[HeaderAt]
      BY <1>3, <1>4, NotTs, ProgramAt, Zenon DEF InFile
    <2> QED BY <1>2, <2>1, <2>2, Zenon DEF ProgramIs, Rest
  <1>5. CASE file.kind = "pva"
    <2>1. There(InFile) >= 2
      BY <1>2, <1>5, Zenon DEF PrefixBytes
    <2>2. PvaIs(file, Remaining(file), HeaderAt, InFile)
          /\ StreamFrom(file, Remaining(file), HeaderAt) = Remaining(file)[HeaderAt]
      BY <1>3, <1>5, NotTs, PvaThere, Zenon DEF InFile
    <2> QED BY <1>2, <2>1, <2>2, Zenon DEF PvaIs, Rest
  <1> QED BY <1>4, <1>5, NotTs, Zenon

LEMMA NoStartPiecewise ==
  ASSUME Inv1, PieceInv, StreamInv, Piecewise, Satisfied, need.of = "prefix",
         ~Started(file, Seen), NoStart
  PROVE  StreamInv'
  <1>1. pc = "need" /\ Rest(HeaderAt) = Rest(HeaderAt + 1)
    BY SeekOn, InFileIs, Zenon
  <1>2. CASE ~inHead
    <2>1. NextHeader(buf + 1) /\ sent' = sent /\ HeaderAt = buf
      BY <1>2, Zenon DEF NoStart, Piecewise, HeaderAt
    <2>2. pc' = "need" /\ HeaderAt' = buf + 1 /\ file' = file
      BY <1>1, <2>1, NextHeaderAt, Zenon
    <2> QED BY <1>1, <2>1, <2>2, MovesOn, Zenon
  <1>3. CASE inHead
    <2>1. Drop
      BY <1>3, Zenon DEF NoStart, Piecewise
    <2>2. /\ pc' = pc /\ file' = file /\ sent' = sent /\ buf' = buf /\ inHead' = inHead
          /\ stateBytes' = stateBytes - 1
      BY <2>1 DEF Drop
    <2>3. HeaderAt = buf - stateBytes /\ HeaderAt' = buf' - stateBytes'
      BY <1>3, <2>2, Zenon DEF HeaderAt
    <2>4. buf \in Nat /\ stateBytes \in Int
      BY Ints, Zenon
    <2>5. HeaderAt' = HeaderAt + 1
      BY <2>2, <2>3, <2>4
    <2> QED BY <1>1, <2>2, <2>5, MovesOn, Zenon
  <1> QED BY <1>2, <1>3, Zenon

LEMMA MorePiecewise ==
  ASSUME Inv1, PieceInv, StreamInv, Piecewise, Satisfied, More, sent' = sent
  PROVE  StreamInv'
  <1>1. pc' = pc /\ file' = file /\ buf' = buf /\ inHead' = inHead /\ stateBytes' = stateBytes
    BY DEF More, NeedMore, statics
  <1>2. HeaderAt' = HeaderAt
    BY <1>1, Zenon DEF HeaderAt
  <1> QED BY <1>1, <1>2, InFileIs, SameHeader, Zenon

LEMMA StopPiecewise ==
  ASSUME Inv1, PieceInv, StreamInv, Piecewise, Satisfied, Started(file, Seen), ~Pva,
         Id = 185, Stop("done")
  PROVE  StreamInv'
  <1>1. pc' = "done" /\ file' = file /\ sent' = sent
    BY DEF Stop
  <1>2. Rest(HeaderAt) = <<>>
    BY IdInFile, Zenon DEF ProgramIs
  <1>3. Ahead' = <<>>
    BY <1>1, Zenon DEF Ahead
  <1>4. Ahead = <<>>
    BY <1>2, InFileIs, InHeader, Zenon
  <1> QED BY <1>1, <1>3, <1>4, PassesNothing, Zenon

LEMMA DoneIs ==
  ASSUME Inv1, PieceInv, Piecewise, Satisfied, Last
  PROVE  /\ Done(need.n) = HeaderAt + need.n /\ Done(need.n) \in 0 .. end
         /\ HeaderAt + need.n <= end /\ HeaderAt \in Nat
  <1>1. /\ inHead => stateBytes = need.n
        /\ Done(need.n) \in 0 .. end
    BY LastNeed, Zenon DEF Last
  <1>2. HeaderAt \in Nat
    BY InFileIs, HeaderPlace, Zenon
  <1>3. Done(need.n) = HeaderAt + need.n
    <2>1. CASE inHead
      <3>1. Done(need.n) = buf /\ HeaderAt = buf - stateBytes /\ stateBytes = need.n
        BY <1>1, <2>1, Zenon DEF Done, HeaderAt
      <3>2. buf \in Nat /\ stateBytes \in Int
        BY Ints, Zenon
      <3>3. HeaderAt + stateBytes = buf
        BY <3>1, <3>2
      <3> QED BY <3>1, <3>3, Zenon
    <2>2. CASE ~inHead
      BY <2>2, Zenon DEF Done, HeaderAt
    <2> QED BY <2>1, <2>2, Zenon
  <1>4. Done(need.n) <= end
    BY <1>1, Ints
  <1> QED BY <1>1, <1>2, <1>3, <1>4, Zenon

LEMMA PassOverPiecewise ==
  ASSUME Inv1, PieceInv, StreamInv, Piecewise, Satisfied, Last, PassOver,
         Rest(HeaderAt) = Rest(HeaderAt + need.n)
  PROVE  StreamInv'
  <1>1. NextHeader(Done(need.n)) /\ sent' = sent /\ pc = "need"
    BY InFileIs, Zenon DEF PassOver
  <1>2. pc' = "need" /\ HeaderAt' = HeaderAt + need.n /\ file' = file
    BY <1>1, NextHeaderAt, DoneIs, Zenon
  <1> QED BY <1>1, <1>2, MovesOn, Zenon

LEMMA PackOne ==
  ASSUME NEW f \in Files, NEW q \in Offsets, Item(f, q, 4) \div 64 = 1
  PROVE  PackLength(f, q) = 14 + (Item(f, q, 13) % 8)
  <1> DEFINE a == Item(f, q, 4)  b == Item(f, q, 13)
  <1>1. a \in 0 .. 255 /\ b \in 0 .. 255 /\ a \div 64 = 1
    BY ItemType
  <1>2. PackLength(f, q) = CASE a \div 64 = 1 -> 14 + (b % 8)
                             [] a \div 16 = 2 -> 12
                             [] OTHER -> 5
    BY DEF PackLength
  <1> HIDE DEF a, b
  <1>3. a \div 16 # 2
    BY <1>1
  <1>4. (CASE a \div 64 = 1 -> 14 + (b % 8)
           [] a \div 16 = 2 -> 12
           [] OTHER -> 5) = 14 + (b % 8)
    BY <1>1, <1>3
  <1> QED BY <1>2, <1>4 DEF b

LEMMA PackExtends ==
  ASSUME NEW f \in Files, NEW q \in Offsets, NEW r \in Offsets, Begins(q, r),
         There(q) >= PackLength(f, q)
  PROVE  PackLength(f, r) = PackLength(f, q)
  <1>1. PackLength(f, q) \in 5 .. 21 /\ There(q) \in Nat
    BY HeaderBounds, ThereType, Zenon
  <1>2. \A k \in Nat : k < There(q) => Item(f, r, k) = Item(f, q, k)
    BY ItemBegins, Zenon
  <1>3. 4 < There(q)
    BY <1>1
  <1>4. Item(f, r, 4) = Item(f, q, 4)
    BY <1>2, <1>3, Zenon
  <1>5. CASE Item(f, q, 4) \div 64 = 1
    <2>1. PackLength(f, q) = 14 + (Item(f, q, 13) % 8)
          /\ PackLength(f, r) = 14 + (Item(f, r, 13) % 8)
      <3>1. Item(f, r, 4) \div 64 = 1
        BY <1>4, <1>5, Zenon
      <3> QED BY <1>5, <3>1, PackOne, Zenon
    <2>2. Item(f, q, 13) % 8 \in 0 .. 7
      BY ItemType
    <2>3. 13 < There(q)
      BY <1>1, <2>1, <2>2
    <2>4. Item(f, r, 13) = Item(f, q, 13)
      BY <1>2, <2>3, Zenon
    <2> QED BY <2>1, <2>4, Zenon
  <1>6. CASE Item(f, q, 4) \div 64 # 1
    BY <1>4, <1>6 DEF PackLength
  <1> QED BY <1>5, <1>6, Zenon

LEMMA StreamIdPiecewise ==
  ASSUME Inv1, PieceInv, StreamInv, Piecewise, StreamId
  PROVE  StreamInv'
  <1>1. Satisfied /\ ~Pva /\ Started(file, Seen)
    BY StreamIdIs, Zenon
  <1>2. CASE More /\ sent' = sent
    BY <1>1, <1>2, MorePiecewise, Zenon
  <1>3. CASE Id = 185 /\ Stop("done")
    BY <1>1, <1>3, StopPiecewise, Zenon
  <1>4. CASE Id < 185 /\ Id # file.track /\ Needs(file, Seen) = 4 /\ need.n = 4 /\ PassOver
    <2>1. Rest(HeaderAt) = Rest(HeaderAt + 4)
      BY <1>1, <1>4, IdInFile, Zenon DEF ProgramIs, Rest
    <2>2. Last
      BY <1>4, Zenon DEF Last
    <2> QED BY <1>1, <1>4, <2>1, <2>2, PassOverPiecewise, Zenon
  <1> QED BY <1>2, <1>3, <1>4, StreamIdIs, Zenon DEF Piecewise

LEMMA PackHeaderPiecewise ==
  ASSUME Inv1, PieceInv, StreamInv, Piecewise, PackHeader
  PROVE  StreamInv'
  <1>1. Satisfied /\ Started(file, Seen) /\ Id = 186 /\ ~Pva
    BY PackHeaderIs DEF Pva
  <1>2. CASE More /\ sent' = sent
    BY <1>1, <1>2, MorePiecewise, Zenon
  <1>3. CASE Last /\ PackLength(file, Seen) = need.n /\ PassOver
    <2>1. PackLength(file, InFile) = PackLength(file, Seen)
      <3>1. There(Seen) >= PackLength(file, Seen)
        BY <1>1, <1>3, HeaderIs, Zenon
      <3> QED BY <1>1, <3>1, InFileIs, NotTs, PackExtends, Zenon
    <2>2. Rest(HeaderAt) = Rest(HeaderAt + PackLength(file, InFile))
      BY <1>1, IdInFile, Zenon DEF ProgramIs, Rest
    <2>3. Rest(HeaderAt) = Rest(HeaderAt + need.n)
      BY <1>3, <2>1, <2>2, Zenon
    <2> QED BY <1>1, <1>3, <2>3, PassOverPiecewise, Zenon
  <1> QED BY <1>2, <1>3, PackHeaderIs, Zenon DEF Last

-----------------------------------------------------------------------------
(* What follows a header.                                                  *)
LEMMA PassesBy ==
  ASSUME StreamInv, file' = file, NEW x \in Stream, NEW y \in Stream, NEW z \in Stream,
         NEW w \in Stream, sent' = (sent \o x) \o y, Ahead = (x \o (y \o z)) \o w,
         Ahead' = z \o w
  PROVE  StreamInv'
  <1>1. sent \in Stream
    BY Zenon DEF StreamInv
  <1>2. sent' = sent \o (x \o y) /\ x \o y \in Stream
    <2>1. x \o y \in Stream
      BY JoinType, Zenon
    <2>2. (sent \o x) \o y = sent \o (x \o y)
      BY <1>1, Associative, ZenonT(40)
    <2> QED BY <2>1, <2>2, Zenon
  <1>3. x \o (y \o z) = (x \o y) \o z
    BY Associative, ZenonT(40)
  <1>4. Ahead = (x \o y) \o (z \o w)
    <2>1. ((x \o y) \o z) \o w = (x \o y) \o (z \o w)
      BY <1>2, Associative, Zenon
    <2> QED BY <1>3, <2>1, Zenon
  <1>5. Ahead' \in Stream
    BY JoinType, Zenon
  <1> QED BY <1>2, <1>4, <1>5, Passes, Zenon

BytesIf(what, s) == IF what = "data" THEN s ELSE <<>>

LEMMA ContentsIs ==
  ASSUME NEW from \in Nat, NEW n \in Int, NEW what \in {"data", "skip"}, NEW before,
         Contents(from, n, what, before), Piecewise, Inv1, pc = "need", from <= end
  PROVE  /\ file' = file
         /\ \/ /\ n > end - from /\ pc' = "returned" /\ end' = end /\ state' = what
               /\ stateBytes' = n - (end - from)
               /\ sent' = IF what = "data" THEN before \o Run(from, end - from) ELSE before
            \/ /\ ~(n > end - from)
               /\ pc' = "need" /\ HeaderAt' = IF n > 0 THEN from + n ELSE from
               /\ sent' = IF what = "data" /\ n > 0 THEN before \o Run(from, n) ELSE before
  <1>1. ~Ts /\ Back = "returned" /\ end \in Nat
    BY Ints DEF Piecewise, Back
  <1>2. CASE n > end - from
    <2>1. /\ sent' = IF what = "data" THEN before \o SEND(from, end) ELSE before
          /\ state' = what /\ stateBytes' = n - (end - from) /\ pc' = Back
          /\ end' = end /\ file' = file
      BY <1>1, <1>2 DEF Contents
    <2> QED BY <1>1, <1>2, <2>1, Zenon DEF SEND
  <1>3. CASE ~(n > end - from)
    <2>1. /\ sent' = IF what = "data" /\ n > 0
                      THEN before \o SEND(from, from + n) ELSE before
          /\ NextHeader(IF n > 0 THEN from + n ELSE from)
      BY <1>1, <1>3, Zenon DEF Contents
    <2>2. (from + n) - from = n
      OBVIOUS
    <2>3. SEND(from, from + n) = Run(from, n)
      BY <2>2, Zenon DEF SEND
    <2>4. /\ pc' = "need" /\ HeaderAt' = (IF n > 0 THEN from + n ELSE from)
          /\ file' = file
      <3>1. ASSUME NEW p, NextHeader(p)
            PROVE  pc' = "need" /\ HeaderAt' = p /\ file' = file
        BY <3>1, NextHeaderAt, Zenon
      <3> DEFINE to == IF n > 0 THEN from + n ELSE from
      <3>2. NextHeader(to)
        BY <2>1, Zenon
      <3> HIDE DEF to
      <3>3. pc' = "need" /\ HeaderAt' = to /\ file' = file
        BY <3>1, <3>2, Zenon
      <3> QED BY <3>3, Zenon DEF to
    <2> QED BY <1>3, <2>1, <2>3, <2>4, Zenon
  <1> QED BY <1>2, <1>3, Zenon

LEMMA ContentsPiecewise ==
  ASSUME Inv1, PieceInv, StreamInv, Piecewise, Satisfied, Last,
         NEW all \in Nat, NEW what \in {"data", "skip"}, NEW x \in Stream,
         Contents(Done(need.n), all - need.n, what, sent \o x),
         Rest(HeaderAt) =
           (x \o BytesIf(what, Run(HeaderAt + need.n,
                                  Least(all, Length - HeaderAt) - need.n)))
           \o Rest(HeaderAt + Greatest(all, need.n))
  PROVE  StreamInv'
  <1> DEFINE h == HeaderAt  len == need.n  from == Done(need.n)  n == all - len
             rest == n - (end - from)  w == Rest(h + Greatest(all, len))
             line == Run(from, Least(all, Length - h) - len)
  <1>1. /\ pc = "need" /\ h \in Nat /\ len \in Nat /\ from = h + len /\ from \in Nat
        /\ from <= end /\ n \in Int /\ end \in Nat /\ Length \in Nat /\ end <= Length
    <2>1. h \in Nat /\ from = h + len /\ h + len <= end
      BY DoneIs, Zenon
    <2>2. pc = "need" /\ len \in 1 .. 264
      BY InFileIs, Zenon
    <2>3. end \in Nat /\ Length \in Nat /\ end <= Length
      BY Ints, Zenon
    <2>4. len \in Nat /\ n \in Int
      <3> HIDE DEF len
      <3> QED BY <2>2
    <2>5. from <= end
      BY <2>1, Zenon
    <2>6. h + len \in Nat
      <3> HIDE DEF h, len
      <3> QED BY <2>1, <2>4
    <2>7. from \in Nat
      BY <2>1, <2>6, Zenon
    <2> QED BY <2>1, <2>2, <2>3, <2>4, <2>5, <2>7, Zenon
  <1>2. /\ file' = file
        /\ \/ /\ n > end - from /\ pc' = "returned" /\ end' = end /\ state' = what
              /\ stateBytes' = n - (end - from)
              /\ sent' = IF what = "data" THEN (sent \o x) \o Run(from, end - from)
                         ELSE sent \o x
           \/ /\ ~(n > end - from)
              /\ pc' = "need" /\ HeaderAt' = IF n > 0 THEN from + n ELSE from
              /\ sent' = IF what = "data" /\ n > 0 THEN (sent \o x) \o Run(from, n)
                         ELSE sent \o x
    BY <1>1, ContentsIs, Zenon
  <1>3. /\ n > end - from =>
             /\ line = Run(from, end - from) \o Run(end, Least(rest, Length - end))
             /\ h + Greatest(all, len) = end + rest /\ rest \in Nat
        /\ ~(n > end - from) =>
             /\ line = IF n > 0 THEN Run(from, n) ELSE <<>>
             /\ h + Greatest(all, len) = IF n > 0 THEN from + n ELSE from
    <2>1. rest \in Int
      <3> HIDE DEF h, len, from, n
      <3> QED BY <1>1
    <2>2. n = all - len /\ rest = n - (end - from)
      OBVIOUS
    <2> HIDE DEF h, len, from, n, rest
    <2>3. /\ Length \in Nat /\ h \in Nat /\ len \in Nat /\ all \in Nat
          /\ end \in Nat /\ end <= Length /\ from \in Nat /\ from = h + len
          /\ from <= end /\ n \in Int /\ n = all - len /\ rest \in Int
          /\ rest = n - (end - from)
      BY <1>1, <2>1, <2>2, Zenon
    <2>4. ASSUME n > end - from
          PROVE  /\ line = Run(from, end - from) \o Run(end, Least(rest, Length - end))
                 /\ h + Greatest(all, len) = end + rest /\ rest \in Nat
      <3>1. rest \in Nat /\ h + Greatest(all, len) = end + rest
        BY <2>3, <2>4 DEF Greatest
      <3> DEFINE a == end - from  b == Least(rest, Length - end)
      <3>2. a \in Nat /\ b \in Nat
        BY <2>3, <3>1 DEF Least
      <3>3. from + a = end /\ a + b = Least(all, Length - h) - len
        BY <2>3, <2>4, <3>1 DEF Least
      <3> HIDE DEF a, b
      <3>4. Run(from, a) \o Run(from + a, b) = Run(from, a + b)
        BY <2>3, <3>2, RunSplit, ZenonT(40)
      <3>5. line = Run(from, a) \o Run(end, b)
        BY <3>3, <3>4, Zenon
      <3> QED BY <3>1, <3>5, Zenon DEF a, b
    <2>5. ASSUME ~(n > end - from)
          PROVE  /\ line = IF n > 0 THEN Run(from, n) ELSE <<>>
                 /\ h + Greatest(all, len) = IF n > 0 THEN from + n ELSE from
      <3>1. Least(all, Length - h) - len = n
        BY <2>3, <2>5 DEF Least
      <3>2. n <= 0 => Run(from, n) = <<>>
        BY <2>3, RunType, Zenon
      <3>3. h + Greatest(all, len) = IF n > 0 THEN from + n ELSE from
        BY <2>3 DEF Greatest
      <3>4. ~(n > 0) => n <= 0
        BY <2>3
      <3>5. line = Run(from, n)
        BY <3>1, Zenon
      <3> QED BY <3>2, <3>3, <3>4, <3>5, Zenon
    <2> QED BY <2>4, <2>5, Zenon
  <1>4. Ahead = (x \o BytesIf(what, line)) \o w
    BY <1>1, InHeader, Zenon
  <1>5. w \in Stream
    <2>1. h + Greatest(all, len) \in Nat
      BY <1>1 DEF Greatest
    <2> QED BY <2>1, RestType, Zenon
  <1>6. CASE n > end - from
    <2> DEFINE y == BytesIf(what, Run(from, end - from))
               z == BytesIf(what, Run(end, Least(rest, Length - end)))
    <2>1. y \in Stream /\ z \in Stream
      <3>1. Run(from, end - from) \in Stream
        <4>1. end - from \in Int
          BY <1>1
        <4> QED BY <1>1, <4>1, RunStream, Zenon
      <3>2. Run(end, Least(rest, Length - end)) \in Stream
        <4>1. Least(rest, Length - end) \in Int
          BY <1>1, <1>3, <1>6 DEF Least
        <4> QED BY <1>1, <4>1, RunStream, Zenon
      <3> QED BY <3>1, <3>2, EmptyType, Zenon DEF BytesIf
    <2>2. line = Run(from, end - from) \o Run(end, Least(rest, Length - end))
          /\ h + Greatest(all, len) = end + rest
      BY <1>3, <1>6, Zenon
    <2>3. pc' = "returned" /\ end' = end /\ state' = what /\ stateBytes' = rest
          /\ sent' = IF what = "data" THEN (sent \o x) \o Run(from, end - from) ELSE sent \o x
      BY <1>2, <1>6, Zenon
    <2>4. Ahead' = z \o w
      <3>1. what # "header"
        OBVIOUS
      <3>2. Ahead' =
              (IF what = "data" THEN Run(end, Least(rest, Length - end)) ELSE <<>>)
              \o Rest(end + rest)
        BY <1>2, <2>3, <3>1, OutOfCall, Zenon
      <3> QED BY <2>2, <3>2, Zenon DEF BytesIf
    <2>5. sent \in Stream /\ sent \o x \in Stream
      BY JoinType, Zenon DEF StreamInv
    <2>6. sent' = (sent \o x) \o y
      BY <2>3, <2>5, Empty, Zenon DEF BytesIf
    <2>7. BytesIf(what, line) = y \o z
      BY <2>2, EmptyType, Empty, Zenon DEF BytesIf
    <2>8. Ahead = (x \o (y \o z)) \o w
      BY <1>4, <2>7, Zenon
    <2> HIDE DEF y, z, w
    <2> QED BY <1>2, <1>5, <2>1, <2>4, <2>6, <2>8, PassesBy, Zenon
  <1>7. CASE ~(n > end - from)
    <2> DEFINE y == BytesIf(what, line)
    <2>1. line = (IF n > 0 THEN Run(from, n) ELSE <<>>)
          /\ h + Greatest(all, len) = (IF n > 0 THEN from + n ELSE from)
      BY <1>3, <1>7, Zenon
    <2>2. y \in Stream
      <3>1. Run(from, n) \in Stream
        BY <1>1, RunStream, Zenon
      <3> QED BY <2>1, <3>1, EmptyType, Zenon DEF BytesIf
    <2>3. /\ pc' = "need" /\ HeaderAt' = h + Greatest(all, len)
          /\ sent' = IF what = "data" /\ n > 0 THEN (sent \o x) \o Run(from, n)
                     ELSE sent \o x
      <3>1. /\ pc' = "need" /\ HeaderAt' = (IF n > 0 THEN from + n ELSE from)
            /\ sent' = IF what = "data" /\ n > 0 THEN (sent \o x) \o Run(from, n)
                       ELSE sent \o x
        BY <1>2, <1>7, Zenon
      <3> QED BY <2>1, <3>1, Zenon
    <2>4. sent \in Stream /\ sent \o x \in Stream
      BY JoinType, Zenon DEF StreamInv
    <2>5. sent' = (sent \o x) \o y
      BY <2>1, <2>3, <2>4, Empty, Zenon DEF BytesIf
    <2>6. Ahead' = w
      BY <1>1, <1>2, <2>3, ToHeader, Zenon
    <2> HIDE DEF y, w
    <2>7. Ahead' = <<>> \o w /\ y \o <<>> = y
      BY <1>5, <2>2, <2>6, Empty, Zenon
    <2>8. Ahead = (x \o (y \o <<>>)) \o w
      BY <1>4, <2>7, Zenon DEF y
    <2> QED BY <1>2, <1>5, <2>2, <2>5, <2>7, <2>8, EmptyType, PassesBy, Zenon
  <1> QED BY <1>6, <1>7, Zenon

-----------------------------------------------------------------------------
(* The packets of a program stream.                                        *)
LEMMA PesSizeInFile ==
  ASSUME Inv1, PieceInv, Piecewise, Satisfied, need.n >= 6
  PROVE  /\ PesSize(file, InFile) = PesSize(file, Seen)
         /\ PesSize(file, Seen) \in Nat /\ PesSize(file, Seen) >= 6
  <1>1. \A k \in Nat : k < need.n => Item(file, InFile, k) = Item(file, Seen, k)
    BY InFileIs, Zenon
  <1>2. 4 \in Nat /\ 5 \in Nat /\ 4 < need.n /\ 5 < need.n
    <2> DEFINE n == need.n
    <2>1. n \in 1 .. 264 /\ n >= 6
      BY InFileIs, Zenon
    <2> HIDE DEF n
    <2>2. 4 < n /\ 5 < n
      BY <2>1
    <2> QED BY <2>2 DEF n
  <1>3. Item(file, InFile, 4) = Item(file, Seen, 4)
        /\ Item(file, InFile, 5) = Item(file, Seen, 5)
    BY <1>1, <1>2, Zenon
  <1>4. PesSize(file, InFile) = PesSize(file, Seen)
    BY <1>3, Zenon DEF PesSize
  <1> QED BY <1>4, InFileIs, NotTs, SizeType, Zenon

LEMMA ContentsNothing ==
  ASSUME Inv1, PieceInv, StreamInv, Piecewise, Satisfied, Last,
         NEW all \in Nat, all >= need.n,
         Contents(Done(need.n), all - need.n, "skip", sent),
         Rest(HeaderAt) = Rest(HeaderAt + all)
  PROVE  StreamInv'
  <1>1. sent \in Stream
    BY Zenon DEF StreamInv
  <1>2. sent \o <<>> = sent
    BY <1>1, Empty, Zenon
  <1>3. Contents(Done(need.n), all - need.n, "skip", sent \o <<>>)
    BY <1>2, Zenon
  <1> DEFINE h == HeaderAt  s == Run(h + need.n, Least(all, Length - h) - need.n)
             n == need.n
  <1>4. Greatest(all, n) = all
    <2>1. n \in 1 .. 264 /\ all >= n
      BY InFileIs, Zenon
    <2> HIDE DEF n
    <2> QED BY <2>1 DEF Greatest
  <1>5. BytesIf("skip", s) = <<>>
    BY DEF BytesIf
  <1>6. h + all \in Nat
    <2>1. h \in Nat
      BY DoneIs, Zenon
    <2> HIDE DEF h
    <2> QED BY <2>1
  <1>7. Rest(h + all) \in Stream
    BY <1>6, RestType, Zenon
  <1>8. <<>> \o <<>> = <<>> /\ <<>> \o Rest(h + all) = Rest(h + all)
    BY <1>7, Empty, EmptyType, Zenon
  <1>9. Rest(h) = (<<>> \o BytesIf("skip", s)) \o Rest(h + Greatest(all, n))
    BY <1>4, <1>5, <1>8, Zenon
  <1>10. "skip" \in {"data", "skip"} /\ <<>> \in Stream
    BY EmptyType, Zenon
  <1> QED BY <1>3, <1>9, <1>10, ContentsPiecewise, Zenon

LEMMA OtherPacketPiecewise ==
  ASSUME Inv1, PieceInv, StreamInv, Piecewise, OtherPacket
  PROVE  StreamInv'
  <1>1. /\ Satisfied /\ Started(file, Seen) /\ file.kind = "ps"
        /\ Id > 186 /\ Id # file.track /\ Needs(file, Seen) = need.n /\ need.n = 6
        /\ Contents(Done(need.n), PesSize(file, Seen) - need.n, "skip", sent)
    BY OtherPacketIs, Zenon
  <1>2. ~Pva /\ need.n >= 6 /\ Last
    BY <1>1 DEF Pva, Last
  <1>3. /\ PesSize(file, InFile) = PesSize(file, Seen)
        /\ PesSize(file, Seen) \in Nat /\ PesSize(file, Seen) >= 6
    BY <1>1, <1>2, PesSizeInFile, Zenon
  <1>4. Rest(HeaderAt) = Rest(HeaderAt + PesSize(file, InFile))
    BY <1>1, <1>2, IdInFile, Zenon DEF ProgramIs, Rest
  <1> DEFINE all == PesSize(file, Seen)
  <1>5. /\ all \in Nat /\ all >= need.n /\ Rest(HeaderAt) = Rest(HeaderAt + all)
        /\ Contents(Done(need.n), all - need.n, "skip", sent)
    BY <1>1, <1>3, <1>4, Zenon
  <1> HIDE DEF all
  <1> QED BY <1>1, <1>2, <1>5, ContentsNothing, Zenon

LEMMA TagType ==
  ASSUME NEW h \in Nat
  PROVE  <<[tag |-> h]>> \in Stream
  BY DEF Stream, Event

LEMMA PesPacketPiecewise ==
  ASSUME Inv1, PieceInv, StreamInv, Piecewise, PesPacket
  PROVE  StreamInv'
  <1> DEFINE tag == IF Stamped(file, Seen) THEN TagOf(Seen) ELSE <<>>
             all == PesSize(file, Seen)  len == need.n  h == HeaderAt
  <1>1. /\ Satisfied /\ Started(file, Seen) /\ VideoHeader(file, Seen)
        /\ Needs(file, Seen) = len /\ HeaderLength(file, Seen) = len
        /\ Contents(Done(len), all - len, "data", sent \o tag)
    BY PesPacketIs, Zenon
  <1>2. ~Pva /\ Last /\ file.kind = "ps" /\ file \in Files
    <2>1. file.kind = "ps"
      BY <1>1, NotTs DEF VideoHeader
    <2> QED BY <1>1, <2>1, NotTs DEF Pva, Last
  <1>3. /\ Seen \in Offsets /\ InFile \in Offsets /\ Begins(Seen, InFile)
        /\ There(Seen) >= HeaderLength(file, Seen) /\ There(Seen) <= There(InFile)
        /\ There(Seen) \in Nat /\ There(InFile) \in Nat /\ h \in Nat
        /\ HeaderLength(file, Seen) \in 7 .. 264
    BY <1>1, <1>2, InFileIs, HeaderIs, HeaderPlace, HeaderBounds, Zenon
  <1>4. /\ HeaderLength(file, InFile) = len
        /\ Stamped(file, InFile) <=> Stamped(file, Seen)
        /\ InFile[1] = Seen[1]
    BY <1>1, <1>2, <1>3, CompleteExtends, Zenon
  <1>5. There(InFile) >= HeaderLength(file, InFile) /\ There(InFile) > 0
        /\ len \in Nat /\ len >= 6
    <2>1. /\ There(Seen) >= HeaderLength(file, Seen) /\ There(Seen) <= There(InFile)
          /\ There(Seen) \in Nat /\ There(InFile) \in Nat
          /\ HeaderLength(file, Seen) \in 7 .. 264
          /\ HeaderLength(file, InFile) = HeaderLength(file, Seen)
      BY <1>1, <1>3, <1>4, Zenon
    <2> DEFINE a == There(Seen)  b == There(InFile)  c == HeaderLength(file, Seen)
    <2>2. a \in Nat /\ b \in Nat /\ c \in 7 .. 264 /\ a >= c /\ a <= b
      BY <2>1, Zenon
    <2> HIDE DEF a, b, c
    <2>3. b >= c /\ b > 0 /\ c \in Nat /\ c >= 6
      BY <2>2
    <2> QED BY <1>1, <2>1, <2>3, Zenon DEF b, c
  <1>6. Seen[1] = h
    BY <1>2, <1>3, <1>4, <1>5, FromByteIs, Zenon DEF InFile
  <1>7. VideoHeader(file, InFile) /\ Started(file, InFile)
    BY <1>1, <1>2, IdInFile, Zenon DEF VideoHeader, Id
  <1>8. PesSize(file, InFile) = all /\ all \in Nat
    BY <1>1, <1>5, PesSizeInFile, Zenon
  <1>9. tag = (IF Stamped(file, InFile) THEN <<[tag |-> h]>> ELSE <<>>) /\ tag \in Stream
    <2>1. TagOf(Seen) = <<[tag |-> h]>>
      BY <1>6, Zenon DEF TagOf
    <2>2. <<[tag |-> h]>> \in Stream
      BY <1>3, TagType, Zenon
    <2> QED BY <1>4, <2>1, <2>2, EmptyType, Zenon
  <1>10. Rest(h) = (tag \o Run(h + len, Least(all, Length - h) - len)) \o
                   Rest(h + Greatest(all, len))
    <2>1. Remaining(file)[h] =
           ((IF Stamped(file, InFile) THEN <<[tag |-> h]>> ELSE <<>>) \o
            Run(h + HeaderLength(file, InFile),
                Least(PesSize(file, InFile), Len(file.bytes) - h)
                  - HeaderLength(file, InFile))) \o
           Remaining(file)[h + Greatest(PesSize(file, InFile), HeaderLength(file, InFile))]
      BY <1>2, <1>3, <1>5, <1>7, PesAt, Zenon DEF InFile
    <2> HIDE DEF tag, all, len, h
    <2>2. Remaining(file)[h] =
           (tag \o Run(h + len, Least(all, Len(file.bytes) - h) - len)) \o
           Remaining(file)[h + Greatest(all, len)]
      BY <1>4, <1>8, <1>9, <2>1, Zenon
    <2> QED BY <2>2, Zenon DEF Rest, Length
  <1>11. BytesIf("data", Run(h + len, Least(all, Length - h) - len)) =
           Run(h + len, Least(all, Length - h) - len)
    BY Zenon DEF BytesIf
  <1>12. "data" \in {"data", "skip"}
    BY Zenon
  <1>13. Rest(h) = (tag \o BytesIf("data", Run(h + len, Least(all, Length - h) - len))) \o
                   Rest(h + Greatest(all, len))
    BY <1>10, <1>11, Zenon
  <1> HIDE DEF tag, all
  <1> QED BY <1>1, <1>2, <1>8, <1>9, <1>12, <1>13, ContentsPiecewise, Zenon

-----------------------------------------------------------------------------
(* The packets of a PVA stream.                                            *)
LEMMA PvaSizeInFile ==
  ASSUME Inv1, PieceInv, Piecewise, Satisfied, Started(file, Seen), Pva, need.n >= 8
  PROVE  /\ PvaSize(file, InFile) = PvaSize(file, Seen)
         /\ PvaHeaderLength(file, InFile) = PvaHeaderLength(file, Seen)
         /\ Item(file, InFile, 2) = Item(file, Seen, 2)
         /\ PvaSize(file, Seen) \in Nat /\ PvaSize(file, Seen) >= 8
         /\ Started(file, InFile) /\ file.kind = "pva" /\ file \in Files
         /\ HeaderAt \in Nat /\ There(InFile) >= need.n
  <1>1. \A k \in Nat : k < need.n => Item(file, InFile, k) = Item(file, Seen, k)
    BY InFileIs, Zenon
  <1>2. \A k \in 0 .. 7 : k \in Nat /\ k < need.n
    <2> DEFINE n == need.n
    <2>1. n \in 1 .. 264 /\ n >= 8
      BY InFileIs, Zenon
    <2> HIDE DEF n
    <2>2. \A k \in 0 .. 7 : k \in Nat /\ k < n
      BY <2>1
    <2> QED BY <2>2 DEF n
  <1>3. 2 \in 0 .. 7 /\ 5 \in 0 .. 7 /\ 6 \in 0 .. 7 /\ 7 \in 0 .. 7
    OBVIOUS
  <1>4. /\ Item(file, InFile, 2) = Item(file, Seen, 2)
        /\ Item(file, InFile, 5) = Item(file, Seen, 5)
        /\ Item(file, InFile, 6) = Item(file, Seen, 6)
        /\ Item(file, InFile, 7) = Item(file, Seen, 7)
    BY <1>1, <1>2, <1>3, Zenon
  <1>5. PvaSize(file, InFile) = PvaSize(file, Seen)
    BY <1>4, Zenon DEF PvaSize
  <1>6. /\ PvaStamped(file, InFile) <=> PvaStamped(file, Seen)
        /\ PvaEarly(file, InFile) = PvaEarly(file, Seen)
    BY <1>4, Zenon DEF PvaStamped, PvaEarly
  <1>7. PvaHeaderLength(file, InFile) = PvaHeaderLength(file, Seen)
    BY <1>4, <1>6, Zenon DEF PvaHeaderLength
  <1>8. There(InFile) >= need.n /\ HeaderAt \in Nat
    <2>1. HeaderAt \in Nat
      BY InFileIs, HeaderPlace, Zenon
    <2> DEFINE n == need.n  t == There(Seen)  u == There(InFile)
    <2>2. n \in 1 .. 264 /\ t \in Nat /\ u \in Nat /\ n <= t /\ t <= u
      BY InFileIs, Zenon
    <2> HIDE DEF n, t, u
    <2>3. u >= n
      BY <2>2
    <2> QED BY <2>1, <2>3 DEF n, u
  <1> QED BY <1>4, <1>5, <1>7, <1>8, InFileIs, NotTs, SizeType, PvaInFile, Zenon

LEMMA PvaHeaderPiecewise ==
  ASSUME Inv1, PieceInv, StreamInv, Piecewise, PvaHeader
  PROVE  StreamInv'
  <1> DEFINE all == PvaSize(file, Seen)
  <1>1. Satisfied /\ Started(file, Seen) /\ Pva
    BY PvaHeaderIs, Zenon
  <1>2. CASE More /\ sent' = sent
    BY <1>1, <1>2, MorePiecewise, Zenon
  <1>3. CASE /\ Last /\ need.n = 8 /\ PvaHeaderLength(file, Seen) = 8
             /\ Contents(Done(need.n), all - need.n,
                         IF Item(file, Seen, 2) # 1 THEN "skip" ELSE "data", sent)
    <2>1. need.n >= 8
      BY <1>3
    <2>2. /\ PvaSize(file, InFile) = all
          /\ PvaHeaderLength(file, InFile) = 8
          /\ Item(file, InFile, 2) = Item(file, Seen, 2)
          /\ all \in Nat /\ all >= 8
          /\ Started(file, InFile) /\ file.kind = "pva" /\ file \in Files
          /\ HeaderAt \in Nat /\ There(InFile) >= 8
      BY <1>1, <1>3, <2>1, PvaSizeInFile, Zenon
    <2> HIDE DEF all
    <2>3. CASE Item(file, Seen, 2) # 1
      <3>1. Remaining(file)[HeaderAt] = Remaining(file)[HeaderAt + PvaSize(file, InFile)]
        BY <2>2, <2>3, PvaSkipped, Zenon DEF InFile
      <3>2. Rest(HeaderAt) = Rest(HeaderAt + all)
        BY <2>2, <3>1, Zenon DEF Rest
      <3>3. Contents(Done(need.n), all - need.n, "skip", sent)
        BY <1>3, <2>3, Zenon
      <3>4. all >= need.n
        BY <1>3, <2>2, Zenon
      <3> QED BY <1>1, <1>3, <2>2, <3>2, <3>3, <3>4, ContentsNothing, Zenon
    <2>4. CASE Item(file, Seen, 2) = 1
      <3>1. There(InFile) >= PvaHeaderLength(file, InFile) /\ Item(file, InFile, 2) = 1
        BY <2>2, <2>4, Zenon
      <3> DEFINE h == HeaderAt  line == Run(h + 8, Least(all, Length - h) - 8)
      <3>2. Remaining(file)[h] =
             ((Run(h + 12, PvaHeaderLength(file, InFile) - 12) \o
               (IF file.tags /\ PvaHeaderLength(file, InFile) > 8
                  THEN <<[tag |-> h]>> ELSE <<>>)) \o
              Run(h + PvaHeaderLength(file, InFile),
                  Least(PvaSize(file, InFile), Len(file.bytes) - h)
                    - PvaHeaderLength(file, InFile))) \o
             Remaining(file)[h + Greatest(PvaSize(file, InFile),
                                          PvaHeaderLength(file, InFile))]
        BY <2>2, <3>1, PvaAt, ZenonT(40) DEF InFile
      <3> HIDE DEF h
      <3>3. Remaining(file)[h] =
             ((Run(h + 12, 8 - 12) \o
               (IF file.tags /\ 8 > 8 THEN <<[tag |-> h]>> ELSE <<>>)) \o line) \o
             Remaining(file)[h + Greatest(all, 8)]
        BY <2>2, <3>2, Zenon DEF Length
      <3>4. Run(h + 12, 8 - 12) = <<>>
        <4>1. h + 12 \in Nat /\ 8 - 12 \in Int /\ 8 - 12 <= 0
          BY <2>2 DEF h
        <4> QED BY <4>1, RunStream, Zenon
      <3>5. (IF file.tags /\ 8 > 8 THEN <<[tag |-> h]>> ELSE <<>>) = <<>>
        OBVIOUS
      <3>6. <<>> \o <<>> = <<>> /\ <<>> \in Stream /\ sent \in Stream
        BY Empty, EmptyType, Zenon DEF StreamInv
      <3>7. Remaining(file)[h] = (<<>> \o line) \o Remaining(file)[h + Greatest(all, 8)]
        BY <3>3, <3>4, <3>5, <3>6, Zenon
      <3>8. BytesIf("data", line) = line /\ "data" \in {"data", "skip"}
        BY Zenon DEF BytesIf
      <3>9. Rest(h) = (<<>> \o BytesIf("data", line)) \o Rest(h + Greatest(all, 8))
        BY <3>7, <3>8, Zenon DEF Rest
      <3>10. sent \o <<>> = sent
        BY <3>6, Empty, Zenon
      <3>11. Contents(Done(need.n), all - need.n, "data", sent \o <<>>)
        BY <1>3, <2>4, <3>10, Zenon
      <3>12. Rest(HeaderAt) =
               (<<>> \o BytesIf("data", Run(HeaderAt + need.n,
                                           Least(all, Length - HeaderAt) - need.n)))
               \o Rest(HeaderAt + Greatest(all, need.n))
        BY <1>3, <3>9, Zenon DEF h
      <3> QED BY <1>1, <1>3, <2>2, <3>6, <3>8, <3>11, <3>12, ContentsPiecewise, Zenon
    <2> QED BY <2>3, <2>4, Zenon
  <1> QED BY <1>2, <1>3, PvaHeaderIs, Zenon DEF Last

LEMMA EarlyRun ==
  ASSUME Inv1, PieceInv, Piecewise, Satisfied, need.n >= 12
  PROVE  Sent(SubSeq(Seen, 13, need.n)) = Run(HeaderAt + 12, need.n - 12)
  <1> DEFINE n == need.n  h == HeaderAt  b == Bytes
  <1>1. n \in 1 .. 264 /\ n >= 12 /\ n <= b /\ b \in Nat /\ h \in Nat /\ Seen = Copy(b, h)
    BY InFileIs, HeaderPlace, Zenon
  <1> HIDE DEF n, h, b
  <1>2. /\ b \in Int /\ n \in Int /\ 13 \in Nat \ {0} /\ n <= b
        /\ n - 13 + 1 = n - 12 /\ h + 13 - 1 = h + 12
        /\ n - 12 \in Int /\ h + 12 \in Nat
    BY <1>1
  <1>3. SubSeq(Copy(b, h), 13, n) = Copy(n - 13 + 1, h + 13 - 1)
    BY <1>1, <1>2, SubCopy, ZenonT(40)
  <1>4. Sent(Copy(n - 12, h + 12)) = Run(h + 12, n - 12)
    BY <1>2, SentCopy, Zenon
  <1>5. SubSeq(Seen, 13, n) = Copy(n - 12, h + 12)
    BY <1>1, <1>2, <1>3, Zenon
  <1> QED BY <1>4, <1>5, Zenon DEF n, h

LEMMA PvaPacketPiecewise ==
  ASSUME Inv1, PieceInv, StreamInv, Piecewise, PvaPacket
  PROVE  StreamInv'
  <1> DEFINE early == Sent(SubSeq(Seen, 13, need.n))
             tag == IF file.tags THEN TagOf(Seen) ELSE <<>>
             all == PvaSize(file, Seen)  len == need.n  h == HeaderAt
             line == Run(h + len, Least(all, Length - h) - len)
  <1>1. /\ Satisfied /\ Started(file, Seen) /\ Pva /\ Last
        /\ PvaHeaderLength(file, Seen) = len /\ len >= 12 /\ Item(file, Seen, 2) = 1
        /\ Contents(Done(len), all - len, "data", sent \o early \o tag)
    BY PvaPacketIs, Zenon DEF Last
  <1>2. len \in Nat /\ len >= 8 /\ len > 8 /\ len - 12 \in Int
    <2>1. len \in 1 .. 264 /\ len >= 12
      BY <1>1, InFileIs, Zenon
    <2> HIDE DEF len
    <2> QED BY <2>1
  <1>3. /\ PvaSize(file, InFile) = all /\ PvaHeaderLength(file, InFile) = len
        /\ Item(file, InFile, 2) = 1 /\ all \in Nat
        /\ Started(file, InFile) /\ file.kind = "pva" /\ file \in Files
        /\ h \in Nat /\ There(InFile) >= len
    BY <1>1, <1>2, PvaSizeInFile, Zenon
  <1>4. Seen[1] = h /\ TagOf(Seen) = <<[tag |-> h]>>
    <2> DEFINE n == len
    <2>1. /\ There(InFile) >= n /\ n \in Nat /\ n > 8 /\ There(InFile) \in Nat
          /\ There(Seen) >= n /\ There(Seen) \in Nat /\ Begins(Seen, InFile)
      BY <1>1, <1>2, <1>3, InFileIs, HeaderIs, Zenon
    <2> HIDE DEF n
    <2>2. There(InFile) > 0 /\ 1 \in 1 .. There(Seen)
      BY <2>1
    <2>3. InFile[1] = h
      BY <1>3, <2>2, FromByteIs, Zenon DEF InFile
    <2>4. InFile[1] = Seen[1]
      BY <2>1, <2>2, Zenon DEF Begins
    <2> QED BY <2>3, <2>4, Zenon DEF TagOf
  <1>5. early = Run(h + 12, len - 12)
    BY <1>1, EarlyRun, Zenon
  <1>6. early \in Stream /\ tag \in Stream /\ sent \in Stream
    <2>1. h + 12 \in Nat
      <3> HIDE DEF h
      <3> QED BY <1>3
    <2>2. early \in Stream
      BY <1>2, <1>5, <2>1, RunStream, Zenon
    <2>3. <<[tag |-> h]>> \in Stream
      BY <1>3, TagType, Zenon
    <2>4. tag \in Stream
      BY <1>4, <2>3, EmptyType, Zenon
    <2> QED BY <2>2, <2>4, Zenon DEF StreamInv
  <1>7. Remaining(file)[h] =
           ((Run(h + 12, PvaHeaderLength(file, InFile) - 12) \o
             (IF file.tags /\ PvaHeaderLength(file, InFile) > 8
                THEN <<[tag |-> h]>> ELSE <<>>)) \o
            Run(h + PvaHeaderLength(file, InFile),
                Least(PvaSize(file, InFile), Len(file.bytes) - h)
                  - PvaHeaderLength(file, InFile))) \o
           Remaining(file)[h + Greatest(PvaSize(file, InFile),
                                        PvaHeaderLength(file, InFile))]
    BY <1>3, PvaAt, Zenon DEF InFile
  <1>8. tag = (IF file.tags /\ len > 8 THEN <<[tag |-> h]>> ELSE <<>>)
    BY <1>2, <1>4, Zenon
  <1> HIDE DEF early, tag, all, h, len
  <1>9. Remaining(file)[h] =
          ((early \o tag) \o Run(h + len, Least(all, Len(file.bytes) - h) - len)) \o
          Remaining(file)[h + Greatest(all, len)]
    BY <1>3, <1>5, <1>7, <1>8, Zenon
  <1>10. BytesIf("data", line) = line /\ "data" \in {"data", "skip"}
    BY Zenon DEF BytesIf
  <1>11. Rest(h) = ((early \o tag) \o BytesIf("data", line)) \o Rest(h + Greatest(all, len))
    BY <1>9, <1>10, Zenon DEF Rest, Length
  <1>12. (sent \o early) \o tag = sent \o (early \o tag) /\ early \o tag \in Stream
    BY <1>6, Associative, JoinType, Zenon
  <1>13. Contents(Done(len), all - len, "data", sent \o (early \o tag))
    BY <1>1, <1>12, Zenon
  <1>14. Rest(HeaderAt) =
           ((early \o tag) \o
            BytesIf("data", Run(HeaderAt + need.n,
                               Least(all, Length - HeaderAt) - need.n)))
           \o Rest(HeaderAt + Greatest(all, need.n))
    BY <1>11, Zenon DEF h, len
  <1>15. Contents(Done(need.n), all - need.n, "data", sent \o (early \o tag))
    BY <1>13, Zenon DEF len
  <1> QED BY <1>1, <1>3, <1>10, <1>12, <1>14, <1>15, ContentsPiecewise, Zenon

-----------------------------------------------------------------------------
(* Transport streams: what is ahead, by the packets that follow.           *)
Following(p) == Remaining(file)[p]

LEMMA EmptyIs ==
  ASSUME NEW q \in Offsets
  PROVE  There(q) = 0 <=> q = <<>>
  <1>1. CASE q = <<>>
    BY <1>1 DEF There
  <1>2. CASE q # <<>>
    <2>1. Len(q) # 0
      BY <1>2, EmptySeq, Zenon DEF Offsets
    <2> QED BY <1>2, <2>1, Zenon DEF There
  <1> QED BY <1>1, <1>2, Zenon

LEMMA FollowingType ==
  ASSUME Inv1, Ts, NEW p \in Nat
  PROVE  /\ Following(p).now \in Offsets /\ Following(p).later \in Stream
         /\ file.kind = "ts" /\ file \in Files
         /\ UnitsAre(file, Remaining(file), p)
         /\ StreamFrom(file, Remaining(file), p) = Following(p)
  <1>1. file.kind = "ts" /\ file \in Files
    BY Ints, Zenon DEF Ts
  <1> QED BY <1>1, StreamAt, UnitsFromIs, RemainingIs, Zenon DEF Following

LEMMA JoinOffsets ==
  ASSUME NEW q \in Offsets, NEW r \in Offsets
  PROVE  q \o r \in Offsets
  BY BeginsConcat, Zenon

LEMMA AssociativeOffsets ==
  ASSUME NEW s \in Offsets, NEW t \in Offsets, NEW u \in Offsets
  PROVE  (s \o t) \o u = s \o (t \o u)
  BY ConcatAssociative, SMTT(40) DEF Offsets

LEMMA CopyOffsets ==
  ASSUME NEW n \in Int, NEW p \in Nat
  PROVE  Copy(n, p) \in Offsets
  BY CopyType, Zenon DEF Offsets

(* What the transport packets after this one add to the unit begun.        *)
LEMMA OfUnitNothing ==
  ASSUME NEW f \in Files, f.kind = "ts", NEW what, NEW kept \in Offsets,
         what = "header" => Waits(f, kept)
  PROVE  OfUnit(f, what, kept, <<>>) = <<>>
  <1>1. CASE what = "header"
    <2>1. kept \o <<>> = kept
      BY EmptyOffsets, Zenon
    <2>2. Video(f, kept) = <<>>
      BY <1>1, WaitsNoVideo, Zenon
    <2> QED BY <1>1, <2>1, <2>2, Zenon DEF OfUnit
  <1>2. CASE what # "header"
    <2>1. Sent(<<>>) = <<>>
      BY DEF Sent
    <2> QED BY <1>2, <2>1, Zenon DEF OfUnit
  <1> QED BY <1>1, <1>2, Zenon

LEMMA BeforePacket ==
  Inv1 /\ Ts /\ pc \in {"read", "packet"} =>
    Ahead = OfUnit(file, state, Kept, Following(packet).now)
            \o Following(packet).later
  <1> SUFFICES ASSUME Inv1, Ts, pc \in {"read", "packet"}
               PROVE  Ahead = OfUnit(file, state, Kept, Following(packet).now)
                              \o Following(packet).later
    OBVIOUS
  <1>1. ~Es /\ pc # "done" /\ pc \notin {"need", "exit"} /\ pc # "switch"
    BY KindIs DEF Inv1
  <1>2. Ahead = AheadOfUnit
    BY <1>1 DEF Ahead
  <1>3. packet \in Nat
    BY Ints, Zenon
  <1>4. Following(packet).now \in Offsets
    BY <1>3, FollowingType, Zenon
  <1>5. Now = <<>> \o Following(packet).now
    BY <1>1, Zenon DEF Now, Units, Following
  <1>6. Now = Following(packet).now
    BY <1>4, <1>5, EmptyOffsets, Zenon
  <1> QED BY <1>2, <1>6, Zenon DEF AheadOfUnit, Units, Following

LEMMA InPacket ==
  Inv1 /\ Ts /\ pc = "switch" =>
    Ahead = OfUnit(file, state, Kept, Copy(end - buf, buf) \o Following(packet).now)
            \o Following(packet).later
  <1> SUFFICES ASSUME Inv1, Ts, pc = "switch"
               PROVE  Ahead = OfUnit(file, state, Kept, Copy(end - buf, buf) \o Following(packet).now)
                              \o Following(packet).later
    OBVIOUS
  <1>1. ~Es /\ pc # "done" /\ pc \notin {"need", "exit"}
    BY KindIs DEF Inv1
  <1>2. Ahead = AheadOfUnit
    BY <1>1 DEF Ahead
  <1> QED BY <1>2, Zenon DEF AheadOfUnit, Units, Following, Now

LEMMA InUnit ==
  Inv1 /\ Ts /\ pc \in {"need", "exit"} =>
    Ahead = OfUnit(file, "header", InPayload, Following(packet).now)
            \o Following(packet).later
  <1> SUFFICES ASSUME Inv1, Ts, pc \in {"need", "exit"}
               PROVE  Ahead = OfUnit(file, "header", InPayload, Following(packet).now)
                              \o Following(packet).later
    OBVIOUS
  <1>1. ~Es /\ pc # "done"
    BY KindIs DEF Inv1
  <1>2. Ahead = AheadInUnit
    BY <1>1 DEF Ahead
  <1> QED BY <1>2, Zenon DEF AheadInUnit, Units, Following

(* What is ahead after a step of a transport stream, by pc'.               *)
LEMMA AfterTs ==
  ASSUME Inv1', Ts, file' = file
  PROVE  /\ pc' \in {"read", "packet"} =>
              Ahead' = OfUnit(file, state', Kept', Following(packet').now)
                       \o Following(packet').later
         /\ pc' = "switch" =>
              Ahead' = OfUnit(file, state', Kept',
                              Copy(end' - buf', buf') \o Following(packet').now)
                       \o Following(packet').later
         /\ pc' \in {"need", "exit"} =>
              Ahead' = OfUnit(file, "header", InPayload', Following(packet').now)
                       \o Following(packet').later
  <1>1. Ts'
    BY SameFile, Zenon
  <1>2. (Inv1 /\ Ts /\ pc \in {"read", "packet"} =>
           Ahead = OfUnit(file, state, Kept, Following(packet).now)
                   \o Following(packet).later)'
    BY BeforePacket, PTL
  <1>3. (Inv1 /\ Ts /\ pc = "switch" =>
           Ahead = OfUnit(file, state, Kept, Copy(end - buf, buf) \o Following(packet).now)
                   \o Following(packet).later)'
    BY InPacket, PTL
  <1>4. (Inv1 /\ Ts /\ pc \in {"need", "exit"} =>
           Ahead = OfUnit(file, "header", InPayload, Following(packet).now)
                   \o Following(packet).later)'
    BY InUnit, PTL
  <1>5. Following(packet)' = Following(packet')
    BY DEF Following
  <1>6. pc' \in {"read", "packet"} =>
           Ahead' = OfUnit(file, state', Kept', Following(packet').now)
                    \o Following(packet').later
    BY <1>1, <1>2, <1>5, Zenon
  <1>7. pc' = "switch" =>
              Ahead' = OfUnit(file, state', Kept',
                              Copy(end' - buf', buf') \o Following(packet').now)
                       \o Following(packet').later
    BY <1>1, <1>3, <1>5, Zenon
  <1>8. pc' \in {"need", "exit"} =>
              Ahead' = OfUnit(file, "header", InPayload', Following(packet').now)
                       \o Following(packet').later
    BY <1>1, <1>4, <1>5, Zenon
  <1> QED BY <1>6, <1>7, <1>8, Zenon

-----------------------------------------------------------------------------
(* ts_loop.                                                                *)
LEMMA SameKept ==
  ASSUME headBuf' = headBuf, stateBytes' = stateBytes
  PROVE  Kept' = Kept
  BY Zenon DEF Kept

LEMMA FillUnits ==
  ASSUME Inv1, Inv1', StreamInv, Fill
  PROVE  StreamInv'
  <1>1. /\ pc = "read" /\ Ts /\ pc' = "packet" /\ file' = file /\ packet' = packet
        /\ sent' = sent /\ state' = state /\ stateBytes' = stateBytes
        /\ headBuf' = headBuf
    BY DEF Fill, statics
  <1>2. Ahead = OfUnit(file, state, Kept, Following(packet).now) \o Following(packet).later
    BY <1>1, BeforePacket, Zenon
  <1>3. Ahead' = OfUnit(file, state', Kept', Following(packet').now)
                 \o Following(packet').later
    BY <1>1, AfterTs, Zenon
  <1>4. Kept' = Kept
    BY <1>1, SameKept, Zenon
  <1>5. Ahead' = Ahead
    BY <1>1, <1>2, <1>3, <1>4, Zenon
  <1> QED BY <1>1, <1>5, PassesNothing, Zenon

(* A header that is not there yet passes nothing on.                       *)
LEMMA NothingNow ==
  ASSUME Inv1, Ts, Between
  PROVE  OfUnit(file, state, Kept, <<>>) = <<>>
  <1>1. file \in Files /\ file.kind = "ts"
    BY Ints, Zenon DEF Ts
  <1>2. CASE state = "header"
    <2>1. Kept \in Offsets /\ Waits(file, Kept)
      BY <1>2, KeptIs, Zenon DEF Inv1, HeaderInv
    <2> QED BY <1>1, <2>1, OfUnitNothing, Zenon
  <1>3. CASE state # "header"
    <2>1. Sent(<<>>) = <<>>
      BY DEF Sent
    <2> QED BY <1>3, <2>1, Zenon DEF OfUnit
  <1> QED BY <1>2, <1>3, Zenon

LEMMA LastPacketUnits ==
  ASSUME Inv1, Inv1', StreamInv, LastPacket
  PROVE  StreamInv'
  <1>1. /\ pc = "packet" /\ file' = file /\ packet' = packet
        /\ packet + PacketSize > FillEnd
        /\ pc' = IF FillEnd = start + size THEN "read" ELSE "done"
        /\ sent' = sent /\ state' = state /\ stateBytes' = stateBytes
        /\ headBuf' = headBuf
    BY DEF LastPacket, statics
  <1>2. Ts
    <2>1. ~Ts => pc \in {"read", "returned", "switch", "need", "done"}
      BY Zenon DEF Inv1, PlaceInv
    <2> QED BY <1>1, <2>1
  <1>3. Ahead = OfUnit(file, state, Kept, Following(packet).now) \o Following(packet).later
    BY <1>1, <1>2, BeforePacket, Zenon
  <1>4. CASE FillEnd = start + size
    <2>1. pc' = "read"
      BY <1>1, <1>4, Zenon
    <2>2. Ahead' = OfUnit(file, state', Kept', Following(packet').now)
                   \o Following(packet').later
      BY <1>1, <1>2, <2>1, AfterTs, Zenon
    <2>3. Ahead' = Ahead
      BY <1>1, <1>3, <2>2, SameKept, Zenon
    <2> QED BY <1>1, <2>3, PassesNothing, Zenon
  <1>5. CASE FillEnd # start + size
    <2>1. pc' = "done"
      BY <1>1, <1>5, Zenon
    <2>2. Length \in Nat /\ start \in Nat /\ size \in Nat /\ packet \in Nat
          /\ PacketSize \in Nat /\ Length = Len(file.bytes)
      BY Ints, KindIs, Zenon DEF Inv1
    <2>3. packet + PacketSize > Length
      BY <1>1, <1>5, <2>2 DEF FillEnd, Least
    <2>4. Following(packet) = Nothing
      <3>1. UnitsAre(file, Remaining(file), packet)
            /\ StreamFrom(file, Remaining(file), packet) = Following(packet)
        BY <1>2, <2>2, FollowingType, Zenon
      <3>2. packet + PacketSize > Len(file.bytes)
        BY <2>2, <2>3, Zenon
      <3> QED BY <3>1, <3>2, Zenon DEF UnitsAre
    <2>5. Following(packet).now = <<>> /\ Following(packet).later = <<>>
      BY <2>4 DEF Nothing
    <2>6. Between
      BY <1>1 DEF Between
    <2>7. Ahead = <<>> \o <<>>
      BY <1>2, <1>3, <2>5, <2>6, NothingNow, Zenon
    <2>8. Ahead' = <<>>
      BY <2>1, Zenon DEF Ahead
    <2>9. Ahead' = Ahead
      BY <2>7, <2>8, Empty, EmptyType, Zenon
    <2> QED BY <1>1, <2>9, PassesNothing, Zenon
  <1> QED BY <1>4, <1>5, Zenon

LEMMA PacketUnits ==
  ASSUME Inv1, Inv1', StreamInv, Packet
  PROVE  StreamInv'
  <1> DEFINE g == Remaining(file)  now == Following(packet).now
             later == Following(packet).later
             now2 == Following(packet').now  later2 == Following(packet').later
  <1>1. /\ pc = "packet" /\ Ts /\ file' = file /\ inHead' = FALSE
        /\ state' = state /\ stateBytes' = stateBytes /\ headBuf' = headBuf
        /\ sent' = sent /\ packet + PacketSize <= Length
        /\ packet' = packet + (IF At(packet) = 71 THEN PacketSize ELSE 1)
        /\ IF Wanted(packet)
             THEN /\ buf' = Payload(packet) /\ end' = packet'
                  /\ pc' = IF PayloadStart(packet) THEN "need" ELSE "switch"
             ELSE pc' = pc /\ buf' = buf /\ end' = end
    BY PacketIs, Zenon
  <1>2. /\ At(packet) = Field(file, packet, 0) /\ Payload(packet) = Body(file, packet)
        /\ Wanted(packet) <=> At(packet) = 71 /\ Mine(file, packet)
        /\ PayloadStart(packet) <=> (Field(file, packet, 1) \div 64) % 2 # 0
        /\ Body(file, packet) \in Nat
    BY <1>1, PacketBytes, Zenon
  <1>3. Ahead = OfUnit(file, state, Kept, now) \o later
    BY <1>1, BeforePacket, Zenon
  <1>4. Kept' = Kept
    BY <1>1, SameKept, Zenon
  <1>5. /\ packet \in Nat /\ PacketSize \in Nat /\ packet' \in Nat
        /\ ~(packet + PacketSize > Len(file.bytes))
    <2>1. packet \in Nat /\ PacketSize \in Nat /\ Length = Len(file.bytes) /\ Length \in Nat
      BY Ints, KindIs, Zenon DEF Inv1
    <2>2. packet' \in Nat
      BY <2>1, <1>1
    <2>3. ~(packet + PacketSize > Length)
      BY <2>1, <1>1
    <2> QED BY <2>1, <2>2, <2>3, Zenon
  <1>6. UnitsAre(file, g, packet) /\ StreamFrom(file, g, packet) = Following(packet)
    BY <1>1, <1>5, FollowingType, Zenon
  <1>7. file \in Files /\ file.kind = "ts" /\ now2 \in Offsets /\ later2 \in Stream
        /\ now \in Offsets /\ later \in Stream
    BY <1>1, <1>5, FollowingType, Zenon
  <1>8. Following(packet') = g[packet']
    BY Zenon DEF Following
  <1>9. CASE ~Wanted(packet)
    <2>1. Following(packet) = Following(packet')
      <3>1. CASE At(packet) = 71
        <4>1. packet' = packet + PacketSize
          BY <1>1, <3>1, Zenon
        <4>2. ~Mine(file, packet) /\ Field(file, packet, 0) = 71
          BY <1>2, <1>9, <3>1, Zenon
        <4> QED BY <1>5, <1>6, <1>8, <4>1, <4>2, Zenon DEF UnitsAre
      <3>2. CASE At(packet) # 71
        <4>1. packet' = packet + 1
          BY <1>1, <3>2, Zenon
        <4>2. Field(file, packet, 0) # 71
          BY <1>2, <3>2, Zenon
        <4> QED BY <1>5, <1>6, <1>8, <4>1, <4>2, Zenon DEF UnitsAre
      <3> QED BY <3>1, <3>2, Zenon
    <2>2. pc' = "packet"
      BY <1>1, <1>9, Zenon
    <2>3. Ahead' = OfUnit(file, state', Kept', now2) \o later2
      BY <1>1, <2>2, AfterTs, Zenon
    <2>4. Ahead' = Ahead
      BY <1>1, <1>3, <1>4, <2>1, <2>3, Zenon
    <2> QED BY <1>1, <2>4, PassesNothing, Zenon
  <1>10. ASSUME Wanted(packet)
         PROVE  /\ packet' = packet + PacketSize /\ Mine(file, packet)
                /\ Field(file, packet, 0) = 71
                /\ Copy(end' - buf', buf') = BodyOf(file, packet)
                /\ BodyOf(file, packet) \in Offsets
    <2>1. packet' = packet + PacketSize /\ Mine(file, packet) /\ Field(file, packet, 0) = 71
      BY <1>1, <1>2, <1>10, Zenon
    <2>2. buf' = Body(file, packet) /\ end' = packet + PacketSize
      BY <1>1, <1>2, <1>10, <2>1, Zenon
    <2>3. Copy(end' - buf', buf') = BodyOf(file, packet)
      <3> DEFINE b == Body(file, packet)
      <3>1. b \in Nat
        BY <1>2, Zenon
      <3> HIDE DEF b
      <3>2. (packet + PacketSize) - b = packet + (PacketSize - b)
        BY <1>5, <3>1
      <3> QED BY <2>2, <3>2, Zenon DEF BodyOf, b
    <2> QED BY <1>5, <1>7, <2>1, <2>3, BodyType, Zenon
  <1>11. CASE Wanted(packet) /\ ~PayloadStart(packet)
    <2>1. pc' = "switch"
      BY <1>1, <1>11, Zenon
    <2>2. (Field(file, packet, 1) \div 64) % 2 = 0
      BY <1>2, <1>11, Zenon
    <2>3. Following(packet) =
            [now |-> BodyOf(file, packet) \o g[packet + PacketSize].now,
             later |-> g[packet + PacketSize].later]
      BY <1>5, <1>6, <1>10, <1>11, <2>2, Zenon DEF UnitsAre
    <2>4. now = BodyOf(file, packet) \o g[packet + PacketSize].now
          /\ later = g[packet + PacketSize].later
      BY <2>3
    <2>5. now = BodyOf(file, packet) \o now2 /\ later = later2
      BY <1>8, <1>10, <1>11, <2>4, Zenon
    <2>6. Ahead' = OfUnit(file, state', Kept', Copy(end' - buf', buf') \o now2) \o later2
      BY <1>1, <2>1, AfterTs, Zenon
    <2> HIDE DEF now, later, now2, later2
    <2>7. Ahead' = Ahead
      BY <1>1, <1>3, <1>4, <1>10, <1>11, <2>5, <2>6, Zenon
    <2> QED BY <1>1, <2>7, PassesNothing, Zenon
  <1>12. CASE Wanted(packet) /\ PayloadStart(packet)
    <2> DEFINE body == BodyOf(file, packet)
    <2>1. pc' = "need"
      BY <1>1, <1>12, Zenon
    <2>2. (Field(file, packet, 1) \div 64) % 2 # 0
      BY <1>2, <1>12, Zenon
    <2>3. Following(packet) =
            [now |-> <<>>,
             later |-> (IF body = <<>> THEN <<>>
                        ELSE Video(file, body \o g[packet + PacketSize].now))
                       \o g[packet + PacketSize].later]
      BY <1>5, <1>6, <1>10, <1>12, <2>2, Zenon DEF UnitsAre
    <2>4. /\ now = <<>>
          /\ later = (IF body = <<>> THEN <<>>
                      ELSE Video(file, body \o g[packet + PacketSize].now))
                     \o g[packet + PacketSize].later
      <3> DEFINE b == (IF body = <<>> THEN <<>>
                       ELSE Video(file, body \o g[packet + PacketSize].now))
                      \o g[packet + PacketSize].later
      <3>1. Following(packet) = [now |-> <<>>, later |-> b]
        BY <2>3, Zenon
      <3> HIDE DEF b
      <3>2. now = <<>> /\ later = b
        BY <3>1
      <3> QED BY <3>2, Zenon DEF b
    <2>5. /\ now = <<>>
          /\ later = (IF body = <<>> THEN <<>> ELSE Video(file, body \o now2)) \o later2
      BY <1>8, <1>10, <1>12, <2>4, Zenon
    <2>6. Ahead' = OfUnit(file, "header", InPayload', now2) \o later2
      BY <1>1, <2>1, AfterTs, Zenon
    <2>7. InPayload' = body
      <3>1. Seen' = Copy(end' - buf', buf')
        BY <1>1, Zenon DEF Seen
      <3>2. InPayload' = Seen' \o <<>>
        BY <1>1, Zenon DEF InPayload
      <3> HIDE DEF body
      <3>3. Seen' = body /\ body \in Offsets
        BY <1>10, <1>12, <3>1, Zenon DEF body
      <3> QED BY <3>2, <3>3, EmptyOffsets, Zenon
    <2> HIDE DEF now, later, now2, later2, body
    <2>8. Ahead = <<>> \o later
      <3>1. Between
        BY <1>1 DEF Between
      <3> QED BY <1>1, <1>3, <2>5, <3>1, NothingNow, Zenon
    <2>9. OfUnit(file, "header", body, now2) =
            IF body = <<>> THEN <<>> ELSE Video(file, body \o now2)
      <3>1. There(body) = 0 <=> body = <<>>
        BY <1>10, <1>12, EmptyIs, Zenon DEF body
      <3> QED BY <3>1, Zenon DEF OfUnit
    <2>10. Ahead' = later
      BY <2>5, <2>6, <2>7, <2>9, Zenon
    <2>11. Ahead' = Ahead
      BY <1>7, <2>8, <2>10, Empty, Zenon DEF later
    <2> QED BY <1>1, <2>11, PassesNothing, Zenon
  <1> QED BY <1>9, <1>11, <1>12, Zenon

-----------------------------------------------------------------------------
(* demux, called with a packet of a transport stream.                      *)
LEMMA PacketRest ==
  ASSUME Inv1, Ts
  PROVE  /\ Copy(end - buf, buf) \in Offsets /\ There(Copy(end - buf, buf)) = end - buf
         /\ Sent(Copy(end - buf, buf)) = Run(buf, end - buf)
         /\ Run(buf, end - buf) \in Stream
         /\ Following(packet).now \in Offsets /\ Following(packet).later \in Stream
         /\ file \in Files /\ file.kind = "ts"
         /\ buf \in Nat /\ end \in Nat /\ end - buf \in Int /\ end - buf \in Nat
  <1>1. buf \in Nat /\ end \in Nat /\ buf <= end /\ packet \in Nat
    BY Ints, Zenon
  <1>2. end - buf \in Int /\ end - buf \in Nat
        /\ (IF end - buf > 0 THEN end - buf ELSE 0) = end - buf
    BY <1>1
  <1>3. Copy(end - buf, buf) \in Offsets
    BY <1>1, <1>2, CopyOffsets, Zenon
  <1>4. There(Copy(end - buf, buf)) = end - buf
    BY <1>1, <1>2, CopyType, Zenon DEF There
  <1>5. Sent(Copy(end - buf, buf)) = Run(buf, end - buf)
    BY <1>1, <1>2, SentCopy, Zenon
  <1>6. Run(buf, end - buf) \in Stream
    BY <1>1, <1>2, RunStream, Zenon
  <1> QED BY <1>1, <1>2, <1>3, <1>4, <1>5, <1>6, FollowingType, Zenon

LEMMA SentJoin ==
  ASSUME NEW q \in Offsets, NEW r \in Offsets
  PROVE  Sent(q \o r) = Sent(q) \o Sent(r)
  BY SentConcat, Zenon DEF Offsets

LEMMA SwitchUnits ==
  ASSUME Inv1, Inv1', PieceInv, StreamInv, Switch, Ts
  PROVE  StreamInv'
  <1> DEFINE c == Copy(end - buf, buf)  now == Following(packet).now
             later == Following(packet).later
  <1>1. /\ pc = "switch" /\ file' = file /\ packet' = packet /\ end' = end
        /\ headBuf' = headBuf /\ inHead' = (state = "header" /\ stateBytes > 0)
    BY SwitchIs, Zenon
  <1>2. Ahead = OfUnit(file, state, Kept, c \o now) \o later
    BY <1>1, InPacket, Zenon
  <1>3. /\ c \in Offsets /\ Sent(c) = Run(buf, end - buf) /\ Sent(c) \in Stream
        /\ now \in Offsets /\ later \in Stream
    BY PacketRest, Zenon
  <1> HIDE DEF c, now, later
  <1>4. CASE /\ state = "header" /\ ~(Ts /\ stateBytes = 0) /\ buf' = buf /\ sent' = sent
             /\ pc' = "need" /\ stateBytes' = stateBytes
    <2>1. Kept \in Offsets /\ There(Kept) = stateBytes /\ stateBytes \in Nat
      BY <1>4, KeptIs, Zenon DEF Inv1
    <2>2. stateBytes # 0 /\ stateBytes > 0
      BY <1>4, <2>1
    <2>3. Seen' = Kept /\ inHead'
      <3>1. inHead' = TRUE
        BY <1>1, <1>4, <2>2, Zenon
      <3>2. Seen' = Kept'
        BY <3>1, Zenon DEF Seen, Kept
      <3> QED BY <1>1, <1>4, <3>1, <3>2, SameKept, Zenon
    <2>4. InPayload' = Kept \o c
      <3>1. InPayload' = Seen' \o Copy(end' - buf', buf')
        BY <2>3, Zenon DEF InPayload
      <3> QED BY <1>1, <1>4, <2>3, <3>1, Zenon DEF c
    <2>5. Ahead' = OfUnit(file, "header", Kept \o c, now) \o later
      BY <1>1, <1>4, <2>4, AfterTs, Zenon DEF now, later
    <2>6. (Kept \o c) \o now = Kept \o (c \o now)
      BY <1>3, <2>1, AssociativeOffsets, Zenon
    <2>7. There(Kept) # 0 /\ There(Kept \o c) # 0
      <3>1. Kept \o c \in Offsets /\ There(Kept) <= There(Kept \o c)
        BY <1>3, <2>1, BeginsConcat, Zenon DEF Begins
      <3>2. There(Kept \o c) \in Nat
        BY <3>1, ThereType, Zenon
      <3> QED BY <2>1, <2>2, <3>1, <3>2
    <2>8. OfUnit(file, "header", Kept \o c, now) = OfUnit(file, state, Kept, c \o now)
      BY <1>4, <2>6, <2>7, Zenon DEF OfUnit
    <2> QED BY <1>1, <1>2, <1>4, <2>5, <2>8, PassesNothing, Zenon
  <1>5. CASE /\ state = "header" /\ stateBytes = 0 /\ sent' = sent
             /\ pc' = "packet" /\ state' = "skip" /\ stateBytes' = stateBytes
    <2>1. There(Kept) = 0
      BY <1>5, KeptIs, Zenon DEF Inv1
    <2>2. OfUnit(file, state, Kept, c \o now) = <<>>
      BY <1>5, <2>1, Zenon DEF OfUnit
    <2>3. Ahead' = OfUnit(file, state', Kept', now) \o later
      BY <1>1, <1>5, AfterTs, Zenon DEF now, later
    <2>4. state' # "header" /\ state' # "data"
      BY <1>5
    <2>5. OfUnit(file, state', Kept', now) = <<>>
      BY <2>4, Zenon DEF OfUnit
    <2> QED BY <1>1, <1>2, <1>5, <2>2, <2>3, <2>5, PassesNothing, Zenon
  <1>6. CASE /\ state # "header" /\ pc' = Back /\ state' = state
             /\ sent' = IF state = "data" THEN sent \o Run(buf, end - buf) ELSE sent
    <2>1. pc' = "packet"
      BY <1>6, Zenon DEF Back
    <2>2. Ahead' = OfUnit(file, state', Kept', now) \o later
      BY <1>1, <2>1, AfterTs, Zenon DEF now, later
    <2>3. CASE state = "data"
      <3>1. "data" # "header"
        OBVIOUS
      <3>2. OfUnit(file, state, Kept, c \o now) = Sent(c) \o Sent(now)
            /\ OfUnit(file, state', Kept', now) = Sent(now)
        BY <1>3, <1>6, <2>3, <3>1, SentJoin, Zenon DEF OfUnit
      <3>3. Sent(now) \in Stream
        BY <1>3, SentStream, Zenon
      <3>4. Ahead = Sent(c) \o Ahead' /\ Ahead' \in Stream
        <4>1. (Sent(c) \o Sent(now)) \o later = Sent(c) \o (Sent(now) \o later)
          BY <1>3, <3>3, Associative, Zenon
        <4> QED BY <1>2, <1>3, <2>2, <3>2, <3>3, <4>1, JoinType, Zenon
      <3>5. sent' = sent \o Sent(c)
        BY <1>3, <1>6, <2>3, Zenon
      <3> QED BY <1>1, <1>3, <3>4, <3>5, Passes, Zenon
    <2>4. CASE state # "data"
      <3>1. OfUnit(file, state, Kept, c \o now) = <<>>
            /\ OfUnit(file, state', Kept', now) = <<>>
        BY <1>6, <2>4, Zenon DEF OfUnit
      <3> QED BY <1>1, <1>2, <1>6, <2>2, <2>4, <3>1, PassesNothing, Zenon
    <2> QED BY <2>3, <2>4, Zenon
  <1> QED BY <1>4, <1>5, <1>6, SwitchIs, Zenon

LEMMA InPayloadIs ==
  ASSUME Inv1, Ts, pc = "need"
  PROVE  /\ InPayload \in Offsets /\ Seen \in Offsets /\ Begins(Seen, InPayload)
         /\ InPayload = Seen \o (IF inHead THEN Copy(end - buf, buf) ELSE <<>>)
         /\ ~inHead => InPayload = Seen
  <1>1. Seen \in Offsets
    BY SeenIs, Zenon DEF Inv1
  <1>2. InPayload = Seen \o (IF inHead THEN Copy(end - buf, buf) ELSE <<>>)
    BY Zenon DEF InPayload
  <1>3. (IF inHead THEN Copy(end - buf, buf) ELSE <<>>) \in Offsets
    BY PacketRest, EmptyType, Zenon
  <1>4. InPayload \in Offsets /\ Begins(Seen, InPayload)
    BY <1>1, <1>2, <1>3, BeginsConcat, Zenon
  <1>5. ~inHead => InPayload = Seen
    BY <1>1, <1>2, EmptyOffsets, Zenon
  <1> QED BY <1>1, <1>2, <1>4, <1>5, Zenon

LEMMA NeedBytesUnits ==
  ASSUME Inv1, Inv1', StreamInv, NeedBytes, Ts
  PROVE  StreamInv'
  <1> DEFINE c == Copy(end - buf, buf)  now == Following(packet).now
             later == Following(packet).later
  <1>1. /\ pc = "need" /\ inHead /\ file' = file /\ packet' = packet /\ end' = end
        /\ state' = "header" /\ inHead' = inHead /\ sent' = sent
        /\ Seen = Kept /\ Seen \in Offsets /\ There(Seen) = stateBytes
        /\ Kept' = headBuf' /\ Seen' = headBuf'
    BY NeedBytesIs, Zenon
  <1>2. PICK n \in 0 .. end - buf :
          /\ headBuf' = Seen \o Copy(n, buf)
          /\ \/ pc' = "need" /\ buf' = buf + n
             \/ pc' = Back /\ n = end - buf
    BY NeedBytesIs, Zenon
  <1>3. Ahead = OfUnit(file, "header", InPayload, now) \o later
    BY <1>1, InUnit, Zenon
  <1>4. InPayload = Seen \o c
    BY <1>1, InPayloadIs, Zenon
  <1>5. c \in Offsets /\ now \in Offsets /\ buf \in Nat /\ end \in Nat
    BY PacketRest, Zenon
  <1>6. CASE pc' = "need" /\ buf' = buf + n
    <2> DEFINE m == end - (buf + n)
    <2>1. n \in Nat /\ m \in Nat /\ m \in Int /\ n \in Int /\ n + m = end - buf
          /\ buf + n \in Nat
      BY <1>2, <1>5
    <2>2. InPayload' = (Seen \o Copy(n, buf)) \o Copy(m, buf + n)
      <3>1. InPayload' = Seen' \o Copy(end' - buf', buf')
        BY <1>1, Zenon DEF InPayload
      <3> QED BY <1>1, <1>2, <1>6, <3>1, Zenon
    <2> HIDE DEF m
    <2>3. Copy(n, buf) \in Offsets /\ Copy(m, buf + n) \in Offsets
      BY <1>5, <2>1, CopyOffsets, Zenon
    <2>4. Copy(n, buf) \o Copy(m, buf + n) = c
      <3>1. Copy(n, buf) \o Copy(m, buf + n) = Copy(n + m, buf)
        BY <1>5, <2>1, CopySplit, Zenon
      <3> QED BY <2>1, <3>1, Zenon
    <2>5. InPayload' = InPayload
      <3>1. (Seen \o Copy(n, buf)) \o Copy(m, buf + n) =
              Seen \o (Copy(n, buf) \o Copy(m, buf + n))
        BY <1>1, <2>3, AssociativeOffsets, Zenon
      <3> QED BY <1>4, <2>2, <2>4, <3>1, Zenon
    <2>6. Ahead' = OfUnit(file, "header", InPayload', now) \o later
      BY <1>1, <1>6, AfterTs, Zenon
    <2> QED BY <1>1, <1>3, <2>5, <2>6, PassesNothing, Zenon
  <1>7. CASE pc' = Back /\ n = end - buf
    <2>1. pc' = "packet"
      BY <1>7, Zenon DEF Back
    <2>2. Kept' = InPayload
      BY <1>1, <1>2, <1>4, <1>7, Zenon
    <2>3. Ahead' = OfUnit(file, state', Kept', now) \o later
      BY <1>1, <2>1, AfterTs, Zenon
    <2> QED BY <1>1, <1>3, <2>2, <2>3, PassesNothing, Zenon
  <1> QED BY <1>2, <1>6, <1>7, Zenon

LEMMA SaveHeaderUnits ==
  ASSUME Inv1, Inv1', StreamInv, SaveHeader, Ts
  PROVE  StreamInv'
  <1> DEFINE now == Following(packet).now  later == Following(packet).later
  <1>1. /\ pc = "need" /\ ~inHead /\ file' = file /\ packet' = packet /\ sent' = sent
        /\ state' = "header" /\ pc' = Back /\ Seen = headBuf' /\ Kept' = headBuf'
    BY SaveHeaderIs, Zenon
  <1>2. Ahead = OfUnit(file, "header", InPayload, now) \o later
    BY <1>1, InUnit, Zenon
  <1>3. InPayload = Kept'
    BY <1>1, InPayloadIs, Zenon
  <1>4. pc' = "packet"
    BY <1>1, Zenon DEF Back
  <1>5. Ahead' = OfUnit(file, state', Kept', now) \o later
    BY <1>1, <1>4, AfterTs, Zenon
  <1> QED BY <1>1, <1>2, <1>3, <1>5, PassesNothing, Zenon

(* A transport unit that is no packet of video, and what follows a header  *)
(* there.                                                                  *)
LEMMA NoStartUnits ==
  ASSUME Inv1, Inv1', StreamInv, Ts, Satisfied, need.of = "prefix",
         ~Started(file, Seen), NoStart
  PROVE  StreamInv'
  <1> DEFINE now == Following(packet).now  later == Following(packet).later
  <1>1. /\ pc = "need" /\ pc' = "packet" /\ state' = "skip" /\ file' = file
        /\ packet' = packet /\ sent' = sent
    <2>1. NextHeader(buf) /\ sent' = sent
      BY Zenon DEF NoStart
    <2>2. pc = "need"
      BY HeaderIs, Zenon
    <2> QED BY <2>1, <2>2 DEF NextHeader, Back
  <1>2. Ahead = OfUnit(file, "header", InPayload, now) \o later
    BY <1>1, InUnit, Zenon
  <1>3. Ahead' = OfUnit(file, state', Kept', now) \o later
    BY <1>1, AfterTs, Zenon
  <1>4. OfUnit(file, state', Kept', now) = <<>>
    <2>1. state' # "header" /\ state' # "data"
      BY <1>1
    <2> QED BY <2>1, Zenon DEF OfUnit
  <1>5. Video(file, InPayload \o now) = <<>>
    <2>1. /\ file \in Files /\ file.kind = "ts" /\ now \in Offsets
          /\ Seen \in Offsets /\ InPayload \in Offsets /\ Begins(Seen, InPayload)
      BY <1>1, PacketRest, InPayloadIs, Zenon
    <2> HIDE DEF now
    <2>2. /\ InPayload \o now \in Offsets /\ Begins(InPayload, InPayload \o now)
      BY <2>1, BeginsConcat, Zenon
    <2>3. There(Seen) >= PrefixBytes(file)
      BY PrefixIs, Zenon
    <2>4. There(Seen) >= Len(Code(file)) /\ There(InPayload) >= Len(Code(file))
      <3> DEFINE t == There(Seen)  u == There(InPayload)  l == Len(Code(file))
                 p == PrefixBytes(file)
      <3>1. t \in Nat /\ u \in Nat /\ t <= u /\ l \in Nat /\ l <= p /\ p \in {2, 4} /\ t >= p
        BY <2>1, <2>3, ThereType, CodeLength, Zenon DEF Begins
      <3> HIDE DEF t, u, l, p
      <3>2. t >= l /\ u >= l
        BY <3>1
      <3> QED BY <3>2, Zenon DEF t, u, l
    <2>5. ~StartsWith(file, Seen, Code(file))
      BY <2>3, Zenon DEF Started
    <2>6. ~StartsWith(file, InPayload, Code(file))
      BY <2>1, <2>4, <2>5, StartsExtends, Zenon
    <2>7. ~StartsWith(file, InPayload \o now, Code(file))
      BY <2>1, <2>2, <2>4, <2>6, StartsExtends, Zenon
    <2> QED BY <2>1, <2>2, <2>7, NoPrefixNothing, Zenon
  <1>6. OfUnit(file, "header", InPayload, now) = <<>>
    BY <1>5, Zenon DEF OfUnit
  <1> QED BY <1>1, <1>2, <1>3, <1>4, <1>6, PassesNothing, Zenon

LEMMA SameUnits ==
  ASSUME Inv1, Inv1', StreamInv, Ts, pc = "need", pc' \in {"need", "exit"}, file' = file,
         sent' = sent, packet' = packet, InPayload' = InPayload
  PROVE  StreamInv'
  <1>1. Ahead = OfUnit(file, "header", InPayload, Following(packet).now)
                \o Following(packet).later
    BY InUnit, Zenon
  <1>2. Ahead' = OfUnit(file, "header", InPayload', Following(packet').now)
                 \o Following(packet').later
    BY AfterTs, Zenon
  <1>3. Ahead' = Ahead
    BY <1>1, <1>2, Zenon
  <1> QED BY <1>3, PassesNothing, Zenon

LEMMA SamePayload ==
  ASSUME buf' = buf, end' = end, inHead' = inHead, headBuf' = headBuf,
         stateBytes' = stateBytes
  PROVE  InPayload' = InPayload
  <1>1. Seen' = Seen
    BY Zenon DEF Seen
  <1>2. InPayload' = Seen' \o (IF inHead' THEN Copy(end' - buf', buf') ELSE <<>>)
    BY DEF InPayload
  <1> QED BY <1>1, <1>2, Zenon DEF InPayload

LEMMA MoreUnits ==
  ASSUME Inv1, Inv1', StreamInv, Ts, Satisfied, More, sent' = sent
  PROVE  StreamInv'
  <1>1. /\ pc' = pc /\ file' = file /\ buf' = buf /\ inHead' = inHead /\ end' = end
        /\ stateBytes' = stateBytes /\ headBuf' = headBuf /\ packet' = packet
    BY DEF More, NeedMore, statics
  <1>2. pc = "need"
    BY HeaderIs, Zenon
  <1> QED BY <1>1, <1>2, SamePayload, SameUnits, Zenon

LEMMA StopUnits ==
  ASSUME Inv1, Inv1', StreamInv, Ts, Satisfied, Stop("exit")
  PROVE  StreamInv'
  <1>1. /\ pc' = "exit" /\ file' = file /\ buf' = buf /\ inHead' = inHead /\ end' = end
        /\ stateBytes' = stateBytes /\ headBuf' = headBuf /\ packet' = packet
        /\ sent' = sent
    BY DEF Stop, statics
  <1>2. pc = "need"
    BY HeaderIs, Zenon
  <1> QED BY <1>1, <1>2, SamePayload, SameUnits, Zenon

LEMMA PesPacketUnits ==
  ASSUME Inv1, Inv1', StreamInv, Ts, PesPacket
  PROVE  StreamInv'
  <1> DEFINE tag == IF Stamped(file, Seen) THEN TagOf(Seen) ELSE <<>>
             all == PesSize(file, Seen)  len == need.n  from == Done(need.n)
             now == Following(packet).now  later == Following(packet).later
             line == Run(from, end - from)
             c == IF inHead THEN Copy(end - buf, buf) ELSE <<>>
  <1>1. /\ Satisfied /\ Started(file, Seen) /\ Last
        /\ HeaderLength(file, Seen) = len
        /\ Contents(from, all - len, "data", sent \o tag)
    BY PesPacketIs, Zenon DEF Last
  <1>2. /\ pc = "need" /\ Seen \in Offsets /\ There(Seen) >= HeaderLength(file, Seen)
        /\ len \in 1 .. 264 /\ There(Seen) \in Nat /\ There(Seen) = Bytes
    BY <1>1, HeaderIs, Zenon
  <1>3. /\ file' = file /\ packet' = packet /\ pc' = "packet" /\ state' = "data"
        /\ sent' = (sent \o tag) \o line
    <2> HIDE DEF tag, all, len, from
    <2> QED BY <1>1 DEF Contents, Back, SEND
  <1>4. /\ file \in Files /\ file.kind = "ts" /\ now \in Offsets /\ later \in Stream
        /\ c \in Offsets /\ buf \in Nat /\ end \in Nat /\ buf <= end
    BY PacketRest, EmptyType, Ints, Zenon
  <1>5. Sent(From(Seen, len)) \o Sent(c \o now) = line \o Sent(now) /\ line \in Stream
    <2>1. Sent(now) \in Stream /\ Sent(c \o now) \in Stream
      BY <1>4, JoinOffsets, SentStream, Zenon
    <2>2. CASE inHead
      <3>1. stateBytes = len /\ from = buf
        BY <1>1, <2>2, LastNeed, Zenon DEF Last, Done
      <3>2. There(Seen) = len
        BY <1>2, <2>2, <3>1, Zenon DEF Bytes
      <3>3. From(Seen, len) = <<>>
        <4>1. len \in Nat /\ len >= Len(Seen)
          BY <1>2, <3>2 DEF There
        <4> QED BY <1>2, <4>1, FromAny, Zenon DEF Offsets
      <3>4. Sent(<<>>) = <<>>
        BY DEF Sent
      <3>5. c = Copy(end - buf, buf)
        BY <2>2, Zenon
      <3>6. Sent(c) = line /\ line \in Stream
        BY <3>1, <3>5, PacketRest, Zenon
      <3>7. Sent(c \o now) = line \o Sent(now)
        BY <1>4, <3>6, SentJoin, Zenon
      <3>8. <<>> \o Sent(c \o now) = Sent(c \o now)
        BY <2>1, Empty, Zenon
      <3> QED BY <3>3, <3>4, <3>6, <3>7, <3>8, Zenon
    <2>3. CASE ~inHead
      <3>1. Seen = Copy(end - buf, buf) /\ c = <<>> /\ from = buf + len
        BY <2>3, Zenon DEF Seen, Done
      <3> DEFINE m == end - buf  n == len
      <3>2. m \in Int /\ n \in Nat /\ buf + n \in Nat /\ m - n = end - (buf + n)
            /\ m - n \in Int
        <4>1. n \in 1 .. 264
          BY <1>2, Zenon
        <4> HIDE DEF n
        <4> QED BY <1>4, <4>1
      <3> HIDE DEF m, n
      <3>3. From(Copy(m, buf), n) = Copy(m - n, buf + n)
        BY <1>4, <3>2, FromCopy, Zenon
      <3>4. Sent(Copy(m - n, buf + n)) = Run(buf + n, m - n)
        BY <3>2, SentCopy, Zenon
      <3>5. Run(buf + n, m - n) \in Stream
        BY <3>2, RunStream, Zenon
      <3>6. line = Run(buf + n, m - n)
        BY <3>1, <3>2, Zenon DEF n
      <3>7. Sent(From(Seen, len)) = line
        BY <3>1, <3>3, <3>4, <3>6, Zenon DEF m, n
      <3>8. c \o now = now
        BY <1>4, <3>1, EmptyOffsets, Zenon
      <3> QED BY <3>5, <3>6, <3>7, <3>8, Zenon
    <2> QED BY <2>2, <2>3, Zenon
  <1>6. Ahead = OfUnit(file, "header", InPayload, now) \o later
    BY <1>2, InUnit, Zenon
  <1>7. InPayload = Seen \o c
    BY <1>2, InPayloadIs, Zenon
  <1>8. There(InPayload) # 0
    <2>1. There(Seen) <= There(InPayload) /\ There(InPayload) \in Nat
      BY <1>2, InPayloadIs, ThereType, Zenon DEF Begins
    <2>2. HeaderLength(file, Seen) \in 1 .. 264
      BY <1>1, <1>2, Zenon
    <2> QED BY <1>2, <2>1, <2>2
  <1>9. tag \in Stream
    <2>1. There(Seen) >= 1
      <3>1. HeaderLength(file, Seen) \in 1 .. 264
        BY <1>1, <1>2, Zenon
      <3> QED BY <1>2, <3>1
    <2>2. TagOf(Seen) = Stamp(Seen)
      BY Zenon DEF TagOf, Stamp
    <2> QED BY <1>2, <2>1, <2>2, StampType, EmptyType, Zenon
  <1>10. Video(file, InPayload \o now) = tag \o (line \o Sent(now))
    <2>1. c \o now \in Offsets
      BY <1>4, JoinOffsets, Zenon
    <2>2. InPayload \o now = Seen \o (c \o now)
      BY <1>2, <1>4, <1>7, AssociativeOffsets, Zenon
    <2>3. tag = IF Stamped(file, Seen) THEN Stamp(Seen) ELSE <<>>
      BY Zenon DEF TagOf, Stamp
    <2> HIDE DEF c, now, tag
    <2>4. Video(file, Seen \o (c \o now)) =
            (IF Stamped(file, Seen) THEN Stamp(Seen) ELSE <<>>) \o
            (Sent(From(Seen, HeaderLength(file, Seen))) \o Sent(c \o now))
      BY <1>1, <1>2, <1>4, <2>1, VideoIs, Zenon
    <2> QED BY <1>1, <1>5, <2>2, <2>3, <2>4, Zenon
  <1>11. Ahead' = Sent(now) \o later
    <2>1. Ahead' = OfUnit(file, state', Kept', now) \o later
      BY <1>3, AfterTs, Zenon
    <2>2. state' = "data" /\ state' # "header"
      BY <1>3
    <2> QED BY <2>1, <2>2, Zenon DEF OfUnit
  <1>12. Sent(now) \in Stream
    BY <1>4, SentStream, Zenon
  <1>13. Ahead = (tag \o (line \o Sent(now))) \o later
    <2>1. OfUnit(file, "header", InPayload, now) = Video(file, InPayload \o now)
      BY <1>8, Zenon DEF OfUnit
    <2> QED BY <1>6, <1>10, <2>1, Zenon
  <1> HIDE DEF tag, line, now, later
  <1> QED BY <1>3, <1>4, <1>5, <1>9, <1>11, <1>12, <1>13, PassesBy, Zenon

-----------------------------------------------------------------------------
(* All steps.                                                              *)
LEMMA HeaderActionStream ==
  ASSUME Inv1, Inv1', PieceInv, StreamInv, HeaderAction
  PROVE  StreamInv'
  <1>1. Satisfied /\ ~Es
    BY HeaderActionIs, HeaderIs, Zenon
  <1>2. CASE Ts
    <2>1. ~Pva /\ file.kind # "ps"
      BY <1>2, KindIs DEF Inv1, Ts
    <2>2. CASE NoPrefix
      BY <1>2, <2>2, NoPrefixIs, NoStartUnits, Zenon
    <2>3. CASE StreamId
      BY <1>2, <2>3, StreamIdIs, MoreUnits, StopUnits, Zenon
    <2>4. CASE PackHeader
      BY <2>1, <2>4, PackHeaderIs, Zenon
    <2>5. CASE OtherPacket
      BY <2>1, <2>5, OtherPacketIs, Zenon
    <2>6. CASE PesHeader
      BY <1>2, <2>6, PesHeaderIs, MoreUnits, Zenon
    <2>7. CASE PesPacket
      BY <1>2, <2>7, PesPacketUnits, Zenon
    <2>8. CASE PvaPrefix \/ PvaHeader \/ PvaPacket
      BY <2>1, <2>8, Zenon DEF PvaPrefix, PvaHeader, PvaPacket
    <2> QED BY <2>2, <2>3, <2>4, <2>5, <2>6, <2>7, <2>8, Zenon DEF HeaderAction
  <1>3. CASE ~Ts
    <2>1. Piecewise
      BY <1>1, <1>3, Zenon DEF Piecewise
    <2>2. CASE NoPrefix
      BY <2>1, <2>2, NoPrefixIs, NoStartPiecewise, Zenon
    <2>3. CASE StreamId
      BY <2>1, <2>3, StreamIdPiecewise, Zenon
    <2>4. CASE PackHeader
      BY <2>1, <2>4, PackHeaderPiecewise, Zenon
    <2>5. CASE OtherPacket
      BY <2>1, <2>5, OtherPacketPiecewise, Zenon
    <2>6. CASE PesHeader
      BY <2>1, <2>6, PesHeaderIs, MorePiecewise, Zenon
    <2>7. CASE PesPacket
      BY <2>1, <2>7, PesPacketPiecewise, Zenon
    <2>8. CASE PvaPrefix
      BY <2>1, <2>8, PvaPrefixIs, NoStartPiecewise, MorePiecewise, Zenon
    <2>9. CASE PvaHeader
      BY <2>1, <2>9, PvaHeaderPiecewise, Zenon
    <2>10. CASE PvaPacket
      BY <2>1, <2>10, PvaPacketPiecewise, Zenon
    <2> QED BY <2>2, <2>3, <2>4, <2>5, <2>6, <2>7, <2>8, <2>9, <2>10, Zenon
            DEF HeaderAction
  <1> QED BY <1>2, <1>3, Zenon

LEMMA SameStream ==
  ASSUME StreamInv, vars' = vars
  PROVE  StreamInv'
  <1>1. /\ file' = file /\ pc' = pc /\ buf' = buf /\ end' = end /\ state' = state
        /\ stateBytes' = stateBytes /\ headBuf' = headBuf /\ inHead' = inHead
        /\ sent' = sent /\ packet' = packet
    BY DEF vars, statics
  <1>2. Ahead' = Ahead
    <2>1. /\ Seen' = Seen /\ Kept' = Kept /\ Position' = Position /\ HeaderAt' = HeaderAt
          /\ Length' = Length /\ Units' = Units /\ Es' = Es /\ Ts' = Ts
      BY <1>1 DEF Seen, Kept, Position, HeaderAt, Length, Units, Es, Ts
    <2>2. /\ Now' = Now /\ InPayload' = InPayload
      BY <1>1, <2>1 DEF Now, InPayload
    <2>3. /\ AheadInHeader' = AheadInHeader /\ AheadOfCall' = AheadOfCall
      BY <1>1, <2>1 DEF AheadInHeader, AheadOfCall
    <2>4. /\ AheadOfUnit' = AheadOfUnit /\ AheadInUnit' = AheadInUnit
      BY <1>1, <2>1, <2>2 DEF AheadOfUnit, AheadInUnit
    <2> QED BY <1>1, <2>1, <2>3, <2>4 DEF Ahead
  <1> QED BY <1>1, <1>2, PassesNothing, Zenon

LEMMA StreamStep ==
  ASSUME Inv1, PieceInv, StreamInv, [Next]_vars
  PROVE  StreamInv'
  <1>1. Inv1'
    BY Inv1Step, Zenon
  <1>2. pc = "need" \/ pc = "switch" => ~Es
    <2>1. Es => pc \in {"read", "returned", "done"}
      BY Zenon DEF Inv1, PlaceInv
    <2> QED BY <2>1
  <1>3. CASE Read
    BY <1>3, ReadEs, ReadPiecewise, Zenon DEF Read, Piecewise
  <1>4. CASE Returned
    BY <1>4, ReturnedEs, ReturnedPiecewise, Zenon DEF Returned, Piecewise
  <1>5. CASE Fill
    BY <1>1, <1>5, FillUnits, Zenon
  <1>6. CASE Packet
    BY <1>1, <1>6, PacketUnits, Zenon
  <1>7. CASE LastPacket
    BY <1>1, <1>7, LastPacketUnits, Zenon
  <1>8. CASE Switch
    BY <1>1, <1>2, <1>8, SwitchUnits, SwitchPiecewise, Zenon DEF Switch, Piecewise
  <1>9. CASE NeedBytes
    BY <1>1, <1>2, <1>9, NeedBytesUnits, NeedBytesPiecewise, Zenon DEF NeedBytes, Piecewise
  <1>10. CASE SaveHeader
    BY <1>1, <1>2, <1>10, SaveHeaderUnits, SaveHeaderPiecewise, Zenon
       DEF SaveHeader, Piecewise
  <1>11. CASE HeaderAction
    BY <1>1, <1>11, HeaderActionStream, Zenon
  <1>12. CASE vars' = vars
    BY <1>12, SameStream, Zenon
  <1> QED BY <1>3, <1>4, <1>5, <1>6, <1>7, <1>8, <1>9, <1>10, <1>11, <1>12, Zenon
          DEF Next, HeaderAction

(* The initial state: everything is ahead, and nothing was passed on.      *)
LEMMA StreamIs ==
  ASSUME NEW f \in Files
  PROVE  ElementaryStream[f] =
           IF f.kind = "ts" THEN Remaining(f)[0].later ELSE Remaining(f)[0]
  BY Zenon DEF ElementaryStream

LEMMA InitStream ==
  Init => StreamInv
  <1> SUFFICES ASSUME Init PROVE StreamInv
    OBVIOUS
  <1>1. /\ file \in Files /\ pc = "read" /\ buf = 0 /\ end = 0 /\ packet = 0
        /\ state = "skip" /\ stateBytes = 0 /\ sent = <<>>
    BY DEF Init
  <1>2. Inv1
    BY InitInv1, Zenon
  <1>3. Length \in Nat /\ 0 \in Nat
    BY <1>2, Ints
  <1>4. Ahead \in Stream /\ Ahead = ElementaryStream[file]
    <2>1. CASE Es
      <3>1. Ahead = Run(0, Length - 0)
        BY <1>1, <2>1 DEF Ahead
      <3>2. Remaining(file)[0] = StreamFrom(file, Remaining(file), 0)
        BY <1>1, <1>3, RemainingIs, Zenon
      <3>3. file.kind = "es" /\ file.kind # "ts"
        BY <2>1 DEF Es
      <3>4. StreamFrom(file, Remaining(file), 0) = Sent(FromByte(file, 0))
        BY <3>3 DEF StreamFrom
      <3>5. Sent(Copy(Length - 0, 0)) = Run(0, Length - 0) /\ Run(0, Length - 0) \in Stream
        <4>1. Length - 0 \in Int
          BY <1>3
        <4> QED BY <1>3, <4>1, SentCopy, RunStream, Zenon
      <3>6. FromByte(file, 0) = Copy(Length - 0, 0)
        BY Zenon DEF FromByte, Length
      <3> QED BY <1>1, <3>1, <3>2, <3>3, <3>4, <3>5, <3>6, StreamIs, Zenon
    <2>2. CASE Ts
      <3>1. state # "header" /\ state # "data"
        BY <1>1
      <3>2. OfUnit(file, state, Kept, Following(packet).now) = <<>>
        BY <3>1, Zenon DEF OfUnit
      <3>3. Ahead = <<>> \o Following(0).later
        BY <1>1, <1>2, <2>2, <3>2, BeforePacket, Zenon
      <3>4. Following(0).later \in Stream /\ file.kind = "ts"
        BY <1>2, <1>3, <2>2, FollowingType, Zenon
      <3> QED BY <1>1, <3>3, <3>4, Empty, StreamIs, Zenon DEF Following
    <2>3. CASE Piecewise
      <3>1. Ahead = AheadOfCall /\ Position = 0 /\ state # "header" /\ state # "data"
        BY <1>1, <2>3, AheadCall DEF Position
      <3>2. 0 + stateBytes = 0
        BY <1>1
      <3>3. Ahead = <<>> \o Remaining(file)[0]
        BY <3>1, <3>2, Zenon DEF AheadOfCall
      <3>4. Remaining(file)[0] \in Stream /\ file.kind # "ts"
        BY <1>2, <1>3, <2>3, RestType, NotTs, Zenon DEF Rest
      <3> QED BY <1>1, <3>3, <3>4, Empty, StreamIs, Zenon
    <2> QED BY <2>1, <2>2, <2>3, Zenon DEF Piecewise
  <1>5. sent \in Stream /\ sent \o Ahead = Ahead
    BY <1>1, <1>4, Empty, EmptyType, Zenon
  <1> QED BY <1>4, <1>5, Zenon DEF StreamInv

(* What was passed on is a prefix of the elementary stream, and at the end *)
(* all of it.                                                              *)
LEMMA PrefixOf ==
  ASSUME NEW s \in Stream, NEW t \in Stream
  PROVE  Len(s) <= Len(s \o t) /\ SubSeq(s \o t, 1, Len(s)) = s
  <1>1. s \in Seq(Event) /\ t \in Seq(Event)
    BY Zenon DEF Stream
  <1>2. /\ s \o t \in Seq(Event) /\ Len(s \o t) = Len(s) + Len(t)
        /\ \A i \in 1 .. Len(s) + Len(t) : (s \o t)[i] =
             IF i <= Len(s) THEN s[i] ELSE t[i - Len(s)]
    BY <1>1, ConcatProperties, Zenon
  <1>3. Len(s) \in Nat /\ Len(t) \in Nat
    BY <1>1, LenProperties, Zenon
  <1>4. Len(s) <= Len(s \o t) /\ Len(s) \in 0 .. Len(s \o t)
    BY <1>2, <1>3
  <1>5. /\ SubSeq(s \o t, 1, Len(s)) \in Seq(Event)
        /\ Len(SubSeq(s \o t, 1, Len(s))) = Len(s)
        /\ \A k \in 1 .. Len(s) : SubSeq(s \o t, 1, Len(s))[k] = (s \o t)[k]
    BY <1>2, <1>4, TakeType, Zenon
  <1>6. \A k \in 1 .. Len(s) : k \in 1 .. Len(s) + Len(t) /\ k <= Len(s)
    BY <1>3
  <1>7. \A k \in 1 .. Len(s) : SubSeq(s \o t, 1, Len(s))[k] = s[k]
    BY <1>2, <1>5, <1>6, Zenon
  <1>8. SubSeq(s \o t, 1, Len(s)) = s
    BY <1>1, <1>5, <1>7, SeqEqual, Zenon
  <1> QED BY <1>4, <1>8, Zenon

LEMMA StreamHolds ==
  StreamInv => AsInOnePiece
  <1> SUFFICES ASSUME StreamInv PROVE AsInOnePiece
    OBVIOUS
  <1>1. sent \in Stream /\ Ahead \in Stream /\ sent \o Ahead = ElementaryStream[file]
    BY Zenon DEF StreamInv
  <1>2. /\ Len(sent) <= Len(ElementaryStream[file])
        /\ SubSeq(ElementaryStream[file], 1, Len(sent)) = sent
    <2>1. Len(sent) <= Len(sent \o Ahead) /\ SubSeq(sent \o Ahead, 1, Len(sent)) = sent
      BY <1>1, PrefixOf, Zenon
    <2> QED BY <1>1, <2>1, Zenon
  <1>3. ASSUME pc = "done" PROVE sent = ElementaryStream[file]
    <2>1. Ahead = <<>>
      BY <1>3, Zenon DEF Ahead
    <2>2. sent \o <<>> = sent
      BY <1>1, Empty, Zenon
    <2> QED BY <1>1, <2>1, <2>2, Zenon
  <1> QED BY <1>2, <1>3, Zenon DEF AsInOnePiece

(* For any file, cut into pieces of any size: what was passed on to        *)
(* decode_mpeg2 or written is the beginning of the elementary stream that  *)
(* the file holds, byte by byte, with the tags where they belong; when the *)
(* file ends it is all of it, AsInOnePiece. No header is lost, taken twice *)
(* or misread because a piece ends within it (mpeg2dec.c:359-765 and       *)
(* extract_mpeg2.c:101-445).                                               *)
THEOREM CutAnywhere == Spec => []AsInOnePiece
  <1>1. Init => Inv1 /\ PieceInv /\ StreamInv
    BY InitInv1, InitPiece, InitStream, Zenon
  <1>2. (Inv1 /\ PieceInv /\ StreamInv) /\ [Next]_vars => (Inv1 /\ PieceInv /\ StreamInv)'
    <2> SUFFICES ASSUME Inv1, PieceInv, StreamInv, [Next]_vars
                 PROVE  Inv1' /\ PieceInv' /\ StreamInv'
      OBVIOUS
    <2> QED BY Inv1Step, PieceStep, StreamStep, Zenon
  <1>3. Inv1 /\ PieceInv /\ StreamInv => AsInOnePiece
    BY StreamHolds, Zenon
  <1> QED BY <1>1, <1>2, <1>3, PTL DEF Spec
-----------------------------------------------------------------------------
(* How much there is left to do, as a list of numbers of which the first   *)
(* that changes counts: what is still to be read; where in a turn of the   *)
(* loops the program is; and in a call, the bytes after buf, whether there *)
(* is a header in head_buf, what can still be asked for of it, and its     *)
(* length.                                                                 *)
Front == IF Ts THEN packet ELSE end
ToRead ==
  (Length - start) + (Length - Front) + (IF pc = "read" /\ start = Front THEN 1 ELSE 0)
Stage ==
  CASE pc = "switch" -> 4
    [] pc = "need" -> 3
    [] pc \in {"packet", "returned"} -> 2
    [] pc = "read" -> 1
    [] pc \in {"done", "exit"} -> 0
Left ==
  IF pc = "need"
    THEN <<ToRead, Stage, end - buf, IF inHead THEN 1 ELSE 0,
           Rank(need.n, need.of), IF inHead THEN stateBytes ELSE 0>>
    ELSE <<ToRead, Stage, 0, 0, 0, 0>>
LeftOK == \A k \in 1 .. 6 : Left[k] \in Nat
UsesUp == \E k \in 1 .. 6 : Left'[k] < Left[k] /\ \A j \in 1 .. k - 1 : Left'[j] = Left[j]

(* A buffer holds most of two transport packets, and the loops never go    *)
(* back in the file.                                                       *)
BufferInv == (Ts => size >= 2 * PacketSize - 2) /\ start <= Front

LEMMA Lower1 ==
  ToRead' < ToRead => UsesUp
  <1> SUFFICES ASSUME ToRead' < ToRead PROVE UsesUp
    OBVIOUS
  <1>1. Left[1] = ToRead /\ Left'[1] = ToRead'
    BY DEF Left
  <1>2. Left'[1] < Left[1] /\ \A j \in 1 .. 1 - 1 : Left'[j] = Left[j]
    BY <1>1
  <1>3. 1 \in 1 .. 6
    OBVIOUS
  <1> QED BY <1>2, <1>3, Zenon DEF UsesUp

LEMMA Lower2 ==
  ToRead' = ToRead /\ Stage' < Stage => UsesUp
  <1> SUFFICES ASSUME ToRead' = ToRead, Stage' < Stage PROVE UsesUp
    OBVIOUS
  <1>1. /\ Left[1] = ToRead /\ Left'[1] = ToRead'
        /\ Left[2] = Stage /\ Left'[2] = Stage'
    BY DEF Left
  <1>2. Left'[2] < Left[2] /\ \A j \in 1 .. 2 - 1 : Left'[j] = Left[j]
    BY <1>1
  <1>3. 2 \in 1 .. 6
    OBVIOUS
  <1> QED BY <1>2, <1>3, Zenon DEF UsesUp

Staying == ToRead' = ToRead /\ pc = "need" /\ pc' = "need"

LEMMA LeftInCall ==
  ASSUME Staying
  PROVE  /\ Left[1] = ToRead /\ Left'[1] = ToRead /\ Left[2] = 3 /\ Left'[2] = 3
         /\ Left[3] = end - buf /\ Left'[3] = end' - buf'
         /\ Left[4] = (IF inHead THEN 1 ELSE 0) /\ Left'[4] = (IF inHead' THEN 1 ELSE 0)
         /\ Left[5] = Rank(need.n, need.of) /\ Left'[5] = Rank(need'.n, need'.of)
         /\ Left[6] = (IF inHead THEN stateBytes ELSE 0)
         /\ Left'[6] = (IF inHead' THEN stateBytes' ELSE 0)
  BY DEF Staying, Left, Stage

LEMMA Lower3 ==
  Staying /\ end' - buf' < end - buf => UsesUp
  <1> SUFFICES ASSUME Staying, end' - buf' < end - buf PROVE UsesUp
    OBVIOUS
  <1>1. /\ Left'[1] = Left[1] /\ Left'[2] = Left[2] /\ Left'[3] < Left[3]
    BY LeftInCall, Zenon
  <1>2. \A j \in 1 .. 3 - 1 : j = 1 \/ j = 2
    OBVIOUS
  <1>3. 3 \in 1 .. 6
    OBVIOUS
  <1> QED BY <1>1, <1>2, <1>3, Zenon DEF UsesUp

LEMMA Lower4 ==
  Staying /\ end' - buf' = end - buf /\ inHead /\ ~inHead' => UsesUp
  <1> SUFFICES ASSUME Staying, end' - buf' = end - buf, inHead, ~inHead' PROVE UsesUp
    OBVIOUS
  <1>1. /\ Left'[1] = Left[1] /\ Left'[2] = Left[2] /\ Left'[3] = Left[3]
    BY LeftInCall, Zenon
  <1>2. Left'[4] = 0 /\ Left[4] = 1
    BY LeftInCall, Zenon
  <1>3. Left'[4] < Left[4]
    BY <1>2
  <1>4. \A j \in 1 .. 4 - 1 : j = 1 \/ j = 2 \/ j = 3
    OBVIOUS
  <1>5. 4 \in 1 .. 6
    OBVIOUS
  <1> QED BY <1>1, <1>3, <1>4, <1>5, Zenon DEF UsesUp

LEMMA Lower5 ==
  Staying /\ end' - buf' = end - buf /\ inHead' = inHead
    /\ Rank(need'.n, need'.of) < Rank(need.n, need.of) => UsesUp
  <1> SUFFICES ASSUME Staying, end' - buf' = end - buf, inHead' = inHead,
                      Rank(need'.n, need'.of) < Rank(need.n, need.of)
               PROVE UsesUp
    OBVIOUS
  <1>1. /\ Left'[1] = Left[1] /\ Left'[2] = Left[2] /\ Left'[3] = Left[3]
        /\ Left'[5] < Left[5]
    BY LeftInCall, Zenon
  <1>2. Left'[4] = Left[4]
    BY LeftInCall
  <1>3. \A j \in 1 .. 5 - 1 : j = 1 \/ j = 2 \/ j = 3 \/ j = 4
    OBVIOUS
  <1>4. 5 \in 1 .. 6
    OBVIOUS
  <1> QED BY <1>1, <1>2, <1>3, <1>4, Zenon DEF UsesUp

LEMMA Lower6 ==
  Staying /\ end' - buf' = end - buf /\ inHead /\ inHead' /\ need' = need
    /\ stateBytes' < stateBytes => UsesUp
  <1> SUFFICES ASSUME Staying, end' - buf' = end - buf, inHead, inHead', need' = need,
                      stateBytes' < stateBytes
               PROVE UsesUp
    OBVIOUS
  <1>1. /\ Left'[1] = Left[1] /\ Left'[2] = Left[2] /\ Left'[3] = Left[3]
        /\ Left'[5] = Left[5]
    BY LeftInCall, Zenon
  <1>2. Left'[4] = Left[4] /\ Left'[6] < Left[6]
    BY LeftInCall
  <1>3. \A j \in 1 .. 6 - 1 : j = 1 \/ j = 2 \/ j = 3 \/ j = 4 \/ j = 5
    OBVIOUS
  <1>4. 6 \in 1 .. 6
    OBVIOUS
  <1> QED BY <1>1, <1>2, <1>3, <1>4, Zenon DEF UsesUp

(* Within a turn of the loops nothing is read.                             *)
LEMMA SameToRead ==
  ASSUME file' = file, start' = start, packet' = packet, end' = end,
         pc # "read", pc' # "read"
  PROVE  ToRead' = ToRead
  <1>1. Length' = Length /\ Ts' = Ts
    BY SameFile, Zenon
  <1>2. Front' = Front
    BY <1>1 DEF Front
  <1> QED BY <1>1, <1>2, Zenon DEF ToRead

(* A turn of the loops: each reads on.                                     *)
LEMMA ReadUses ==
  ASSUME Inv1, BufferInv, Read
  PROVE  UsesUp
  <1>1. /\ pc = "read" /\ ~Ts /\ file' = file /\ start' = end
        /\ end' = Least(end + size, Length) /\ pc' # "read"
    BY DEF Read
  <1>2. Length' = Length /\ Ts' = Ts
    BY <1>1, SameFile, Zenon
  <1>3. end \in Nat /\ end <= Length /\ Length \in Nat /\ size \in Nat /\ start \in Nat
    BY LengthType, DemuxAssumption DEF Inv1, TypeInv
  <1>4. Front = end /\ Front' = end' /\ start <= end
    BY <1>1, <1>2 DEF Front, BufferInv
  <1>5. end' \in Nat /\ end <= end' /\ end' <= Length
    BY <1>1, <1>3 DEF Least
  <1>6. /\ ToRead' = (Length - end) + (Length - end') + 0
        /\ ToRead = (Length - start) + (Length - end) + (IF start = end THEN 1 ELSE 0)
    BY <1>1, <1>2, <1>4 DEF ToRead
  <1> DEFINE e == end'  l == Length
  <1>7. (l - end) + (l - e) + 0 < (l - start) + (l - end) + (IF start = end THEN 1 ELSE 0)
    <2>1. /\ e \in Nat /\ end <= e /\ e <= l /\ end \in Nat /\ l \in Nat
          /\ start \in Nat /\ start <= end
      BY <1>3, <1>4, <1>5
    <2> HIDE DEF e, l
    <2> QED BY <2>1
  <1>8. ToRead' < ToRead
    BY <1>6, <1>7, Zenon
  <1> QED BY <1>8, Lower1, Zenon

LEMMA FillUses ==
  ASSUME Inv1, BufferInv, Fill
  PROVE  UsesUp
  <1>1. /\ pc = "read" /\ Ts /\ file' = file /\ start' = packet
        /\ packet' = packet /\ pc' # "read"
    BY DEF Fill
  <1>2. Length' = Length /\ Ts' = Ts
    BY <1>1, SameFile, Zenon
  <1>3. packet \in Nat /\ packet <= Length /\ Length \in Nat /\ start \in Nat
    BY LengthType DEF Inv1, TypeInv
  <1>4. Front = packet /\ Front' = packet /\ start <= packet
    BY <1>1, <1>2 DEF Front, BufferInv
  <1>5. /\ ToRead' = (Length - packet) + (Length - packet) + 0
        /\ ToRead = (Length - start) + (Length - packet) + (IF start = packet THEN 1 ELSE 0)
    BY <1>1, <1>2, <1>4 DEF ToRead
  <1>6. ToRead' < ToRead
    BY <1>3, <1>4, <1>5
  <1> QED BY <1>6, Lower1, Zenon

LEMMA PacketUses ==
  ASSUME Inv1, BufferInv, Packet
  PROVE  UsesUp
  <1>1. /\ pc = "packet" /\ Ts /\ file' = file /\ start' = start
        /\ packet + PacketSize <= Length
        /\ packet' = packet + (IF At(packet) = 71 THEN PacketSize ELSE 1)
        /\ pc' # "read"
    BY PacketIs
  <1>2. Length' = Length /\ Ts' = Ts
    BY <1>1, SameFile, Zenon
  <1>3. /\ packet \in Nat /\ Length \in Nat /\ start \in Nat
        /\ PacketSize \in Nat /\ PacketSize >= 5
    BY LengthType, KindIs DEF Inv1, TypeInv
  <1>4. packet' \in Nat /\ packet' > packet
    BY <1>1, <1>3
  <1>5. /\ ToRead' = (Length - start) + (Length - packet') + 0
        /\ ToRead = (Length - start) + (Length - packet) + 0
    BY <1>1, <1>2 DEF ToRead, Front
  <1> DEFINE p == packet'  l == Length
  <1>6. (l - start) + (l - p) + 0 < (l - start) + (l - packet) + 0
    <2>1. p \in Nat /\ p > packet /\ packet \in Nat /\ l \in Nat /\ start \in Nat
      BY <1>3, <1>4
    <2> HIDE DEF p, l
    <2> QED BY <2>1
  <1>7. ToRead' < ToRead
    BY <1>5, <1>6, Zenon
  <1> QED BY <1>7, Lower1, Zenon

(* Before the buffer is filled again, something of it was used: size is    *)
(* not 0, and a transport packet is shorter than the buffer.               *)
LEMMA ReturnedUses ==
  ASSUME Inv1, BufferInv, Returned
  PROVE  UsesUp
  <1>1. /\ pc = "returned" /\ ~Ts /\ file' = file /\ start' = start /\ end' = end
        /\ packet' = packet /\ pc' = IF end = start + size THEN "read" ELSE "done"
    BY DEF Returned
  <1>2. Length' = Length /\ Ts' = Ts
    BY <1>1, SameFile, Zenon
  <1>3. size \in Nat /\ size > 0 /\ start \in Nat
    BY LengthType, DemuxAssumption DEF Inv1, TypeInv
  <1>4. pc' = "read" => start # end
    BY <1>1, <1>3
  <1>5. ToRead' = ToRead
    BY <1>1, <1>2, <1>4 DEF ToRead, Front
  <1>6. Stage = 2 /\ Stage' \in {0, 1}
    BY <1>1 DEF Stage
  <1>7. Stage' < Stage
    BY <1>6
  <1> QED BY <1>5, <1>7, Lower2, Zenon

LEMMA LastPacketUses ==
  ASSUME Inv1, BufferInv, LastPacket
  PROVE  UsesUp
  <1>1. /\ pc = "packet" /\ file' = file /\ start' = start /\ end' = end
        /\ packet' = packet /\ packet + PacketSize > FillEnd
        /\ pc' = IF FillEnd = start + size THEN "read" ELSE "done"
    BY DEF LastPacket
  <1>2. Length' = Length /\ Ts' = Ts /\ Ts
    BY <1>1, SameFile DEF Inv1, PlaceInv
  <1>3. /\ size \in Nat /\ size >= 2 * PacketSize - 2 /\ start \in Nat /\ packet \in Nat
        /\ PacketSize \in Nat /\ PacketSize >= 5
    BY <1>2, LengthType, KindIs, DemuxAssumption DEF Inv1, TypeInv, BufferInv
  <1>4. pc' = "read" => start # packet
    <2> SUFFICES ASSUME pc' = "read" PROVE start # packet
      OBVIOUS
    <2>1. packet + PacketSize > start + size
      BY <1>1
    <2> QED BY <1>3, <2>1
  <1>5. ToRead' = ToRead
    BY <1>1, <1>2, <1>4 DEF ToRead, Front
  <1>6. Stage = 2 /\ Stage' \in {0, 1}
    BY <1>1 DEF Stage
  <1>7. Stage' < Stage
    BY <1>6
  <1> QED BY <1>5, <1>7, Lower2, Zenon

(* A call of demux or pva_demux: it returns, or goes on in its buffer.     *)
LEMMA BackUses ==
  ASSUME pc = "need", file' = file, start' = start, packet' = packet, end' = end,
         pc' \in {Back, "done", "exit"}
  PROVE  UsesUp
  <1>1. pc' \in {"packet", "returned", "done", "exit"}
    BY DEF Back
  <1>2. ToRead' = ToRead
    BY <1>1, SameToRead
  <1>3. Stage = 3 /\ Stage' \in {0, 2}
    BY <1>1 DEF Stage
  <1>4. Stage' < Stage
    BY <1>3
  <1> QED BY <1>2, <1>4, Lower2, Zenon

LEMMA SwitchUses ==
  ASSUME Inv1, PieceInv, Switch
  PROVE  UsesUp
  <1>1. /\ pc = "switch" /\ file' = file /\ start' = start /\ packet' = packet
        /\ end' = end
    BY SwitchIs, Zenon
  <1>2. pc' \in {"need", Back, "packet"}
    BY SwitchIs, Zenon
  <1>3. pc' \in {"need", "packet", "returned"}
    BY <1>2 DEF Back
  <1>4. ToRead' = ToRead
    BY <1>1, <1>3, SameToRead
  <1>5. Stage = 4 /\ Stage' \in {2, 3}
    BY <1>1, <1>3 DEF Stage
  <1>6. Stage' < Stage
    BY <1>5
  <1> QED BY <1>4, <1>6, Lower2, Zenon

LEMMA StayingIs ==
  ASSUME pc = "need", pc' = "need", file' = file, start' = start, packet' = packet,
         end' = end
  PROVE  Staying
  BY SameToRead DEF Staying

LEMMA NeedBytesUses ==
  ASSUME Inv1, NeedBytes
  PROVE  UsesUp
  <1>1. /\ pc = "need" /\ file' = file /\ start' = start /\ packet' = packet
        /\ end' = end /\ There(Seen) = stateBytes
    BY NeedBytesIs, Zenon
  <1>2. /\ inHead /\ need.n > Bytes
        /\ IF need.n - Bytes <= end - buf
             THEN buf' = buf + Least(need.n - Bytes, end - buf) /\ pc' = pc
             ELSE pc' = Back
    BY DEF NeedBytes
  <1> DEFINE w == need.n - Bytes
  <1>3. buf \in Nat /\ end \in Nat
    BY LengthType DEF Inv1, TypeInv
  <1>4. w \in Int /\ w > 0
    <2>1. need.n \in Nat /\ Bytes \in Nat
      BY <1>1, SeenIs, Zenon DEF Inv1, TypeInv
    <2> DEFINE n == need.n  b == Bytes
    <2>2. n \in Nat /\ b \in Nat /\ n > b
      BY <1>2, <2>1, Zenon
    <2> HIDE DEF n, b
    <2>3. n - b \in Int /\ n - b > 0
      BY <2>2
    <2> QED BY <2>3, Zenon DEF n, b
  <1>5. IF w <= end - buf THEN buf' = buf + Least(w, end - buf) /\ pc' = pc ELSE pc' = Back
    BY <1>2, Zenon
  <1> HIDE DEF w
  <1>6. CASE w <= end - buf
    <2>1. Least(w, end - buf) \in {w}
      BY <1>3, <1>4, <1>6 DEF Least
    <2>2. buf' = buf + w /\ pc' = "need"
      BY <1>1, <1>5, <1>6, <2>1
    <2>3. end' - buf' < end - buf
      BY <1>1, <1>3, <1>4, <2>2
    <2> QED BY <1>1, <2>2, <2>3, StayingIs, Lower3, Zenon
  <1>7. CASE ~(w <= end - buf)
    BY <1>1, <1>5, <1>7, BackUses
  <1> QED BY <1>6, <1>7, Zenon

LEMMA SaveHeaderUses ==
  ASSUME Inv1, SaveHeader
  PROVE  UsesUp
  <1>1. /\ pc = "need" /\ file' = file /\ start' = start /\ packet' = packet
        /\ end' = end /\ pc' = Back
    BY SaveHeaderIs, Zenon
  <1> QED BY <1>1, BackUses

(* On to the next header: of one in head_buf no byte is left, of another   *)
(* at least one more is behind buf.                                        *)
LEMMA NextHeaderUses ==
  ASSUME Inv1, pc = "need", NEW from \in Int, from >= buf, inHead \/ from > buf,
         NextHeader(from)
  PROVE  UsesUp
  <1>1. /\ file' = file /\ start' = start /\ packet' = packet /\ end' = end
        /\ buf' = from /\ inHead' = FALSE
        /\ IF Ts THEN pc' = Back ELSE pc' = pc
    BY DEF NextHeader
  <1>2. CASE Ts
    BY <1>1, <1>2, BackUses
  <1>3. CASE ~Ts /\ from > buf
    <2>1. buf \in Nat /\ end \in Nat
      BY LengthType DEF Inv1, TypeInv
    <2>2. end' - buf' < end - buf
      BY <1>1, <1>3, <2>1
    <2> QED BY <1>1, <1>3, <2>2, StayingIs, Lower3, Zenon
  <1>4. CASE ~Ts /\ ~(from > buf)
    <2>1. buf \in Nat /\ end \in Nat
      BY LengthType DEF Inv1, TypeInv
    <2>2. end' - buf' = end - buf /\ inHead
      BY <1>1, <1>4, <2>1
    <2> QED BY <1>1, <1>4, <2>2, StayingIs, Lower4, Zenon
  <1> QED BY <1>2, <1>3, <1>4, Zenon

LEMMA DoneUses ==
  ASSUME Inv1, Satisfied, Last
  PROVE  Done(need.n) \in buf .. end /\ (inHead \/ Done(need.n) > buf)
  <1>1. Done(need.n) \in buf .. end /\ need.n \in 1 .. 264
    BY LastNeed, HeaderIs, Zenon DEF Last
  <1>2. inHead \/ Done(need.n) = buf + need.n
    BY Zenon DEF Done
  <1> DEFINE n == need.n  d == Done(need.n)
  <1>3. (inHead \/ d = buf + n) /\ n \in 1 .. 264 /\ buf \in Nat
    BY <1>1, <1>2, LengthType DEF Inv1, TypeInv
  <1> HIDE DEF n, d
  <1>4. inHead \/ d > buf
    BY <1>3
  <1> QED BY <1>1, <1>4, Zenon DEF d

LEMMA ContentsUses ==
  ASSUME Inv1, pc = "need", NEW from \in Int, from >= buf, inHead \/ from > buf,
         NEW n \in Int, NEW what, NEW before, Contents(from, n, what, before)
  PROVE  UsesUp
  <1>1. CASE (what = "data" /\ Ts) \/ n > end - from
    <2>1. /\ file' = file /\ start' = start /\ packet' = packet /\ end' = end
          /\ pc' = Back
      BY <1>1 DEF Contents
    <2> QED BY <2>1, BackUses
  <1>2. CASE ~((what = "data" /\ Ts) \/ n > end - from)
    <2> DEFINE to == IF n > 0 THEN from + n ELSE from
    <2>1. NextHeader(to)
      BY <1>2 DEF Contents
    <2>2. to \in Int /\ to >= buf /\ (inHead \/ to > buf)
      BY LengthType DEF Inv1, TypeInv
    <2> HIDE DEF to
    <2> QED BY <2>1, <2>2, NextHeaderUses
  <1> QED BY <1>1, <1>2, Zenon

LEMMA NoStartUses ==
  ASSUME Inv1, Satisfied, need.of = "prefix", ~Started(file, Seen), NoStart
  PROVE  UsesUp
  <1>1. pc = "need" /\ buf \in Nat
    BY LengthType DEF Satisfied, Inv1, TypeInv
  <1>2. CASE Ts
    <2>1. /\ file' = file /\ start' = start /\ packet' = packet /\ end' = end
          /\ pc' = Back
      BY <1>2 DEF NoStart, NextHeader
    <2> QED BY <1>1, <2>1, BackUses
  <1>3. CASE ~Ts /\ ~inHead
    <2>1. NextHeader(buf + 1)
      BY <1>3, Zenon DEF NoStart
    <2>2. buf + 1 \in Int /\ buf + 1 >= buf /\ buf + 1 > buf
      BY <1>1
    <2> QED BY <1>1, <2>1, <2>2, NextHeaderUses
  <1>4. CASE ~Ts /\ inHead
    <2>1. Drop
      BY <1>4, Zenon DEF NoStart
    <2>2. /\ file' = file /\ pc' = pc /\ start' = start /\ packet' = packet
          /\ buf' = buf /\ end' = end /\ inHead' = inHead /\ need' = need
      BY <2>1 DEF Drop
    <2>3. stateBytes' = stateBytes - 1 /\ stateBytes \in Int
      BY <2>1, Zenon DEF Drop, Inv1, TypeInv
    <2>4. stateBytes' < stateBytes
      BY <2>3
    <2> QED BY <1>1, <1>4, <2>2, <2>4, StayingIs, Lower6, Zenon
  <1> QED BY <1>2, <1>3, <1>4, Zenon

LEMMA MoreUses ==
  ASSUME Satisfied, More
  PROVE  UsesUp
  <1>1. PICK n \in Nat : \E of : NeedMore(n, of) /\ Rank(n, of) < Rank(need.n, need.of)
    BY Zenon DEF More
  <1>2. PICK of : NeedMore(n, of) /\ Rank(n, of) < Rank(need.n, need.of)
    BY <1>1, Zenon
  <1>3. /\ pc = "need" /\ file' = file /\ pc' = pc /\ start' = start /\ packet' = packet
        /\ buf' = buf /\ end' = end /\ inHead' = inHead /\ need' = [n |-> n, of |-> of]
    BY <1>2 DEF NeedMore, Satisfied
  <1>4. need'.n = n /\ need'.of = of
    BY <1>3
  <1> QED BY <1>2, <1>3, <1>4, StayingIs, Lower5, Zenon

LEMMA HeaderActionUses ==
  ASSUME Inv1, HeaderAction
  PROVE  UsesUp
  <1>1. Satisfied /\ pc = "need"
    BY HeaderActionIs, Zenon DEF Satisfied
  <1>2. buf \in Int /\ end \in Int
    BY LengthType DEF Inv1, TypeInv
  <1>3. Last => /\ Done(need.n) \in Int /\ Done(need.n) >= buf
                /\ inHead \/ Done(need.n) > buf
    BY <1>1, <1>2, DoneUses
  <1>4. CASE More
    BY <1>1, <1>4, MoreUses, Zenon
  <1>5. CASE need.of = "prefix" /\ ~Started(file, Seen) /\ NoStart
    BY <1>1, <1>5, NoStartUses, Zenon
  <1>6. CASE Stop("exit") \/ Stop("done")
    <2>1. /\ file' = file /\ start' = start /\ packet' = packet /\ end' = end
          /\ pc' \in {"exit", "done"}
      BY <1>6 DEF Stop
    <2> QED BY <1>1, <2>1, BackUses
  <1>7. CASE Last /\ PassOver
    BY <1>1, <1>3, <1>7, NextHeaderUses, Zenon DEF PassOver
  <1>8. CASE Last /\ \E n \in Int : \E what \in {"data", "skip"} : \E before :
                 Contents(Done(need.n), n, what, before)
    BY <1>1, <1>3, <1>8, ContentsUses, Zenon
  <1> QED BY <1>4, <1>5, <1>6, <1>7, <1>8, HeaderActionIs, Zenon

LEMMA NextUses ==
  ASSUME Inv1, PieceInv, BufferInv, Next
  PROVE  UsesUp
  BY ReadUses, ReturnedUses, FillUses, PacketUses, LastPacketUses, SwitchUses,
     NeedBytesUses, SaveHeaderUses, HeaderActionUses, Zenon DEF Next, HeaderAction

LEMMA InitBuffer ==
  Init => BufferInv
  <1> SUFFICES ASSUME Init PROVE BufferInv
    OBVIOUS
  <1>1. Ts => size >= 2 * PacketSize - 2
    BY DEF Init
  <1>2. start <= Front
    BY DEF Init, Front
  <1> QED BY <1>1, <1>2, Zenon DEF BufferInv

LEMMA BufferStep ==
  ASSUME Inv1, PieceInv, BufferInv, [Next]_vars
  PROVE  BufferInv'
  <1> USE DEF BufferInv
  <1>1. /\ start \in Nat /\ packet \in Nat /\ end \in Nat /\ Length \in Nat /\ end <= Length
        /\ size \in Nat /\ PacketSize \in Nat /\ PacketSize >= 5
    BY LengthType, KindIs, DemuxAssumption DEF Inv1, TypeInv
  <1>2. ASSUME file' = file, size' = size, start' = start, packet' = packet, end' = end
        PROVE  BufferInv'
    <2>1. Ts' = Ts
      BY <1>2, SameFile, Zenon
    <2> QED BY <1>2, <2>1 DEF Front
  <1>3. CASE Read
    <2>1. /\ ~Ts /\ file' = file /\ size' = size /\ start' = end
          /\ end' = Least(end + size, Length)
      BY <1>3 DEF Read
    <2>2. ~Ts'
      BY <2>1, SameFile, Zenon
    <2>3. end <= Least(end + size, Length)
      BY <1>1 DEF Least
    <2> QED BY <2>1, <2>2, <2>3 DEF Front
  <1>4. CASE Fill
    <2>1. /\ Ts /\ file' = file /\ size' = size /\ start' = packet /\ packet' = packet
      BY <1>4 DEF Fill
    <2>2. Ts'
      BY <2>1, SameFile, Zenon
    <2> QED BY <1>1, <2>1, <2>2 DEF Front
  <1>5. CASE Packet
    <2>1. /\ Ts /\ file' = file /\ size' = size /\ start' = start
          /\ packet' = packet + (IF At(packet) = 71 THEN PacketSize ELSE 1)
      BY <1>5, PacketIs
    <2>2. Ts'
      BY <2>1, SameFile, Zenon
    <2>3. start <= packet
      BY <2>1 DEF Front
    <2>4. start <= packet + (IF At(packet) = 71 THEN PacketSize ELSE 1)
      BY <1>1, <2>3
    <2> QED BY <2>1, <2>2, <2>4 DEF Front
  <1>6. CASE Returned
    BY <1>2, <1>6 DEF Returned
  <1>7. CASE LastPacket
    BY <1>2, <1>7 DEF LastPacket
  <1>8. CASE Switch
    BY <1>2, <1>8 DEF Switch
  <1>9. CASE NeedBytes
    BY <1>2, <1>9 DEF NeedBytes
  <1>10. CASE SaveHeader
    BY <1>2, <1>10 DEF SaveHeader
  <1>11. CASE HeaderAction
    <2>1. file' = file /\ size' = size /\ start' = start /\ packet' = packet /\ end' = end
      <3>1. CASE More
        BY <3>1 DEF More, NeedMore
      <3>2. CASE NoStart
        BY <3>2 DEF NoStart, NextHeader, Drop
      <3>3. CASE Stop("exit") \/ Stop("done")
        BY <3>3 DEF Stop
      <3>4. CASE PassOver
        BY <3>4 DEF PassOver, NextHeader
      <3>5. ASSUME NEW n, NEW what, NEW before, Contents(Done(need.n), n, what, before)
            PROVE  /\ file' = file /\ size' = size /\ start' = start /\ packet' = packet
                   /\ end' = end
        BY <3>5 DEF Contents, NextHeader
      <3> QED BY <1>11, <3>1, <3>2, <3>3, <3>4, <3>5, HeaderActionIs, Zenon
    <2> QED BY <1>2, <2>1, Zenon
  <1>12. CASE UNCHANGED vars
    BY <1>2, <1>12 DEF vars
  <1> QED BY <1>3, <1>4, <1>5, <1>6, <1>7, <1>8, <1>9, <1>10, <1>11, <1>12, Zenon
          DEF Next, HeaderAction

(* None of the numbers is ever negative: stuffing is at most 16 bytes, and *)
(* stateBytes that of a header.                                            *)
LEMMA RankType ==
  Inv1 /\ pc = "need" => Rank(need.n, need.of) \in Nat
  <1> SUFFICES ASSUME Inv1, pc = "need" PROVE Rank(need.n, need.of) \in Nat
    OBVIOUS
  <1>1. Parsed(file, Seen, need.n, need.of)
    BY Zenon DEF Inv1, HeaderInv
  <1>2. need.of = "stuffing" => need.n \in 8 .. 24
    BY <1>1 DEF Parsed, ParsedVideo, ParsedPack, ParsedOther, ParsedPva
  <1>3. CASE need.of = "stuffing"
    <2> DEFINE n == need.n
    <2>1. n \in 8 .. 24 /\ Rank(n, need.of) = 26 - n
      BY <1>2, <1>3, RankIs
    <2> HIDE DEF n
    <2>2. Rank(n, need.of) \in Nat
      BY <2>1
    <2> QED BY <2>2, Zenon DEF n
  <1>4. CASE need.of # "stuffing"
    BY <1>4 DEF Rank
  <1> QED BY <1>3, <1>4, Zenon

LEMMA ToReadType ==
  Inv1 /\ BufferInv => ToRead \in Nat
  <1> SUFFICES ASSUME Inv1, BufferInv PROVE ToRead \in Nat
    OBVIOUS
  <1>1. /\ start \in 0 .. Length /\ packet \in 0 .. Length /\ end \in 0 .. Length
        /\ Length \in Nat
    BY LengthType, Zenon DEF Inv1, TypeInv
  <1>2. Front \in 0 .. Length
    BY <1>1, Zenon DEF Front
  <1> QED BY <1>1, <1>2 DEF ToRead

LEMMA LeftType ==
  Inv1 /\ BufferInv => LeftOK
  <1> SUFFICES ASSUME Inv1, BufferInv PROVE LeftOK
    OBVIOUS
  <1>1. ToRead \in Nat
    BY ToReadType, Zenon
  <1>2. Stage \in Nat
    <2>1. pc \in {"read", "returned", "packet", "switch", "need", "done", "exit"}
      BY DEF Inv1, PlaceInv
    <2> QED BY <2>1 DEF Stage
  <1>3. CASE pc = "need"
    <2>1. Left = <<ToRead, Stage, end - buf, IF inHead THEN 1 ELSE 0,
                   Rank(need.n, need.of), IF inHead THEN stateBytes ELSE 0>>
      BY <1>3, Zenon DEF Left
    <2>2. end - buf \in Nat
      BY LengthType DEF Inv1, TypeInv
    <2>3. (IF inHead THEN 1 ELSE 0) \in Nat
      OBVIOUS
    <2>4. Rank(need.n, need.of) \in Nat
      BY <1>3, RankType, Zenon
    <2>5. (IF inHead THEN stateBytes ELSE 0) \in Nat
      <3>1. inHead => stateBytes \in Nat
        BY <1>3, KeptIs, Zenon DEF Inv1, HeaderInv
      <3> QED BY <3>1
    <2>6. /\ Left[1] \in Nat /\ Left[2] \in Nat /\ Left[3] \in Nat /\ Left[4] \in Nat
          /\ Left[5] \in Nat /\ Left[6] \in Nat
      BY <1>1, <1>2, <2>1, <2>2, <2>3, <2>4, <2>5
    <2> QED BY <2>6 DEF LeftOK
  <1>4. CASE pc # "need"
    <2>1. Left = <<ToRead, Stage, 0, 0, 0, 0>>
      BY <1>4, Zenon DEF Left
    <2>2. /\ Left[1] \in Nat /\ Left[2] \in Nat /\ Left[3] \in Nat /\ Left[4] \in Nat
          /\ Left[5] \in Nat /\ Left[6] \in Nat
      BY <1>1, <1>2, <2>1
    <2> QED BY <2>2 DEF LeftOK
  <1> QED BY <1>3, <1>4, Zenon

(* For any file, cut into pieces of any size: every step of the            *)
(* demultiplexers and of the loops around them leaves less to do than      *)
(* there was, and what is left is never less than nothing. So there is no  *)
(* turn without end on a header that is cut, on bytes that are none, or on *)
(* a packet of length 0 (while (1) of mpeg2dec.c:451 and 642, do of 598,   *)
(* 700, 719 and 756, and the same of extract_mpeg2.c): the safety half of  *)
(* EndsEverywhere.                                                         *)
THEOREM EveryStepUsesUp == Spec => []LeftOK /\ [][UsesUp]_vars
  <1>1. Init => Inv1 /\ PieceInv /\ BufferInv
    BY InitInv1, InitPiece, InitBuffer, Zenon
  <1>2. (Inv1 /\ PieceInv /\ BufferInv) /\ [Next]_vars => (Inv1 /\ PieceInv /\ BufferInv)'
    <2> SUFFICES ASSUME Inv1, PieceInv, BufferInv, [Next]_vars
                 PROVE  Inv1' /\ PieceInv' /\ BufferInv'
      OBVIOUS
    <2> QED BY Inv1Step, PieceStep, BufferStep, Zenon
  <1>3. Inv1 /\ BufferInv => LeftOK
    BY LeftType, Zenon
  <1>4. (Inv1 /\ PieceInv /\ BufferInv) /\ [Next]_vars => [UsesUp]_vars
    BY NextUses, Zenon
  <1> QED BY <1>1, <1>2, <1>3, <1>4, PTL DEF Spec
==============================================================================
