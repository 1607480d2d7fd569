----------------------------- MODULE SliceProofs -----------------------------
(***************************************************************************)
(* Proofs about Slice, for pictures of every size, blocks of every size    *)
(* and every succession of codes.  The inductive invariant has a part for  *)
(* each of the four things mpeg2_slice keeps in step by hand: the position *)
(* in the picture, the bit buffer, the coefficient block, the predictors.  *)
(***************************************************************************)
EXTENDS Slice, SequenceTheorems, TLAPS

Elements == {"x", "y", "fx", "ym", "mp1", "dmv", "cbp", "luma", "chroma",
             "marker", "block"}

-----------------------------------------------------------------------------
(* The bit buffer.                                                         *)

(* Of a buffer from which nothing was read that was not there: its bits    *)
(* and valid.                                                              *)
Has(c, bits, valid) ==
  /\ c \in [bits : Int, valid : Int, ok : BOOLEAN]
  /\ c.ok /\ c.bits = bits /\ c.valid = valid

(* The buffer is consistent, and at most hi + 16 bits are used up.         *)
Good(c, hi) == \E k \in -16 .. hi : Has(c, k, 16 - k)

LEMMA CountHas ==
  ASSUME NEW c, NEW k \in Int, NEW v \in Int, NEW n \in Int, Has(c, k, v)
  PROVE  Has(Count(c, n), k + n, v)
BY DEF Count, Has

LEMMA ShiftHas ==
  ASSUME NEW c, NEW k \in Int, NEW v \in Int, NEW n \in Int, Has(c, k, v)
  PROVE  Has(Shift(c, n), k, v - n)
BY DEF Shift, Has

LEMMA LookHas ==
  ASSUME NEW c, NEW k \in Int, NEW v \in Int, NEW n \in Int, Has(c, k, v),
         n <= v
  PROVE  Has(Look(c, n), k, v)
BY DEF Look, Has

LEMMA GetWordHas ==
  ASSUME NEW c, NEW k \in Int, NEW v \in 0 .. 16, Has(c, k, v)
  PROVE  Has(GetWord(c, 16 - v), k, v + 16)
<1> DEFINE d == [c EXCEPT !.valid = @ + 16]
           placed == c.ok /\ c.valid \in 0 .. 16 /\ 16 - v = 16 - c.valid
<1>1. Has(d, k, v + 16)
  BY DEF Has
<1>2. placed \in BOOLEAN /\ placed
  BY DEF Has
<1>3. GetWord(c, 16 - v) = [d EXCEPT !.ok = placed]
  BY DEF GetWord
<1> HIDE DEF d, placed
<1> QED BY <1>1, <1>2, <1>3 DEF Has

LEMMA GoodWeaker ==
  ASSUME NEW c, NEW h \in Int, NEW k \in Int, h <= k, Good(c, h)
  PROVE  Good(c, k)
BY DEF Good

LEMMA LookGood ==
  ASSUME NEW c, NEW h \in Int, NEW n \in Int, Good(c, h), n <= 16 - h
  PROVE  Good(Look(c, n), h)
<1>1. PICK k \in -16 .. h : Has(c, k, 16 - k)
  BY DEF Good
<1>2. Has(Look(c, n), k, 16 - k)
  BY <1>1, LookHas
<1> QED BY <1>2 DEF Good

LEMMA DumpGood ==
  ASSUME NEW c, NEW h \in Int, NEW n \in Nat, Good(c, h)
  PROVE  Good(Dump(c, n), h + n)
<1>1. PICK k \in -16 .. h : Has(c, k, 16 - k)
  BY DEF Good
<1>2. Has(Shift(c, n), k, 16 - k - n)
  BY <1>1, ShiftHas
<1>3. Has(Dump(c, n), k + n, 16 - k - n)
  BY <1>2, CountHas DEF Dump
<1>4. 16 - k - n = 16 - (k + n) /\ k + n \in -16 .. h + n
  OBVIOUS
<1> QED BY <1>3, <1>4 DEF Good

LEMMA TakeGood ==
  ASSUME NEW c, NEW h \in Int, NEW n \in Nat, Good(c, h), n <= 16 - h
  PROVE  Good(Take(c, n), h + n)
BY LookGood, DumpGood DEF Take

LEMMA NeedBitsGood ==
  ASSUME NEW c, Good(c, 16)
  PROVE  Good(NeedBits(c), 0)
<1>1. PICK k \in -16 .. 16 : Has(c, k, 16 - k)
  BY DEF Good
<1>2. c.bits = k
  BY <1>1 DEF Has
<1>3. CASE k > 0
  <2>1. Has(GetWord(c, 16 - (16 - k)), k, 16 - k + 16)
    BY <1>1, <1>3, GetWordHas
  <2>2. 16 - (16 - k) = k /\ 16 - k + 16 = 16 - (k + (-16))
    OBVIOUS
  <2>3. Has(NeedBits(c), k + (-16), 16 - (k + (-16)))
    BY <1>2, <1>3, <2>1, <2>2, CountHas DEF NeedBits
  <2> QED BY <1>3, <2>3 DEF Good
<1>4. CASE k <= 0
  BY <1>1, <1>2, <1>4 DEF NeedBits, Good
<1> QED BY <1>3, <1>4

LEMMA SignHas ==
  ASSUME NEW c, NEW k \in Int, NEW v \in Nat \ {0}, Has(c, k, v)
  PROVE  Has(Sign(c), k, v - 1)
BY LookHas, ShiftHas DEF Sign

(* get_motion_delta counts the bits of a code and of what follows it at    *)
(* once, but shifts them out one after the other.                          *)
LEMMA ShortDeltaGood ==
  ASSUME NEW c, NEW h \in Nat, Good(c, h), NEW len \in 0 .. 6, NEW f \in Nat,
         h + f <= 9
  PROVE  Good(ShortDelta(c, len, f), h + 7 + f)
<1>1. PICK k \in -16 .. h : Has(c, k, 16 - k)
  BY DEF Good
<1> DEFINE s == Shift(Count(Look(c, 6), len + f + 1), len)
<1>2. Has(Count(Look(c, 6), len + f + 1), k + (len + f + 1), 16 - k)
  BY <1>1, LookHas, CountHas
<1>3. Has(s, k + (len + f + 1), 16 - k - len)
  BY <1>2, ShiftHas
<1>4. Has(Sign(s), k + (len + f + 1), 16 - k - len - 1)
  BY <1>3, SignHas
<1>5. Has(Look(Sign(s), f), k + (len + f + 1), 16 - k - len - 1)
  BY <1>4, LookHas
<1>6. Has(ShortDelta(c, len, f), k + (len + f + 1), 16 - k - len - 1 - f)
  BY <1>5, ShiftHas DEF ShortDelta
<1>7. /\ 16 - k - len - 1 - f = 16 - (k + (len + f + 1))
      /\ k + (len + f + 1) \in -16 .. h + 7 + f
  OBVIOUS
<1> QED BY <1>6, <1>7 DEF Good

LEMMA LongDeltaGood ==
  ASSUME NEW c, NEW h \in 0 .. 5, Good(c, h), NEW len \in 0 .. 10,
         NEW f \in 0 .. 8
  PROVE  Good(LongDelta(c, len, f), h + 11)
<1> DEFINE s == Shift(Count(Look(c, 10), len + 1), len)
<1>1. PICK k \in -16 .. h : Has(c, k, 16 - k)
  BY DEF Good
<1>2. Has(Count(Look(c, 10), len + 1), k + (len + 1), 16 - k)
  BY <1>1, LookHas, CountHas
<1>3. Has(s, k + (len + 1), 16 - k - len)
  BY <1>2, ShiftHas
<1>4. Has(Sign(s), k + (len + 1), 16 - k - len - 1)
  BY <1>3, SignHas
<1>5. /\ 16 - k - len - 1 = 16 - (k + (len + 1))
      /\ k + (len + 1) \in -16 .. h + 11
  OBVIOUS
<1>6. Good(Sign(s), h + 11)
  BY <1>4, <1>5 DEF Good
<1>7. Good(Take(NeedBits(Sign(s)), f), h + 11)
  <2>1. Good(NeedBits(Sign(s)), 0)
    BY <1>6, GoodWeaker, NeedBitsGood
  <2>2. Good(Take(NeedBits(Sign(s)), f), 0 + f)
    BY <2>1, TakeGood
  <2> QED BY <2>2, GoodWeaker
<1> QED BY <1>6, <1>7 DEF LongDelta

LEMMA DeltaGood ==
  ASSUME NEW c, NEW h \in 0 .. 2, Good(c, h), NEW top \in 0 .. 8,
         h + top <= 9, NEW fcodes \in SUBSET (0 .. top),
         NEW d \in Delta(c, fcodes), NEW k \in Int, h + 11 <= k, h + 7 + top <= k
  PROVE  Good(d, k)
<1>1. CASE d = Take(c, 1)
  BY <1>1, TakeGood, GoodWeaker
<1>2. CASE \E len \in MV_4, f \in fcodes : d = ShortDelta(c, len, f)
  <2>1. PICK len \in MV_4, f \in fcodes : d = ShortDelta(c, len, f)
    BY <1>2
  <2>2. len \in 0 .. 6 /\ f \in Nat /\ h + f <= 9 /\ h + 7 + f <= k
    BY DEF MV_4
  <2>3. Good(d, h + 7 + f)
    BY <2>1, <2>2, ShortDeltaGood
  <2> QED BY <2>2, <2>3, GoodWeaker
<1>3. CASE \E len \in MV_10, f \in fcodes : d = LongDelta(c, len, f)
  <2>1. PICK len \in MV_10, f \in fcodes : d = LongDelta(c, len, f)
    BY <1>3
  <2>2. len \in 0 .. 10 /\ f \in 0 .. 8
    BY DEF MV_10
  <2>3. Good(d, h + 11)
    BY <2>1, <2>2, LongDeltaGood
  <2> QED BY <2>3, GoodWeaker
<1> QED BY <1>1, <1>2, <1>3 DEF Delta

LEMMA DmvGood ==
  ASSUME NEW c, NEW h \in 0 .. 14, Good(c, h), NEW d \in Dmv(c)
  PROVE  Good(d, h + 2)
<1>1. PICK len \in 1 .. 2 : d = Dump(Look(c, 2), len)
  BY DEF Dmv, DMV_2
<1>2. Good(d, h + len)
  BY <1>1, LookGood, DumpGood
<1> QED BY <1>2, GoodWeaker

LEMMA ShortDCGood ==
  ASSUME NEW c, Good(c, 0), NEW size \in 0 .. 6, NEW len \in 0 .. 5
  PROVE  Good(ShortDC(c, size, len), 11)
<1>1. CASE size = 0
  <2>1. Good(Dump(Look(c, 5), len), 0 + len)
    BY LookGood, DumpGood
  <2> QED BY <1>1, <2>1, GoodWeaker DEF ShortDC
<1>2. CASE size # 0
  <2> DEFINE s == Shift(Count(Look(c, 5), len + size), len)
  <2>1. PICK k \in -16 .. 0 : Has(c, k, 16 - k)
    BY DEF Good
  <2>2. Has(Count(Look(c, 5), len + size), k + (len + size), 16 - k)
    BY <2>1, LookHas, CountHas
  <2>3. Has(s, k + (len + size), 16 - k - len)
    BY <2>2, ShiftHas
  <2>4. Has(Look(s, size), k + (len + size), 16 - k - len)
    BY <2>3, LookHas
  <2>5. Has(Shift(Look(s, size), size), k + (len + size), 16 - k - len - size)
    BY <2>4, ShiftHas
  <2>6. /\ 16 - k - len - size = 16 - (k + (len + size))
        /\ k + (len + size) \in -16 .. 11
    OBVIOUS
  <2> QED BY <1>2, <2>5, <2>6 DEF Good, ShortDC
<1> QED BY <1>1, <1>2

LEMMA LongDCGood ==
  ASSUME NEW c, Good(c, 0), NEW size \in 0 .. 11, NEW len \in 0 .. 10,
         NEW look \in 0 .. 10
  PROVE  Good(LongDC(c, size, len, look), 11)
<1>1. Good(Dump(Look(c, look), len), 0 + len)
  BY LookGood, DumpGood
<1>2. Good(NeedBits(Dump(Look(c, look), len)), 0)
  BY <1>1, GoodWeaker, NeedBitsGood
<1>3. Good(LongDC(c, size, len, look), 0 + size)
  BY <1>2, TakeGood DEF LongDC
<1> QED BY <1>3, GoodWeaker

LEMMA DcDiffGood ==
  ASSUME NEW c, Good(c, 0), NEW table \in {DC_lum_5, DC_chrom_5},
         NEW extra \in 0 .. 1, NEW d \in DcDiff(c, table, extra)
  PROVE  Good(d, 11)
<1>1. CASE \E e \in table : d = ShortDC(c, e[1], e[2])
  <2>1. PICK e \in table : d = ShortDC(c, e[1], e[2])
    BY <1>1
  <2>2. e[1] \in 0 .. 6 /\ e[2] \in 0 .. 5
    BY DEF DC_lum_5, DC_chrom_5
  <2> QED BY <2>1, <2>2, ShortDCGood
<1>2. CASE \E e \in DC_long : d = LongDC(c, e[1], e[2] + extra, 9 + extra)
  <2>1. PICK e \in DC_long : d = LongDC(c, e[1], e[2] + extra, 9 + extra)
    BY <1>2
  <2>2. e[1] \in 0 .. 11 /\ e[2] + extra \in 0 .. 10 /\ 9 + extra \in 0 .. 10
    BY DEF DC_long
  <2> QED BY <2>1, <2>2, LongDCGood
<1> QED BY <1>1, <1>2 DEF DcDiff

LEMMA PatternGood ==
  ASSUME NEW c, Good(c, 0), NEW d \in Pattern(c)
  PROVE  Good(d, 15)
<1> DEFINE more == CASE pic.format = 0 -> 0 [] pic.format = 1 -> 2 [] OTHER -> 6
<1>1. PICK look \in 7 .. 9, len \in 0 .. 9 : d = Take(Dump(Look(c, look), len), more)
  BY DEF Pattern, CBP_7, CBP_9
<1>2. more \in 0 .. 6
  OBVIOUS
<1> HIDE DEF more
<1>3. Good(Dump(Look(c, look), len), 0 + len)
  BY LookGood, DumpGood
<1>4. Good(d, len + more)
  BY <1>1, <1>2, <1>3, TakeGood
<1> QED BY <1>2, <1>4, GoodWeaker

(* Whatever codes a syntax element is made of, 32 bits are not used up.    *)
LEMMA ElementGood ==
  ASSUME Good(b, 16), NEW e \in Elements, NEW d \in Element(e)
  PROVE  Good(d, 16)
<1> DEFINE c == NeedBits(b)
<1> HIDE DEF c
<1>1. Good(c, 0)
  BY NeedBitsGood DEF c
<1>2. /\ Fx \in SUBSET (0 .. 8) /\ Fy \in SUBSET (0 .. 4)
      /\ F1 \in SUBSET (0 .. 6)
  BY SliceAssumption DEF SliceAssumption
<1>3. CASE e = "x"
  BY <1>1, <1>2, <1>3, DeltaGood, GoodWeaker DEF Element, c
<1>4. CASE e = "y"
  BY <1>1, <1>2, <1>4, DeltaGood, GoodWeaker DEF Element, c
<1>5. CASE e = "fx"
  <2>1. d \in Delta(Take(c, 1), Fx)
    BY <1>5 DEF Element, c
  <2>2. Good(Take(c, 1), 1)
    BY <1>1, TakeGood
  <2> QED BY <1>2, <2>1, <2>2, DeltaGood
<1>6. CASE e = "mp1"
  BY <1>1, <1>2, <1>6, DeltaGood DEF Element, c
<1>7. CASE e = "ym"
  <2>1. PICK a \in Delta(c, Fy) : d = Dump(a, 1)
    BY <1>7 DEF Element, c
  <2>2. Good(a, 11)
    BY <1>1, <1>2, DeltaGood
  <2>3. Good(d, 11 + 1)
    BY <2>1, <2>2, DumpGood
  <2> QED BY <2>3, GoodWeaker
<1>8. CASE e = "dmv"
  <2>1. PICK a \in Dmv(c) : \E g \in Delta(a, Fy) : d \in Dmv(g)
    BY <1>8 DEF Element, c
  <2>5. PICK g \in Delta(a, Fy) : d \in Dmv(g)
    BY <2>1
  <2>2. Good(a, 0 + 2)
    BY <1>1, DmvGood
  <2>3. Good(g, 13)
    BY <1>2, <2>2, DeltaGood
  <2>4. Good(d, 13 + 2)
    BY <2>3, <2>5, DmvGood
  <2> QED BY <2>4, GoodWeaker
<1>9. CASE e = "cbp"
  BY <1>1, <1>9, PatternGood, GoodWeaker DEF Element, c
<1>10. CASE e \in {"luma", "chroma"}
  <2>1. PICK table \in {DC_lum_5, DC_chrom_5}, extra \in 0 .. 1 :
          d \in DcDiff(c, table, extra)
    BY <1>10 DEF Element, c
  <2>2. Good(d, 11)
    BY <1>1, <2>1, DcDiffGood
  <2> QED BY <2>2, GoodWeaker
<1>11. CASE e = "marker"
  <2>1. d = Dump(c, 1)
    BY <1>11 DEF Element, c
  <2>2. Good(d, 0 + 1)
    BY <1>1, <2>1, DumpGood
  <2> QED BY <2>2, GoodWeaker
<1>12. CASE e = "block"
  BY <1>1, <1>12, GoodWeaker DEF Element, c
<1> QED BY <1>3, <1>4, <1>5, <1>6, <1>7, <1>8, <1>9, <1>10, <1>11, <1>12
        DEF Elements

(* The modes of a macroblock.                                              *)
LEMMA AfterModesGood ==
  ASSUME Good(b, 16), NEW m, NEW len \in 0 .. 6
  PROVE  Good(AfterModes(m, len), 16)
<1> DEFINE t == Dump(Look(NeedBits(b), TypeLook), len)
           u == IF HasMotionType(m) THEN Take(t, 2) ELSE t
           v == IF HasTransformType(m) THEN Take(u, 1) ELSE u
<1>1. TypeLook \in 0 .. 6
  BY DEF TypeLook
<1>2. Good(NeedBits(b), 0)
  BY NeedBitsGood
<1>3. Good(t, 6)
  <2>1. Good(t, 0 + len)
    BY <1>1, <1>2, LookGood, DumpGood
  <2> QED BY <2>1, GoodWeaker
<1> HIDE DEF t
<1>4. Good(u, 8)
  BY <1>3, TakeGood, GoodWeaker
<1> HIDE DEF u
<1>5. Good(v, 9)
  BY <1>4, TakeGood, GoodWeaker
<1> HIDE DEF v
<1>6. Good(v, 16) /\ Good(Take(v, 5), 16)
  BY <1>5, TakeGood, GoodWeaker
<1> QED BY <1>6 DEF AfterModes, t, u, v

(* A coefficient: the code is found in 16 bits, which remain if those are  *)
(* too few to tell it.                                                     *)
LEMMA FindGood ==
  ASSUME Good(b, 0), NEW look \in {5, 8, 10, 13, 15, 16}
  PROVE  Good(Find(look), 0)
<1>1. CASE look # 16
  BY <1>1, LookGood DEF Find
<1>2. CASE look = 16
  <2>1. PICK k \in -16 .. 0 : Has(b, k, 16 - k)
    BY DEF Good
  <2>2. Has(Shift(Look(b, 16), 16), k, 16 - k - 16)
    BY <2>1, LookHas, ShiftHas
  <2>3. 16 - k - 16 = (-k) /\ (-k) \in 0 .. 16 /\ b.bits + 16 = 16 - (-k)
    BY <2>1 DEF Has
  <2>4. Has(Find(16), k, (-k) + 16)
    BY <2>2, <2>3, GetWordHas DEF Find
  <2>5. (-k) + 16 = 16 - k
    OBVIOUS
  <2> QED BY <1>2, <2>4, <2>5 DEF Good
<1> QED BY <1>1, <1>2

LEMMA CodesAre ==
  ASSUME NEW code \in Codes
  PROVE  code[1] \in {5, 8, 10, 13, 15, 16} /\ code[2] \in 0 .. 15
BY DEF Codes, DCT_16, DCT_15, DCT_13, DCT_B14_10, DCT_B14_8, DCT_B14AC_5,
       DCT_B14DC_5, DCT_B15_10, DCT_B15_8

LEMMA CoefficientGood ==
  ASSUME NEW c, Good(c, 0), NEW len \in 0 .. 15
  PROVE  /\ Good(NeedBits(Sign(Count(Shift(c, len), len + 1))), 0)
         /\ Good(Dump(c, len), 16)
<1> DEFINE s == Count(Shift(c, len), len + 1)
<1>1. PICK k \in -16 .. 0 : Has(c, k, 16 - k)
  BY DEF Good
<1>2. Has(s, k + (len + 1), 16 - k - len)
  BY <1>1, ShiftHas, CountHas
<1>3. Has(Sign(s), k + (len + 1), 16 - k - len - 1)
  BY <1>2, SignHas
<1>4. 16 - k - len - 1 = 16 - (k + (len + 1)) /\ k + (len + 1) \in -16 .. 16
  OBVIOUS
<1>5. Good(Sign(s), 16)
  BY <1>3, <1>4 DEF Good
<1>6. Good(Dump(c, len), 0 + len)
  BY DumpGood
<1> QED BY <1>5, <1>6, NeedBitsGood, GoodWeaker

(* A code taken as an escape code: a level follows, or the block ends.     *)
LEMMA FallThroughGood ==
  ASSUME Good(b, 0), NEW run, NEW len \in 0 .. 15, FallThrough(run, len)
  PROVE  Good(b', 0) \/ (pc' = "parse" /\ Good(b', 16))
<1> DEFINE c == Look(Look(b, 8), 12)
           d == NeedBits(Dump(c, 12))
           e == Dump(Look(d, 8), 8)
<1>1. Good(c, 0)
  BY LookGood
<1>2. \/ b' = NeedBits(e)
      \/ b' = NeedBits(Dump(Look(e, 8), 8))
      \/ b' = NeedBits(Dump(Look(d, 12), 12))
      \/ pc' = "parse" /\ b' = Dump(c, len)
  BY DEF FallThrough, EndBlock
<1> HIDE DEF c
<1>3. Good(Dump(c, 12), 0 + 12) /\ Good(Dump(c, len), 0 + len)
  BY <1>1, DumpGood
<1>4. Good(Dump(c, 12), 16) /\ Good(Dump(c, len), 16)
  BY <1>3, GoodWeaker
<1>5. Good(d, 0)
  BY <1>4, NeedBitsGood
<1> HIDE DEF d
<1>6. Good(e, 0 + 8)
  BY <1>5, LookGood, DumpGood
<1> HIDE DEF e
<1>7. Good(Dump(Look(e, 8), 8), 8 + 8)
  BY <1>6, LookGood, DumpGood
<1>8. Good(Dump(Look(d, 12), 12), 0 + 12)
  BY <1>5, LookGood, DumpGood
<1>9. Good(e, 16) /\ Good(Dump(Look(d, 12), 12), 16)
  BY <1>6, <1>8, GoodWeaker
<1> QED BY <1>2, <1>4, <1>7, <1>9, NeedBitsGood

-----------------------------------------------------------------------------
(* Where control is, and where that leaves the position in the picture.    *)
PositionInv ==
  /\ saved <=> pc \notin {"idle", "info", "first"}
  /\ saved => x < Width /\ y < Rows /\ from <= y
  /\ pc # "idle" => row = IF SingleRow THEN 0 ELSE y
  /\ pc = "skip" => inc > 0
  /\ saved /\ pic.convert => converted = from .. y - 1

(* Where a NEEDBITS has just been done, sixteen bits are there.            *)
BitsInv == Good(b, IF pc \in {"info", "first", "coef", "next"} THEN 0 ELSE 16)

(* What may be set in the block, as far as last must know it: nothing      *)
(* before its first coefficient, nothing but the first right after that.   *)
(* Coefficients need not be set in order (FallThrough), but only the way   *)
(* back that wrapped stands for leads to the first of them.                *)
BlockInv ==
  ~wrapped =>
    /\ pc # "coef" => filled = {}
    /\ pc = "coef" /\ i = -1 => filled = {}
    /\ pc = "coef" /\ i = 0 => filled \subseteq {0}

(* The predictors, from the macroblock they were set for to the next.      *)
PredictorsInv ==
  /\ pc \in {"info", "first"} => prev = "none"
  /\ pc \in {"info", "first", "mb"} /\ prev = "none" =>
       dc = "reset" /\ fpmv = "zero" /\ bpmv = "zero"
  /\ pc = "next" => prev \in {"intra", "inter"}
  /\ pc = "skip" => prev # "none" /\ dc = "reset"
  /\ pc \in {"mb", "next"} /\ prev # "intra" => dc = "reset"
  /\ pc \in {"mb", "next"} /\ prev = "intra" /\ ~pic.conceal =>
       fpmv = "zero" /\ bpmv = "zero"
  /\ pc \in {"parse", "coef"} /\ intra /\ ~pic.conceal =>
       fpmv = "zero" /\ bpmv = "zero"
  /\ pc \in {"mb", "skip"} /\ prev = "skipped" /\ pic.type = "P" =>
       fpmv = "zero"

IInv == TypeOK /\ PositionInv /\ BitsInv /\ BlockInv /\ PredictorsInv

-----------------------------------------------------------------------------
(* The syntax elements a macroblock can have.                              *)
LEMMA IntraBlocksType ==
  ASSUME pic \in PictureKinds
  PROVE  IntraBlocks \in Seq(Elements)
<1>1. <<"luma", "luma", "luma", "luma">> \in Seq(Elements)
  BY DEF Elements
<1>2. /\ <<"chroma", "chroma">> \in Seq(Elements)
      /\ <<"marker">> \in Seq(Elements)
      /\ <<>> \in Seq(Elements)
  BY DEF Elements
<1>3. <<"chroma", "chroma", "chroma", "chroma">> \in Seq(Elements)
  BY DEF Elements
<1>4. pic.format \in 0 .. 2
  BY DEF PictureKinds
<1>5. CASE pic.format = 0
  BY <1>1, <1>2, <1>5, ConcatProperties DEF IntraBlocks
<1>6. CASE pic.format = 1
  BY <1>1, <1>3, <1>6, ConcatProperties DEF IntraBlocks
<1>7. CASE pic.format = 2
  BY <1>1, <1>3, <1>7, ConcatProperties DEF IntraBlocks, Twice
<1> QED BY <1>4, <1>5, <1>6, <1>7

LEMMA VectorsType ==
  ASSUME NEW type \in 1 .. 3
  PROVE  Vectors(type) \in Seq(Elements)
<1>1. /\ <<"mp1", "mp1">> \in Seq(Elements)
      /\ <<>> \in Seq(Elements)
  BY DEF Elements
<1>2. /\ <<"fx", "y", "fx", "y">> \in Seq(Elements)
      /\ <<"x", "y">> \in Seq(Elements)
      /\ <<"x", "dmv">> \in Seq(Elements)
      /\ <<"fx", "y">> \in Seq(Elements)
  BY DEF Elements
<1>3. CASE type = 1
  BY <1>1, <1>2, <1>3 DEF Vectors
<1>4. CASE type = 2
  BY <1>1, <1>2, <1>4 DEF Vectors
<1>5. CASE type = 3
  BY <1>1, <1>2, <1>5 DEF Vectors
<1> QED BY <1>3, <1>4, <1>5

(* The types of macroblock in the tables.                                  *)
LEMMA TypesAre ==
  ASSUME NEW t \in Types
  PROVE  t[2] \in 0 .. 6
BY DEF Types, MB_I, MB_P, MB_B

LEMMA ModesTodo ==
  ASSUME pic \in PictureKinds, fpmv \in {"zero", "any"},
         bpmv \in {"zero", "any"}, NEW m, NEW type \in 0 .. 3,
         \/ IntraMacroblock(m)
         \/ "intra" \notin m /\ MotionCalls(m, type)
  PROVE  /\ todo' \in Seq(Elements)
         /\ fpmv' \in {"zero", "any"} /\ bpmv' \in {"zero", "any"}
         /\ "intra" \in m /\ ~pic.conceal => fpmv' = "zero" /\ bpmv' = "zero"
<1>1. CASE IntraMacroblock(m)
  <2>1. <<"x", "ym">> \in Seq(Elements) /\ <<"fx", "ym">> \in Seq(Elements)
    BY DEF Elements
  <2> QED BY <1>1, <2>1, IntraBlocksType, ConcatProperties DEF IntraMacroblock
<1>2. CASE "intra" \notin m /\ MotionCalls(m, type)
  <2> DEFINE vectors == IF type = 0 THEN <<>> ELSE Vectors(type)
             directions == IF pic.type = "P" THEN m \cup {"forward"} ELSE m
             one == IF "forward" \in directions THEN vectors ELSE <<>>
             two == IF "backward" \in directions THEN vectors ELSE <<>>
             three == IF "pattern" \in m THEN <<"cbp">> ELSE <<>>
  <2>1. vectors \in Seq(Elements)
    <3>1. <<>> \in Seq(Elements)
      OBVIOUS
    <3> QED BY <3>1, VectorsType
  <2>2. <<>> \in Seq(Elements) /\ <<"cbp">> \in Seq(Elements)
    BY DEF Elements
  <2>3. todo' = one \o two \o three
    BY <1>2 DEF MotionCalls
  <2>4. fpmv' \in {"zero", "any"} /\ bpmv' \in {"zero", "any"}
    BY <1>2 DEF MotionCalls
  <2> HIDE DEF vectors
  <2>5. /\ one \in Seq(Elements) /\ two \in Seq(Elements)
        /\ three \in Seq(Elements)
    BY <2>1, <2>2
  <2> HIDE DEF one, two, three
  <2> QED BY <1>2, <2>3, <2>4, <2>5, ConcatProperties
<1> QED BY <1>1, <1>2

LEMMA HeadTodo ==
  ASSUME todo \in Seq(Elements), todo # <<>>
  PROVE  Head(todo) \in Elements /\ Tail(todo) \in Seq(Elements)
BY HeadTailProperties
-----------------------------------------------------------------------------
(* Bits: every element starts with a NEEDBITS and uses up 32 bits at most. *)
LEMMA BitsStep ==
  ASSUME TypeOK, BitsInv, Next
  PROVE  BitsInv'
<1> USE DEF BitsInv
<1>0. Good(b, 16)
  BY GoodWeaker
<1>e. todo \in Seq(Elements)
  BY DEF TypeOK, Elements
<1>1. CASE Start
  <2>1. Good(FirstBits, -16)
    <3>1. Has(FirstBits, -16, 32)
      BY DEF Has, FirstBits
    <3> QED BY <3>1 DEF Good
  <2>2. Good(Take(FirstBits, 3), -13)
    BY <2>1, TakeGood
  <2>3. Good(b', -8)
    <3>1. CASE pic'.tall
      <4>1. b' = Take(Take(FirstBits, 3), 5)
        BY <1>1, <3>1 DEF Start
      <4> QED BY <2>2, <4>1, TakeGood
    <3>2. CASE ~pic'.tall
      <4>1. b' = Take(FirstBits, 5)
        BY <1>1, <3>2 DEF Start
      <4>2. Good(b', (-16) + 5)
        BY <2>1, <4>1, TakeGood
      <4> QED BY <4>2, GoodWeaker
    <3> QED BY <3>1, <3>2
  <2> QED BY <2>3, GoodWeaker
<1>2. CASE ExtraInformation
  <2>1. pc = "info" /\ pc' = pc
    BY <1>2 DEF ExtraInformation
  <2>2. Good(Dump(Look(b, 1), 9), 0 + 9)
    BY <2>1, LookGood, DumpGood
  <2>3. Good(b', 0)
    BY <1>2, <2>2, GoodWeaker, NeedBitsGood DEF ExtraInformation
  <2> QED BY <2>1, <2>3
<1>3. CASE NoMoreInformation
  <2>1. pc = "info" /\ pc' = "first" /\ b' = Look(b, 1)
    BY <1>3 DEF NoMoreInformation
  <2> QED BY <2>1, LookGood
<1>4. CASE FirstEscape
  <2>1. pc = "first" /\ pc' = pc
    BY <1>4 DEF FirstEscape
  <2>2. Good(Dump(Look(b, 12), 11), 0 + 11)
    BY <2>1, LookGood, DumpGood
  <2>3. Good(b', 0)
    BY <1>4, <2>2, GoodWeaker, NeedBitsGood DEF FirstEscape
  <2> QED BY <2>1, <2>3
<1>5. CASE FirstError
  <2>1. pc = "first" /\ pc' = "idle" /\ b' = Look(b, 12)
    BY <1>5 DEF FirstError
  <2> QED BY <2>1, LookGood, GoodWeaker
<1>6. CASE FirstMacroblock
  <2>1. pc = "first" /\ pc' \in {"mb", "idle"}
    BY <1>6 DEF FirstMacroblock
  <2>2. PICK look \in {6, 12}, mba \in MBA_5 \cup MBA_11 :
          b' = Dump(Look(b, look), mba[2] + 1)
    BY <1>6 DEF FirstMacroblock
  <2>3. mba[2] + 1 \in 0 .. 12
    BY DEF MBA_5, MBA_11
  <2>4. Good(b', 0 + (mba[2] + 1))
    BY <2>1, <2>2, <2>3, LookGood, DumpGood
  <2>5. Good(b', 16)
    BY <2>3, <2>4, GoodWeaker
  <2> QED BY <2>1, <2>5
<1>7. CASE Modes
  <2>1. pc' = "parse"
    BY <1>7 DEF Modes
  <2>2. PICK t \in Types : b' = AfterModes(t[1], t[2])
    BY <1>7 DEF Modes
  <2>3. Good(b', 16)
    BY <1>0, <2>2, TypesAre, AfterModesGood
  <2> QED BY <2>1, <2>3
<1>8. CASE Plain
  <2>1. pc' = "parse" /\ todo # <<>> /\ b' \in Element(Head(todo))
    BY <1>8 DEF Plain
  <2>2. Good(b', 16)
    BY <1>0, <1>e, <2>1, HeadTodo, ElementGood
  <2> QED BY <2>1, <2>2
<1>9. CASE IntraBlock
  <2>1. todo # <<>> /\ pc = "parse"
    BY <1>9 DEF IntraBlock
  <2>2. CASE pc' = pc /\ b' \in Element(Head(todo))
    <3>1. Good(b', 16)
      BY <1>0, <1>e, <2>1, <2>2, HeadTodo, ElementGood
    <3> QED BY <2>1, <2>2, <3>1
  <2>3. CASE \E d \in Element(Head(todo)) : b' = NeedBits(d)
    <3>1. PICK d \in Element(Head(todo)) : b' = NeedBits(d)
      BY <2>3
    <3>2. Good(b', 0)
      BY <1>0, <1>e, <2>1, <3>1, HeadTodo, ElementGood, NeedBitsGood
    <3> QED BY <3>2, GoodWeaker
  <2> QED BY <1>9, <2>2, <2>3 DEF IntraBlock
<1>10. CASE NonIntraBlock
  <2>1. b' = NeedBits(b)
    BY <1>10 DEF NonIntraBlock, Element
  <2>2. Good(b', 0)
    BY <1>0, <2>1, NeedBitsGood
  <2> QED BY <2>2, GoodWeaker
<1>11. CASE Coefficient
  <2>1. pc = "coef"
    BY <1>11 DEF Coefficient
  <2>2. PICK code \in Codes :
          \/ b' = NeedBits(Sign(Count(Shift(Find(code[1]), code[2]),
                                      code[2] + 1)))
          \/ pc' = "parse" /\ b' = Dump(Find(code[1]), code[2])
          \/ \E run \in 1 .. MaxRun : FallThrough(run, code[2])
    BY <1>11 DEF Coefficient, EndBlock
  <2>3. Good(Find(code[1]), 0)
    BY <2>1, CodesAre, FindGood
  <2>4. Good(b', 0) \/ (pc' = "parse" /\ Good(b', 16))
    BY <2>1, <2>2, <2>3, CodesAre, CoefficientGood, FallThroughGood
  <2> QED BY <2>4, GoodWeaker
<1>12. CASE Escape
  <2>1. pc = "coef" /\ FallThrough(BlockSize + 1, 12)
    BY <1>12 DEF Escape, EscapeLength
  <2>2. Good(b', 0) \/ (pc' = "parse" /\ Good(b', 16))
    BY <2>1, FallThroughGood
  <2> QED BY <2>2, GoodWeaker
<1>13. CASE EndOfBlock
  <2>1. /\ pc = "coef"
        /\ \/ FallThrough(OnlyFirst, 4)
           \/ pc' = "parse" /\ b' = Dump(Look(b, 5), 2)
    BY <1>13 DEF EndOfBlock, EndBlock, EndLength_B14, EndLength_B15
  <2>2. Good(Dump(Look(b, 5), 2), 0 + 2)
    BY <2>1, LookGood, DumpGood
  <2>3. Good(b', 0) \/ (pc' = "parse" /\ Good(b', 16))
    BY <2>1, <2>2, FallThroughGood, GoodWeaker
  <2> QED BY <2>3, GoodWeaker
<1>14. CASE Illegal
  <2>1. pc = "coef" /\ pc' = "parse" /\ b' = Find(16)
    BY <1>14 DEF Illegal, EndBlock
  <2>2. Good(b', 0)
    BY <2>1, FindGood
  <2> QED BY <2>2, GoodWeaker
<1>15. CASE MacroblockDone
  <2>1. \/ pc' = "idle" /\ b' = b
        \/ b' = NeedBits(b)
    BY <1>15 DEF MacroblockDone
  <2>2. (pc' = "idle" /\ b' = b) \/ Good(b', 0)
    BY <1>0, <2>1, NeedBitsGood
  <2> QED BY <1>0, <2>2, GoodWeaker
<1>16. CASE NextEscape
  <2>1. pc = "next" /\ pc' = pc
    BY <1>16 DEF NextEscape
  <2>2. Good(Dump(Look(b, 11), 11), 0 + 11)
    BY <2>1, LookGood, DumpGood
  <2>3. Good(b', 0)
    BY <1>16, <2>2, GoodWeaker, NeedBitsGood DEF NextEscape
  <2> QED BY <2>1, <2>3
<1>17. CASE EndOfSlice
  <2>1. pc = "next" /\ pc' = "idle" /\ b' = Look(b, 11)
    BY <1>17 DEF EndOfSlice
  <2> QED BY <2>1, LookGood, GoodWeaker
<1>18. CASE NextIncrement
  <2>1. pc = "next" /\ pc' \in {"mb", "skip"}
    BY <1>18 DEF NextIncrement
  <2>2. PICK look \in {5, 11}, mba \in MBA_5 \cup MBA_11 :
          b' = Dump(Look(b, look), mba[2])
    BY <1>18 DEF NextIncrement
  <2>3. mba[2] \in 0 .. 11
    BY DEF MBA_5, MBA_11
  <2>4. Good(b', 0 + mba[2])
    BY <2>1, <2>2, <2>3, LookGood, DumpGood
  <2>5. Good(b', 16)
    BY <2>3, <2>4, GoodWeaker
  <2> QED BY <2>1, <2>5
<1>19. CASE SkippedMacroblock
  <2>1. b' = b /\ pc' \in {"mb", "skip", "idle"}
    BY <1>19 DEF SkippedMacroblock, NextMacroblock
  <2> QED BY <1>0, <2>1
<1> QED BY <1>1, <1>2, <1>3, <1>4, <1>5, <1>6, <1>7, <1>8, <1>9, <1>10, <1>11,
           <1>12, <1>13, <1>14, <1>15, <1>16, <1>17, <1>18, <1>19 DEF Next
-----------------------------------------------------------------------------
(* Blocks.                                                                 *)

(* The end of a block: what the short cut leaves was not in filled before, *)
(* or wrapped stays to tell of it.                                         *)
LEMMA EndBlockStep ==
  ASSUME TypeOK, NEW last \in Int, EndBlock(last),
         last = OnlyFirst => intra \/ wrapped \/ filled \subseteq {0}
  PROVE  /\ i' = 0 /\ pc' = "parse"
         /\ filled' \subseteq 0 .. BlockSize - 1 /\ wrapped' \in BOOLEAN
         /\ ~wrapped' => filled' = {}
<1> DEFINE set == IF pic.mpeg1 THEN filled ELSE filled \cup {BlockSize - 1}
           rest == set \ {0, BlockSize - 1}
<1>1. rest \subseteq filled
  OBVIOUS
<1>2. filled \subseteq {0} => rest = {}
  OBVIOUS
<1>3. /\ filled' \in IF intra \/ last # OnlyFirst THEN {{}} ELSE {{}, rest}
      /\ wrapped' = (wrapped /\ filled' # {})
      /\ i' = 0 /\ pc' = "parse"
  BY DEF EndBlock
<1> HIDE DEF rest
<1>4. filled' = {} \/ filled' = rest
  BY <1>3
<1>5. filled' \subseteq 0 .. BlockSize - 1
  BY <1>1, <1>4 DEF TypeOK
<1>6. ~wrapped' => filled' = {}
  BY <1>2, <1>3
<1> QED BY <1>3, <1>5, <1>6

(* What a code does: it sets a coefficient, which may be the first one     *)
(* again, or it ends the block, and then last is OnlyFirst only where the  *)
(* first coefficient is the one that was set last.                         *)
LEMMA CodeMoves ==
  ASSUME TypeOK, Coefficient \/ Escape \/ EndOfBlock \/ Illegal
  PROVE  \/ \E j \in 0 .. BlockSize - 1 :
              /\ pc' = "coef" /\ i' = j /\ filled' = filled \cup {j}
              /\ wrapped' = (wrapped \/ (i > 0 /\ j = 0))
         \/ \E last \in Int :
              EndBlock(last) /\ (last = OnlyFirst => intra \/ i = 0)
<1>s. BlockSize \in Nat \ {0, 1} /\ MaxRun \in 1 .. BlockSize
  BY SliceAssumption DEF SliceAssumption
<1>t. i \in -1 .. BlockSize - 1 /\ wrapped \in BOOLEAN
  BY DEF TypeOK
<1>o. OnlyFirst = 2 * BlockSize + 1
  BY DEF OnlyFirst
<1>1. ASSUME NEW run \in Int, NEW len, FallThrough(run, len), pc = "coef",
             i + run >= BlockSize, intra \/ run <= BlockSize + 1
      PROVE  \/ \E j \in 0 .. BlockSize - 1 :
                  /\ pc' = "coef" /\ i' = j /\ filled' = filled \cup {j}
                  /\ wrapped' = (wrapped \/ (i > 0 /\ j = 0))
             \/ \E last \in Int :
                  EndBlock(last) /\ (last = OnlyFirst => intra)
  <2>1. PICK u \in 0 .. BlockSize - 1 :
          LET j == i + run + u - BlockSize
          IN IF j < BlockSize
               THEN /\ i' = j /\ filled' = filled \cup {j}
                    /\ wrapped' = (wrapped \/ (i > 0 /\ j = 0))
                    /\ pc' = pc
               ELSE EndBlock(j)
    BY <1>1 DEF FallThrough
  <2> DEFINE j == i + run + u - BlockSize
  <2>2. /\ j \in Int /\ j >= 0
        /\ j = OnlyFirst => intra
    BY <1>1, <1>s, <1>t, <1>o
  <2>3. IF j < BlockSize
          THEN /\ i' = j /\ filled' = filled \cup {j}
               /\ wrapped' = (wrapped \/ (i > 0 /\ j = 0))
               /\ pc' = pc
          ELSE EndBlock(j)
    BY <2>1
  <2> HIDE DEF j
  <2>4. CASE j < BlockSize
    <3>1. j \in 0 .. BlockSize - 1
      BY <1>s, <2>2, <2>4
    <3> QED BY <1>1, <2>3, <2>4, <3>1
  <2>5. CASE ~(j < BlockSize)
    BY <2>2, <2>3, <2>5
  <2> QED BY <2>4, <2>5
<1>2. CASE Coefficient
  <2>1. pc = "coef"
    BY <1>2 DEF Coefficient
  <2>2. PICK run \in 1 .. MaxRun :
          \/ /\ i + run < BlockSize
             /\ i' = i + run /\ filled' = filled \cup {i + run}
             /\ pc' = pc /\ wrapped' = wrapped
          \/ i + run >= BlockSize /\ EndBlock(i + run)
          \/ i + run >= BlockSize /\ \E len \in Int : FallThrough(run, len)
    <3>1. \A code \in Codes : code[2] \in Int
      BY CodesAre
    <3> QED BY <1>2, <3>1 DEF Coefficient
  <2>3. CASE /\ i + run < BlockSize
             /\ i' = i + run /\ filled' = filled \cup {i + run}
             /\ pc' = pc /\ wrapped' = wrapped
    <3>1. i + run \in 0 .. BlockSize - 1 /\ (i + run = 0 => ~(i > 0))
      BY <1>s, <1>t, <2>3
    <3>2. wrapped' = (wrapped \/ (i > 0 /\ i + run = 0))
      BY <1>t, <2>3, <3>1
    <3> QED BY <2>1, <2>3, <3>1, <3>2
  <2>4. CASE i + run >= BlockSize /\ EndBlock(i + run)
    <3>1. i + run \in Int /\ i + run # OnlyFirst
      BY <1>s, <1>t, <1>o
    <3> QED BY <2>4, <3>1
  <2>5. CASE i + run >= BlockSize /\ \E len \in Int : FallThrough(run, len)
    <3>1. run \in Int /\ run <= BlockSize + 1
      BY <1>s
    <3> QED BY <1>1, <2>1, <2>5, <3>1
  <2> QED BY <2>2, <2>3, <2>4, <2>5
<1>3. CASE Escape
  <2>1. pc = "coef" /\ FallThrough(BlockSize + 1, EscapeLength)
    BY <1>3 DEF Escape
  <2>2. BlockSize + 1 \in Int /\ i + (BlockSize + 1) >= BlockSize
    BY <1>s, <1>t
  <2>3. BlockSize + 1 <= BlockSize + 1
    BY <1>s
  <2> QED BY <1>1, <2>1, <2>2, <2>3
<1>4. CASE EndOfBlock
  <2>1. pc = "coef" /\ i >= 0
    BY <1>4 DEF EndOfBlock
  <2>2. CASE B15
    <3>1. FallThrough(OnlyFirst, EndLength_B15)
      BY <1>4, <2>2 DEF EndOfBlock
    <3>2. intra /\ OnlyFirst \in Int /\ i + OnlyFirst >= BlockSize
      BY <1>s, <1>t, <1>o, <2>2 DEF B15
    <3> QED BY <1>1, <2>1, <3>1, <3>2
  <2>3. CASE ~B15
    <3>1. EndBlock(i + OnlyFirst)
      BY <1>4, <2>3 DEF EndOfBlock
    <3>2. i + OnlyFirst \in Int /\ (i + OnlyFirst = OnlyFirst => i = 0)
      BY <1>s, <1>t, <1>o
    <3> QED BY <3>1, <3>2
  <2> QED BY <2>2, <2>3
<1>5. CASE Illegal
  <2>1. EndBlock(i + OnlyFirst)
    BY <1>5 DEF Illegal
  <2>2. i + OnlyFirst \in Int /\ (i + OnlyFirst = OnlyFirst => i = 0)
    BY <1>s, <1>t, <1>o
  <2> QED BY <2>1, <2>2
<1> QED BY <1>2, <1>3, <1>4, <1>5

LEMMA CodeStep ==
  ASSUME TypeOK, BlockInv, Coefficient \/ Escape \/ EndOfBlock \/ Illegal
  PROVE  /\ BlockInv'
         /\ i' \in -1 .. BlockSize - 1
         /\ filled' \subseteq 0 .. BlockSize - 1 /\ wrapped' \in BOOLEAN
<1>s. BlockSize \in Nat \ {0, 1}
  BY SliceAssumption DEF SliceAssumption
<1>t. /\ i \in -1 .. BlockSize - 1 /\ wrapped \in BOOLEAN
      /\ filled \subseteq 0 .. BlockSize - 1
  BY DEF TypeOK
<1>c. pc = "coef"
  BY DEF Coefficient, Escape, EndOfBlock, Illegal
<1>1. CASE \E j \in 0 .. BlockSize - 1 :
             /\ pc' = "coef" /\ i' = j /\ filled' = filled \cup {j}
             /\ wrapped' = (wrapped \/ (i > 0 /\ j = 0))
  <2>1. PICK j \in 0 .. BlockSize - 1 :
             /\ pc' = "coef" /\ i' = j /\ filled' = filled \cup {j}
             /\ wrapped' = (wrapped \/ (i > 0 /\ j = 0))
    BY <1>1
  <2>2. i' # -1 /\ i' \in -1 .. BlockSize - 1
    BY <1>s, <2>1
  <2>3. ~wrapped' /\ i' = 0 => filled' \subseteq {0}
    <3>1. i > 0 \/ i = -1 \/ i = 0
      BY <1>s, <1>t
    <3>2. ~wrapped' /\ i' = 0 => ~wrapped /\ ~(i > 0)
      BY <2>1
    <3>3. ~wrapped' /\ i' = 0 => filled \subseteq {0}
      BY <1>c, <3>1, <3>2 DEF BlockInv
    <3> QED BY <2>1, <3>3
  <2>4. filled' \subseteq 0 .. BlockSize - 1 /\ wrapped' \in BOOLEAN
    BY <1>t, <2>1
  <2> QED BY <2>1, <2>2, <2>3, <2>4 DEF BlockInv
<1>2. CASE \E last \in Int :
             EndBlock(last) /\ (last = OnlyFirst => intra \/ i = 0)
  <2>1. PICK last \in Int :
             EndBlock(last) /\ (last = OnlyFirst => intra \/ i = 0)
    BY <1>2
  <2>2. last = OnlyFirst => intra \/ wrapped \/ filled \subseteq {0}
    BY <1>c, <2>1 DEF BlockInv
  <2>3. /\ i' = 0 /\ pc' = "parse"
        /\ filled' \subseteq 0 .. BlockSize - 1 /\ wrapped' \in BOOLEAN
        /\ ~wrapped' => filled' = {}
    BY <2>1, <2>2, EndBlockStep
  <2>4. i' \in -1 .. BlockSize - 1
    BY <1>s, <2>3
  <2> QED BY <2>3, <2>4 DEF BlockInv
<1> QED BY <1>1, <1>2, CodeMoves

LEMMA BlockStep ==
  ASSUME TypeOK, BlockInv, Next
  PROVE  BlockInv'
<1>1. CASE IntraBlock
  <2>1. pc = "parse"
    BY <1>1 DEF IntraBlock
  <2>2. \/ filled' = {} /\ pc' = "parse"
        \/ /\ filled' = filled \cup {0} /\ i' = 0 /\ pc' = "coef"
           /\ wrapped' = wrapped
    BY <1>1, <2>1 DEF IntraBlock
  <2> QED BY <2>1, <2>2 DEF BlockInv
<1>2. CASE NonIntraBlock
  <2>1. /\ pc = "parse" /\ filled' = filled /\ wrapped' = wrapped
        /\ i' = -1 /\ pc' = "coef"
    BY <1>2 DEF NonIntraBlock
  <2> QED BY <2>1 DEF BlockInv
<1>3. CASE Coefficient \/ Escape \/ EndOfBlock \/ Illegal
  BY <1>3, CodeStep
<1>4. CASE MacroblockDone
  BY <1>4 DEF MacroblockDone, NextMacroblock, BlockInv, block
<1>5. CASE SkippedMacroblock
  BY <1>5 DEF SkippedMacroblock, NextMacroblock, BlockInv, block
<1>6. CASE Start \/ ExtraInformation \/ NoMoreInformation \/ FirstEscape
  BY <1>6 DEF Start, ExtraInformation, NoMoreInformation, FirstEscape,
              BlockInv, block
<1>7. CASE FirstError \/ FirstMacroblock
  BY <1>7 DEF FirstError, FirstMacroblock, BlockInv, block
<1>8. CASE Modes
  BY <1>8 DEF Modes, BlockInv, block
<1>9. CASE Plain
  BY <1>9 DEF Plain, BlockInv, block
<1>10. CASE NextEscape \/ EndOfSlice \/ NextIncrement
  BY <1>10 DEF NextEscape, EndOfSlice, NextIncrement, BlockInv, block
<1> QED BY <1>1, <1>2, <1>3, <1>4, <1>5, <1>6, <1>7, <1>8, <1>9, <1>10
           DEF Next

-----------------------------------------------------------------------------
(* Predictors.                                                             *)
LEMMA PredictorsStep ==
  ASSUME TypeOK, PositionInv, PredictorsInv, Next
  PROVE  PredictorsInv'
<1>1. CASE Start
  BY <1>1 DEF Start, PredictorsInv
<1>2. CASE ExtraInformation \/ NoMoreInformation \/ FirstEscape
  BY <1>2 DEF ExtraInformation, NoMoreInformation, FirstEscape, PredictorsInv,
              predictors
<1>3. CASE FirstError
  BY <1>3 DEF FirstError, PredictorsInv
<1>4. CASE FirstMacroblock
  <2>1. /\ pc = "first" /\ pc' \in {"mb", "idle"} /\ prev' = prev
        /\ dc' = dc /\ fpmv' = fpmv /\ bpmv' = bpmv
    BY <1>4 DEF FirstMacroblock, predictors
  <2> QED BY <2>1 DEF PredictorsInv
<1>5. CASE Modes
  <2>1. pic' = pic /\ pc' = "parse"
    BY <1>5 DEF Modes
  <2>2. pic \in PictureKinds
    BY SliceAssumption DEF SliceAssumption, TypeOK
  <2>3. PICK t \in Types : \E type \in MotionTypes(t[1]) :
          /\ intra' = ("intra" \in t[1])
          /\ \/ IntraMacroblock(t[1])
             \/ "intra" \notin t[1] /\ MotionCalls(t[1], type)
    BY <1>5 DEF Modes
  <2>4. PICK type \in MotionTypes(t[1]) :
          \/ IntraMacroblock(t[1])
          \/ "intra" \notin t[1] /\ MotionCalls(t[1], type)
    BY <2>3
  <2>5. type \in 0 .. 3
    BY DEF MotionTypes
  <2>6. "intra" \in t[1] /\ ~pic.conceal => fpmv' = "zero" /\ bpmv' = "zero"
    BY <2>2, <2>4, <2>5, ModesTodo DEF TypeOK
  <2> QED BY <2>1, <2>3, <2>6 DEF PredictorsInv
<1>6. CASE Plain
  BY <1>6 DEF Plain, PredictorsInv, predictors
<1>7. CASE IntraBlock
  BY <1>7 DEF IntraBlock, PredictorsInv
<1>8. CASE NonIntraBlock
  BY <1>8 DEF NonIntraBlock, PredictorsInv, predictors
<1>9. CASE Coefficient \/ Escape \/ EndOfBlock \/ Illegal
  <2>1. /\ pc = "coef" /\ pc' \in {"coef", "parse"} /\ pic' = pic
        /\ intra' = intra /\ fpmv' = fpmv /\ bpmv' = bpmv
    BY <1>9 DEF Coefficient, Escape, EndOfBlock, Illegal, FallThrough,
                EndBlock, predictors
  <2> QED BY <2>1 DEF PredictorsInv
<1>10. CASE MacroblockDone
  <2>1. /\ pc = "parse" /\ pc' \in {"next", "idle"} /\ pic' = pic
        /\ fpmv' = fpmv /\ bpmv' = bpmv
        /\ dc' = IF intra THEN dc ELSE "reset"
        /\ prev' = IF intra THEN "intra" ELSE "inter"
    BY <1>10 DEF MacroblockDone, NextMacroblock
  <2> QED BY <2>1 DEF PredictorsInv
<1>11. CASE NextEscape \/ EndOfSlice
  BY <1>11 DEF NextEscape, EndOfSlice, PredictorsInv, predictors
<1>12. CASE NextIncrement
  BY <1>12 DEF NextIncrement, PredictorsInv
<1>13. CASE SkippedMacroblock
  <2>1. /\ pc = "skip" /\ pc' \in {"mb", "skip", "idle"} /\ pic' = pic
        /\ prev' = "skipped" /\ dc' = dc
        /\ fpmv' = IF pic.type = "P" THEN "zero" ELSE fpmv
    BY <1>13 DEF SkippedMacroblock, NextMacroblock
  <2> QED BY <2>1 DEF PredictorsInv
<1> QED BY <1>1, <1>2, <1>3, <1>4, <1>5, <1>6, <1>7, <1>8, <1>9, <1>10, <1>11,
           <1>12, <1>13 DEF Next
-----------------------------------------------------------------------------
(* Positions.                                                              *)
LEMMA CapType ==
  ASSUME NEW n \in Nat
  PROVE  Cap(n) \in 0 .. Width * Rows
<1>1. Width * Rows \in Nat
  BY SliceAssumption DEF SliceAssumption
<1> HIDE SliceAssumption
<1> QED BY <1>1 DEF Cap

LEMMA IncrementType ==
  ASSUME NEW mba \in MBA_5 \cup MBA_11, inc \in Nat
  PROVE  Cap(inc + mba[1]) \in 0 .. Width * Rows
<1>1. mba[1] \in Nat
  BY DEF MBA_5, MBA_11
<1> QED BY <1>1, CapType

LEMMA DivideByWidth ==
  ASSUME NEW n \in Nat
  PROVE  n % Width \in 0 .. Width - 1 /\ n \div Width \in Nat
BY SliceAssumption DEF SliceAssumption

(* NEXT_MACROBLOCK, from a macroblock inside the picture.                  *)
LEMMA NextMacroblockStep ==
  ASSUME TypeOK, PositionInv, saved, pic' = pic,
         NEW next \in {"next", "mb", "skip"}, NextMacroblock(next)
  PROVE  /\ pc' \in {next, "idle"}
         /\ saved' <=> pc' # "idle"
         /\ x' \in 0 .. Width /\ y' \in Nat /\ row' \in Nat
         /\ converted' \subseteq 0 .. Rows - 1
         /\ from' = from /\ from <= y'
         /\ pc' # "idle" => x' < Width /\ y' < Rows
         /\ pc' # "idle" => row' = IF SingleRow' THEN 0 ELSE y'
         /\ pic.convert => converted' = from .. y' - 1
<1>1. Width \in Nat \ {0} /\ Rows \in Nat \ {0}
  BY SliceAssumption DEF SliceAssumption
<1>2. /\ x \in 0 .. Width /\ y \in Nat /\ row \in Nat /\ from \in Nat
      /\ converted \subseteq 0 .. Rows - 1
  BY DEF TypeOK
<1>3. /\ x < Width /\ y < Rows /\ from <= y
      /\ row = IF SingleRow THEN 0 ELSE y
      /\ pic.convert => converted = from .. y - 1
  BY DEF PositionInv
<1>4. SingleRow' = SingleRow
  BY DEF SingleRow
<1>5. CASE x + 1 < Width
  <2>1. /\ x' = x + 1 /\ pc' = next /\ y' = y /\ row' = row /\ from' = from
        /\ converted' = converted /\ saved' = saved
    BY <1>5 DEF NextMacroblock
  <2>2. pc' # "idle" /\ saved'
    BY <2>1
  <2> QED BY <1>1, <1>2, <1>3, <1>4, <1>5, <2>1, <2>2
<1>6. CASE ~(x + 1 < Width)
  <2>1. /\ converted' = IF pic.convert THEN converted \cup {y} ELSE converted
        /\ row' = IF SingleRow THEN row ELSE row + 1
        /\ y' = y + 1 /\ from' = from
        /\ IF y' < Rows
             THEN x' = 0 /\ pc' = next /\ saved' = saved
             ELSE x' = x + 1 /\ pc' = "idle" /\ saved' = FALSE
    BY <1>6 DEF NextMacroblock
  <2>2. converted' \subseteq 0 .. Rows - 1
    BY <1>1, <1>2, <1>3, <2>1
  <2>3. pic.convert => converted' = from .. y' - 1
    <3>1. (from .. y - 1) \cup {y} = from .. y
      BY <1>2, <1>3
    <3> QED BY <1>2, <1>3, <2>1, <3>1
  <2>4. row' \in Nat /\ row' = IF SingleRow' THEN 0 ELSE y'
    BY <1>2, <1>3, <1>4, <2>1
  <2>5. /\ x' \in 0 .. Width /\ y' \in Nat /\ from <= y'
        /\ pc' # "idle" => x' < Width /\ y' < Rows
    <3>1. CASE y' < Rows
      BY <1>1, <1>2, <1>3, <2>1, <3>1
    <3>2. CASE ~(y' < Rows)
      BY <1>1, <1>2, <1>3, <2>1, <3>2
    <3> QED BY <3>1, <3>2
  <2>6. pc' \in {next, "idle"} /\ (saved' <=> pc' # "idle")
    <3>1. CASE y' < Rows
      BY <2>1, <3>1
    <3>2. CASE ~(y' < Rows)
      BY <2>1, <3>2
    <3> QED BY <3>1, <3>2
  <2> QED BY <2>1, <2>2, <2>3, <2>4, <2>5, <2>6
<1> QED BY <1>5, <1>6

LEMMA PositionStep ==
  ASSUME TypeOK, PositionInv, Next
  PROVE  PositionInv'
<1>1. CASE Start
  <2>1. /\ pc = "idle" /\ pc' = "info" /\ saved' = saved
        /\ row' = IF pic'.convert /\ pic'.type = "B" THEN 0 ELSE y'
    BY <1>1 DEF Start
  <2>2. ~saved
    BY <2>1 DEF PositionInv
  <2>3. row' = IF SingleRow' THEN 0 ELSE y'
    BY <2>1 DEF SingleRow
  <2> QED BY <2>1, <2>2, <2>3 DEF PositionInv
<1>2. CASE ExtraInformation \/ NoMoreInformation \/ FirstEscape \/ FirstError
  <2>1. /\ pc \in {"info", "first"} /\ pc' \in {"info", "first", "idle"}
        /\ saved' = saved /\ pic' = pic /\ row' = row /\ y' = y
    BY <1>2 DEF ExtraInformation, NoMoreInformation, FirstEscape, FirstError,
                position
  <2> QED BY <2>1 DEF PositionInv, SingleRow
<1>3. CASE FirstMacroblock
  <2>1. PICK mba \in MBA_5 \cup MBA_11 :
          LET total == Cap(inc + mba[1])
              down == total \div Width
          IN /\ x' = total % Width /\ y' = y + down
             /\ row' = IF SingleRow THEN row ELSE row + down
    BY <1>3 DEF FirstMacroblock
  <2> DEFINE total == Cap(inc + mba[1])
             down == total \div Width
  <2>2. total \in Nat
    BY IncrementType DEF TypeOK
  <2>3. total % Width \in 0 .. Width - 1 /\ down \in Nat
    BY <2>2, DivideByWidth
  <2>4. /\ x' = total % Width /\ y' = y + down
        /\ row' = IF SingleRow THEN row ELSE row + down
    BY <2>1
  <2> HIDE DEF total, down
  <2>5. /\ pc = "first" /\ from' = y' /\ converted' = {} /\ pic' = pic
        /\ IF y' < Rows THEN pc' = "mb" /\ saved' = TRUE
                        ELSE pc' = "idle" /\ saved' = saved
    BY <1>3 DEF FirstMacroblock
  <2>6. ~saved /\ row = IF SingleRow THEN 0 ELSE y
    BY <2>5 DEF PositionInv
  <2>7. saved' <=> pc' = "mb"
    <3>1. CASE y' < Rows
      BY <2>5, <3>1
    <3>2. CASE ~(y' < Rows)
      BY <2>5, <2>6, <3>2
    <3> QED BY <3>1, <3>2
  <2>8. saved' => x' < Width /\ y' < Rows /\ from' <= y'
    <3>1. saved' => y' < Rows
      BY <2>5, <2>7
    <3>2. x' < Width /\ y' \in Nat
      BY <2>3, <2>4, SliceAssumption DEF SliceAssumption, TypeOK
    <3> QED BY <2>5, <3>1, <3>2
  <2>9. row' = IF SingleRow' THEN 0 ELSE y'
    BY <2>3, <2>4, <2>5, <2>6 DEF SingleRow, TypeOK
  <2>10. converted' = from' .. y' - 1
    <3>1. y' \in Nat
      BY <2>3, <2>4 DEF TypeOK
    <3>2. \A n \in Nat : n .. n - 1 = {}
      OBVIOUS
    <3> QED BY <2>5, <3>1, <3>2
  <2>11. pc' \in {"mb", "idle"}
    BY <2>5
  <2> QED BY <2>7, <2>8, <2>9, <2>10, <2>11 DEF PositionInv
<1>4. CASE MacroblockDone
  <2>1. NextMacroblock("next") /\ pic' = pic /\ saved
    BY <1>4 DEF MacroblockDone, PositionInv
  <2> QED BY <2>1, NextMacroblockStep DEF PositionInv
<1>5. CASE SkippedMacroblock
  <2>1. /\ pc = "skip" /\ pic' = pic /\ inc' = inc - 1
        /\ NextMacroblock(IF inc' = 0 THEN "mb" ELSE "skip")
    BY <1>5 DEF SkippedMacroblock
  <2>2. saved /\ inc > 0 /\ inc \in Nat
    BY <2>1 DEF PositionInv, TypeOK
  <2>3. CASE inc' = 0
    <3>1. NextMacroblock("mb")
      BY <2>1, <2>3
    <3> QED BY <2>1, <2>2, <3>1, NextMacroblockStep DEF PositionInv
  <2>4. CASE inc' # 0
    <3>1. NextMacroblock("skip")
      BY <2>1, <2>4
    <3>2. inc' > 0
      BY <2>1, <2>2, <2>4
    <3> QED BY <2>1, <2>2, <3>1, <3>2, NextMacroblockStep DEF PositionInv
  <2> QED BY <2>3, <2>4
<1>6. CASE NextIncrement
  <2>1. /\ pc = "next" /\ saved' = saved /\ pic' = pic /\ x' = x /\ y' = y
        /\ row' = row /\ from' = from /\ converted' = converted
    BY <1>6 DEF NextIncrement, position
  <2>2. /\ pc' \in {"mb", "skip"}
        /\ pc' = "skip" => inc' # 0
    BY <1>6 DEF NextIncrement
  <2>3. inc' \in Nat
    <3>1. PICK mba \in MBA_5 \cup MBA_11 : inc' = Cap(inc + mba[1])
      BY <1>6 DEF NextIncrement
    <3> QED BY <3>1, IncrementType DEF TypeOK
  <2> QED BY <2>1, <2>2, <2>3 DEF PositionInv, SingleRow
<1>7. CASE EndOfSlice
  BY <1>7 DEF EndOfSlice, PositionInv
<1>8. CASE NextEscape
  BY <1>8 DEF NextEscape, PositionInv, SingleRow, position
<1>9. CASE \/ Modes \/ Plain \/ IntraBlock \/ NonIntraBlock \/ Coefficient
           \/ Escape \/ EndOfBlock \/ Illegal
  <2>1. pc \in {"mb", "parse", "coef"} /\ pc' \in {"mb", "parse", "coef"}
    BY <1>9 DEF Modes, Plain, IntraBlock, NonIntraBlock, Coefficient, Escape,
                EndOfBlock, Illegal, FallThrough, EndBlock
  <2>2. /\ saved' = saved /\ pic' = pic /\ x' = x /\ y' = y
        /\ row' = row /\ from' = from /\ converted' = converted
    BY <1>9 DEF Modes, Plain, IntraBlock, NonIntraBlock, Coefficient, Escape,
                EndOfBlock, Illegal, position
  <2> QED BY <2>1, <2>2 DEF PositionInv, SingleRow
<1> QED BY <1>1, <1>2, <1>3, <1>4, <1>5, <1>6, <1>7, <1>8, <1>9 DEF Next

-----------------------------------------------------------------------------
(* Types.                                                                  *)
LEMMA TypeStep ==
  ASSUME TypeOK, PositionInv, BlockInv, BitsInv', Next
  PROVE  TypeOK'
<1>b. b' \in [bits : Int, valid : Int, ok : BOOLEAN]
  BY DEF BitsInv, Good, Has
<1>s. BlockSize \in Nat \ {0, 1} /\ Width \in Nat \ {0} /\ Rows \in Nat \ {0}
  BY SliceAssumption DEF SliceAssumption
<1>p. pic \in PictureKinds
  BY SliceAssumption DEF SliceAssumption, TypeOK
<1>e. Elements = {"x", "y", "fx", "ym", "mp1", "dmv", "cbp", "luma",
                  "chroma", "marker", "block"}
  BY DEF Elements
<1>1. CASE Start
  BY <1>1, <1>b, <1>s DEF Start, TypeOK, block
<1>2. CASE ExtraInformation \/ NoMoreInformation \/ FirstError
  BY <1>2, <1>b DEF ExtraInformation, NoMoreInformation, FirstError, TypeOK,
                    position, block, predictors
<1>3. CASE FirstEscape
  <2>1. inc' \in 0 .. Width * Rows
    <3>1. inc \in 0 .. Width * Rows /\ inc + 33 \in Nat
      BY DEF TypeOK
    <3>2. Cap(inc + 33) \in 0 .. Width * Rows
      BY <3>1, CapType
    <3>3. inc' \in {inc, Cap(inc + 33)}
      BY <1>3 DEF FirstEscape
    <3> HIDE DEF Cap
    <3> QED BY <3>1, <3>2, <3>3
  <2> QED BY <1>3, <1>b, <2>1 DEF FirstEscape, TypeOK, position, block, predictors
<1>4. CASE FirstMacroblock
  <2>1. PICK mba \in MBA_5 \cup MBA_11 :
          LET total == Cap(inc + mba[1])
              down == total \div Width
          IN /\ x' = total % Width /\ y' = y + down
             /\ row' = IF SingleRow THEN row ELSE row + down
    BY <1>4 DEF FirstMacroblock
  <2> DEFINE total == Cap(inc + mba[1])
             down == total \div Width
  <2>2. total \in Nat
    BY IncrementType DEF TypeOK
  <2>3. total % Width \in 0 .. Width - 1 /\ down \in Nat
    BY <2>2, DivideByWidth
  <2>4. /\ x' = total % Width /\ y' = y + down
        /\ row' = IF SingleRow THEN row ELSE row + down
    BY <2>1
  <2> HIDE DEF total, down
  <2>5. x' \in 0 .. Width /\ y' \in Nat /\ row' \in Nat
    BY <1>s, <2>3, <2>4 DEF TypeOK
  <2>6. pc' \in {"mb", "idle"} /\ saved' \in BOOLEAN /\ from' = y'
    BY <1>4 DEF FirstMacroblock, TypeOK
  <2> QED BY <1>4, <1>b, <2>5, <2>6 DEF FirstMacroblock, TypeOK, block,
             predictors
<1>5. CASE Modes
  <2>1. PICK t \in Types : \E type \in MotionTypes(t[1]) :
          /\ intra' = ("intra" \in t[1])
          /\ \/ IntraMacroblock(t[1])
             \/ "intra" \notin t[1] /\ MotionCalls(t[1], type)
    BY <1>5 DEF Modes
  <2>2. PICK type \in MotionTypes(t[1]) :
          \/ IntraMacroblock(t[1])
          \/ "intra" \notin t[1] /\ MotionCalls(t[1], type)
    BY <2>1
  <2>3. type \in 0 .. 3
    BY DEF MotionTypes
  <2>4. /\ todo' \in Seq(Elements)
        /\ fpmv' \in {"zero", "any"} /\ bpmv' \in {"zero", "any"}
    BY <1>p, <2>2, <2>3, ModesTodo DEF TypeOK
  <2>5. intra' \in BOOLEAN
    BY <2>1
  <2> QED BY <1>5, <1>b, <1>e, <2>4, <2>5 DEF Modes, TypeOK, position, block
<1>6. CASE Plain
  <2>1. todo' \in Seq(Elements)
    <3>1. todo \in Seq(Elements) /\ todo # <<>>
      BY <1>6, <1>e DEF Plain, TypeOK
    <3>2. CASE todo' = Tail(todo)
      BY <3>1, <3>2, HeadTodo
    <3>3. CASE \E n \in 0 .. MaxBlocks : todo' = [k \in 1 .. n |-> "block"]
      <4>1. PICK n \in 0 .. MaxBlocks : todo' = [k \in 1 .. n |-> "block"]
        BY <3>3
      <4>2. n \in Nat /\ "block" \in Elements
        BY DEF MaxBlocks, Elements
      <4> QED BY <4>1, <4>2
    <3> QED BY <1>6, <3>2, <3>3 DEF Plain
  <2> QED BY <1>6, <1>b, <1>e, <2>1 DEF Plain, TypeOK, position, block, predictors
<1>7. CASE IntraBlock
  <2>1. todo' \in Seq(Elements)
    BY <1>7, <1>e, HeadTodo DEF IntraBlock, TypeOK
  <2>2. /\ i' \in -1 .. BlockSize - 1 /\ filled' \subseteq 0 .. BlockSize - 1
        /\ wrapped' \in BOOLEAN /\ pc' \in {"parse", "coef"}
    <3>1. 0 \in 0 .. BlockSize - 1 /\ 0 \in -1 .. BlockSize - 1
      BY <1>s
    <3>2. /\ i' = i \/ i' = 0
          /\ filled' = {} \/ filled' = filled \cup {0}
          /\ wrapped' = FALSE \/ wrapped' = wrapped
          /\ pc' \in {"parse", "coef"}
      BY <1>7 DEF IntraBlock
    <3> QED BY <3>1, <3>2 DEF TypeOK
  <2> QED BY <1>7, <1>b, <1>e, <2>1, <2>2 DEF IntraBlock, TypeOK, position
<1>8. CASE NonIntraBlock
  <2>1. todo' \in Seq(Elements)
    BY <1>8, <1>e, HeadTodo DEF NonIntraBlock, TypeOK
  <2>2. i' \in -1 .. BlockSize - 1
    BY <1>8, <1>s DEF NonIntraBlock
  <2> QED BY <1>8, <1>b, <1>e, <2>1, <2>2 DEF NonIntraBlock, TypeOK, position,
             predictors
<1>9. CASE Coefficient \/ Escape \/ EndOfBlock \/ Illegal
  <2>1. /\ i' \in -1 .. BlockSize - 1
        /\ filled' \subseteq 0 .. BlockSize - 1 /\ wrapped' \in BOOLEAN
    BY <1>9, CodeStep
  <2>2. pc' \in {"coef", "parse"}
    BY <1>9 DEF Coefficient, Escape, EndOfBlock, Illegal, FallThrough, EndBlock
  <2>3. UNCHANGED <<pic, position, intra, todo, inc, predictors, saved, prev>>
    BY <1>9 DEF Coefficient, Escape, EndOfBlock, Illegal
  <2> QED BY <1>b, <2>1, <2>2, <2>3 DEF TypeOK, position, predictors
<1>10. CASE MacroblockDone
  <2>1. NextMacroblock("next") /\ pic' = pic /\ saved
    BY <1>10 DEF MacroblockDone, PositionInv
  <2>2. /\ pc' \in {"next", "idle"} /\ saved' \in BOOLEAN
        /\ x' \in 0 .. Width /\ y' \in Nat /\ row' \in Nat
        /\ converted' \subseteq 0 .. Rows - 1 /\ from' \in Nat
    BY <2>1, NextMacroblockStep DEF TypeOK, NextMacroblock
  <2>3. inc' \in 0 .. Width * Rows
    <3>1. Width * Rows \in Nat
      BY <1>s
    <3> QED BY <1>10, <3>1 DEF MacroblockDone
  <2>4. dc' \in {"reset", "kept"} /\ prev' \in {"intra", "inter"}
    BY <1>10 DEF MacroblockDone, TypeOK
  <2> QED BY <1>10, <1>b, <2>2, <2>3, <2>4 DEF MacroblockDone, TypeOK, block
<1>11. CASE NextEscape
  <2>1. inc' \in 0 .. Width * Rows
    <3>1. inc \in 0 .. Width * Rows /\ inc + 33 \in Nat
      BY DEF TypeOK
    <3>2. Cap(inc + 33) \in 0 .. Width * Rows
      BY <3>1, CapType
    <3>3. inc' \in {inc, Cap(inc + 33)}
      BY <1>11 DEF NextEscape
    <3> HIDE DEF Cap
    <3> QED BY <3>1, <3>2, <3>3
  <2> QED BY <1>11, <1>b, <2>1 DEF NextEscape, TypeOK, position, block, predictors
<1>12. CASE EndOfSlice
  BY <1>12, <1>b DEF EndOfSlice, TypeOK, position, block, predictors
<1>13. CASE NextIncrement
  <2>1. inc' \in 0 .. Width * Rows
    <3>1. PICK mba \in MBA_5 \cup MBA_11 : inc' = Cap(inc + mba[1])
      BY <1>13 DEF NextIncrement
    <3> QED BY <3>1, IncrementType DEF TypeOK
  <2>2. pc' \in {"mb", "skip"} /\ dc' \in {"reset", "kept"}
    BY <1>13 DEF NextIncrement, TypeOK
  <2> QED BY <1>13, <1>b, <2>1, <2>2 DEF NextIncrement, TypeOK, position, block
<1>14. CASE SkippedMacroblock
  <2>1. /\ pc = "skip" /\ pic' = pic /\ inc' = inc - 1
        /\ NextMacroblock(IF inc' = 0 THEN "mb" ELSE "skip")
    BY <1>14 DEF SkippedMacroblock
  <2>2. saved /\ inc > 0 /\ inc \in 0 .. Width * Rows
    BY <2>1 DEF PositionInv, TypeOK
  <2>3. inc' \in 0 .. Width * Rows
    <3>1. Width * Rows \in Nat
      BY <1>s
    <3> QED BY <2>1, <2>2, <3>1
  <2>4. PICK next \in {"mb", "skip"} : NextMacroblock(next)
    BY <2>1
  <2>5. /\ pc' \in {"mb", "skip", "idle"} /\ saved' \in BOOLEAN
        /\ x' \in 0 .. Width /\ y' \in Nat /\ row' \in Nat
        /\ converted' \subseteq 0 .. Rows - 1 /\ from' \in Nat
    BY <2>1, <2>2, <2>4, NextMacroblockStep DEF TypeOK, NextMacroblock
  <2>6. fpmv' \in {"zero", "any"}
    BY <1>14 DEF SkippedMacroblock, TypeOK
  <2> QED BY <1>14, <1>b, <2>3, <2>5, <2>6 DEF SkippedMacroblock, TypeOK, block
<1> QED BY <1>1, <1>2, <1>3, <1>4, <1>5, <1>6, <1>7, <1>8, <1>9, <1>10, <1>11,
           <1>12, <1>13, <1>14 DEF Next
-----------------------------------------------------------------------------
LEMMA InitIInv == Init => IInv
<1> SUFFICES ASSUME Init PROVE IInv
  OBVIOUS
<1>s. BlockSize \in Nat \ {0, 1} /\ Width \in Nat \ {0} /\ Rows \in Nat \ {0}
  BY SliceAssumption DEF SliceAssumption
<1>1. BitsInv
  <2>1. Has(FirstBits, -16, 16 - (-16))
    BY DEF Has, FirstBits
  <2>2. Good(b, 16)
    BY <2>1 DEF Init, Good
  <2> QED BY <2>2 DEF Init, BitsInv
<1>2. TypeOK
  <2>1. b \in [bits : Int, valid : Int, ok : BOOLEAN]
    BY DEF Init, FirstBits
  <2>2. 0 \in 0 .. Width * Rows
    <3>1. Width * Rows \in Nat
      BY <1>s
    <3> QED BY <3>1
  <2>3. /\ x \in 0 .. Width /\ y \in Nat /\ row \in Nat /\ from \in Nat
        /\ converted \subseteq 0 .. Rows - 1
        /\ i \in -1 .. BlockSize - 1 /\ filled \subseteq 0 .. BlockSize - 1
        /\ inc \in 0 .. Width * Rows
    BY <1>s, <2>2 DEF Init
  <2>4. intra \in BOOLEAN /\ saved \in BOOLEAN /\ wrapped \in BOOLEAN
    BY DEF Init
  <2> QED BY <2>1, <2>3, <2>4 DEF Init, TypeOK
<1>3. PositionInv /\ BlockInv /\ PredictorsInv
  BY DEF Init, PositionInv, BlockInv, PredictorsInv
<1> QED BY <1>1, <1>2, <1>3 DEF IInv

LEMMA Inductive == IInv /\ [Next]_vars => IInv'
<1> SUFFICES ASSUME IInv, [Next]_vars PROVE IInv'
  OBVIOUS
<1>1. CASE Next
  BY <1>1, BitsStep, PositionStep, BlockStep, PredictorsStep, TypeStep DEF IInv
<1>2. CASE UNCHANGED vars
  <2>1. TypeOK'
    BY <1>2 DEF IInv, TypeOK, vars, position, block, predictors
  <2>2. PositionInv'
    BY <1>2 DEF IInv, PositionInv, SingleRow, vars, position
  <2>3. BitsInv'
    BY <1>2 DEF IInv, BitsInv, vars
  <2>4. BlockInv'
    BY <1>2 DEF IInv, BlockInv, vars, block
  <2>5. PredictorsInv'
    BY <1>2 DEF IInv, PredictorsInv, vars, predictors
  <2> QED BY <2>1, <2>2, <2>3, <2>4, <2>5 DEF IInv
<1> QED BY <1>1, <1>2

LEMMA Invariant == Spec => []IInv
BY InitIInv, Inductive, PTL DEF Spec

(* The variables keep their types, for every picture and every slice: in   *)
(* particular every coefficient that is set lies in the block, also where  *)
(* a run out of the block leads back into it.                              *)
THEOREM SliceTypeCorrect == Spec => []TypeOK
<1>1. IInv => TypeOK
  BY DEF IInv
<1> QED BY <1>1, Invariant, PTL

(* mpeg2_slice, with NEEDBITS only where it has them, never looks at a bit *)
(* that was not read and never puts a word in a wrong place: for every     *)
(* succession of codes in the tables and every f_code a stream may have.   *)
THEOREM SliceBitsInOrder == Spec => []BitsInOrder
<1>1. IInv => BitsInOrder
  BY DEF IInv, BitsInv, BitsInOrder, Good, Has
<1> QED BY <1>1, Invariant, PTL

(* DCTblock is zero whenever the coefficients of a block begin, for blocks *)
(* of any size: the short cut of mpeg2_idct_add leaves nothing behind      *)
(* unless a run out of a block led back to its first coefficient.          *)
THEOREM SliceBlockClear == Spec => []BlockClear
<1>1. IInv => BlockClear
  BY DEF IInv, BlockInv, BlockClear
<1> QED BY <1>1, Invariant, PTL

(* Macroblocks are decoded and skipped inside pictures of any size only,   *)
(* and dest follows the position.                                          *)
THEOREM SliceInsidePicture == Spec => []InsidePicture
<1>1. IInv => InsidePicture
  BY DEF IInv, PositionInv, InsidePicture
<1> QED BY <1>1, Invariant, PTL

(* The predictors of DC values and vectors are reset where the standard    *)
(* has them reset, after any succession of macroblocks.                    *)
THEOREM SlicePredictorsReset == Spec => []PredictorsReset
<1>1. IInv => PredictorsReset
  BY DEF IInv, PredictorsInv, PredictorsReset
<1> QED BY <1>1, Invariant, PTL

(* The cpu state is saved exactly while macroblocks are decoded.           *)
THEOREM SliceCpuStateRestored == Spec => []CpuStateRestored
<1>1. IInv => CpuStateRestored
  BY DEF IInv, PositionInv, CpuStateRestored
<1> QED BY <1>1, Invariant, PTL

(* Every row that the slice leaves is converted, once it is done, and no   *)
(* other, for slices of any number of rows.                                *)
THEOREM SliceRowsConverted == Spec => []RowsConverted
<1>1. IInv => RowsConverted
  BY DEF IInv, PositionInv, RowsConverted
<1> QED BY <1>1, Invariant, PTL
=============================================================================
