----------------------------- MODULE KernelMeans -----------------------------
(***************************************************************************)
(* The arithmetic of the motion compensation functions, in bytes and       *)
(* lanes, and the means that they store: what they make of a sample of     *)
(* the block, its neighbours and dest.                                     *)
(***************************************************************************)
EXTENDS KernelOps

(* Exclusive or, from a table for half bytes; bit is 1, 2, 4 or 8.         *)
XorBit(m, n, bit) == ((m \div bit) + (n \div bit)) % 2
XorTable ==
  [p \in (0 .. 15) \X (0 .. 15) |->
     XorBit(p[1], p[2], 1) + 2 * XorBit(p[1], p[2], 2)
       + 4 * XorBit(p[1], p[2], 4) + 8 * XorBit(p[1], p[2], 8)]
XorByte(a, b) ==
  16 * XorTable[<<a \div 16, b \div 16>>] + XorTable[<<a % 16, b % 16>>]
OrByte(a, b) == (a + b + XorByte(a, b)) \div 2
AndByte(a, b) == (a + b - XorByte(a, b)) \div 2

(* Up to four numbers are added at a time.                                 *)
Total(a) ==
  CASE DOMAIN a = 1 .. 2 -> a[1] + a[2]
    [] DOMAIN a = 1 .. 3 -> a[1] + a[2] + a[3]
    [] DOMAIN a = 1 .. 4 -> a[1] + a[2] + a[3] + a[4]

(* The value of e, if a are the values of its operands and v those of      *)
(* samples                                                                 *)
Apply(e, a, v) ==
  CASE e.f \in {"ref", "dest"} -> v[<<e.f, e.p>>]
    [] e.f = "avg" -> (a[1] + a[2] + 1) \div 2
    [] e.f = "oravg" -> OrByte(a[1], a[2]) - XorByte(a[1], a[2]) \div 2
    [] e.f = "andavg" -> AndByte(a[1], a[2]) + XorByte(a[1], a[2]) \div 2
                         + (XorByte(a[1], a[2]) % 2)
    [] e.f = "differ" -> XorByte(a[1], a[2])
    [] e.f = "corrected" ->
         (a[1] + a[2] + 1) \div 2 -
         (IF (a[3] % 2 = 1 \/ a[4] % 2 = 1) /\ a[1] % 2 # a[2] % 2
            THEN 1 ELSE 0)
    [] e.f = "sum" -> Total(a) % e.p
    [] e.f = "times" -> e.p * a[1]
    [] e.f = "pack" -> LET n == (a[1] + e.p[1]) \div e.p[2]
                       IN IF n > 255 THEN 255 ELSE n
    [] e.f = "low" -> a[1] % 4
    [] e.f = "high" -> a[1] \div 4

(* f gives expressions, and with each its operands, their values.          *)
Evaluates(f, v) ==
  \A e \in DOMAIN f :
    /\ \A n \in DOMAIN e.a : e.a[n] \in DOMAIN f
    /\ f[e] = Apply(e, [n \in DOMAIN e.a |-> f[e.a[n]]], v)

-----------------------------------------------------------------------------
(* What the functions promise: the predict_ macros of motion_comp.c, put   *)
(* and avg.  A function is called for half a sample to the right (halfX)   *)
(* or below (halfY), or both.                                              *)
Sources(op, halfX, halfY, row) ==
  {<<"ref", <<row + y, x>>>> : x \in 0 .. halfX, y \in 0 .. halfY} \cup
  (IF op = "avg" THEN {<<"dest", <<row>>>>} ELSE {})

Predicted(op, halfX, halfY, row, v) ==
  LET Sample(y, x) == v[<<"ref", <<row + y, x>>>>]
      predicted ==
        CASE halfX = 0 /\ halfY = 0 -> Sample(0, 0)
          [] halfX = 1 /\ halfY = 0 -> (Sample(0, 0) + Sample(0, 1) + 1) \div 2
          [] halfX = 0 /\ halfY = 1 -> (Sample(0, 0) + Sample(1, 0) + 1) \div 2
          [] halfX = 1 /\ halfY = 1 ->
               (Sample(0, 0) + Sample(0, 1) + Sample(1, 0) + Sample(1, 1) + 2)
                 \div 4
  IN IF op = "put" THEN predicted
                   ELSE (predicted + v[<<"dest", <<row>>>>] + 1) \div 2

-----------------------------------------------------------------------------
(* The means that are stored.  The rows of the reference are taken in      *)
(* either order, as registers change their places from row to row.         *)
Orders(s, t) == {<<s, t>>, <<t, s>>}
Means2(a, b) ==
  UNION {{Avg(p[1], p[2]), OrAvg(p[1], p[2]), AndAvg(p[1], p[2])} :
           p \in Orders(a, b)}

(* C and MMX; VIS; MMXEXT and AltiVec; Alpha                               *)
InLanes(s, t) == Pack(Sum(16, <<s[1], s[2], t[1], t[2]>>), 2, 2)
OfSums(s, t) == Pack(Sum(16, <<Sum(16, s), Sum(16, t)>>), 2, 2)
OfSum(s, t) == Pack(Sum(16, <<Sum(16, s), t[1], t[2]>>), 2, 2)
OfMeans(s, t) ==
  Corrected(Avg(s[1], s[2]), Avg(t[1], t[2]), Differ(s[1], s[2]),
            Differ(t[1], t[2]))
InParts(s, t) ==
  LET Highs(p) == Sum(8, <<High(p[1]), High(p[2])>>)
      Lows(p) == Sum(8, <<Low(p[1]), Low(p[2])>>)
      low == Sum(8, <<Lows(s), Lows(t)>>)
  IN Sum(8, <<Highs(s), Highs(t), Low(Pack(low, 2, 2))>>)
Means4(a, b, c, d) ==
  UNION {{InLanes(p[1], p[2]), OfSums(p[1], p[2]), OfSum(p[1], p[2]),
          OfMeans(p[1], p[2]), InParts(p[1], p[2])} :
           p \in Orders(<<a, b>>, <<c, d>>) \cup Orders(<<a, d>>, <<b, c>>)}

(* With dest: a mean of two, or the weighted sums of VIS                   *)
Weighted2(d, a, b) ==
  {Pack(Sum(16, <<p[1], p[2], Times(2, d)>>), 3, 2) : p \in Orders(a, b)}
Weighted4(d, a, b, c, e) ==
  UNION {{Pack(Sum(16, <<Times(4, d), Sum(16, p[1]), Sum(16, p[2])>>), 6, 3),
          Pack(Sum(16, <<Times(4, d), Sum(16, p[1]), p[2][1], p[2][2]>>),
               6, 3)} :
           p \in Orders(<<a, b>>, <<c, e>>)}

Forms(op, halfX, halfY, row) ==
  LET Sample(y, x) == Node("ref", <<row + y, x>>, <<>>)
      a == Sample(0, 0)
      b == Sample(0, 1)
      c == Sample(1, 0)
      d == Sample(1, 1)
      dest == Node("dest", <<row>>, <<>>)
      means == CASE halfX = 0 /\ halfY = 0 -> {a}
                 [] halfX = 1 /\ halfY = 0 -> Means2(a, b)
                 [] halfX = 0 /\ halfY = 1 -> Means2(a, c)
                 [] halfX = 1 /\ halfY = 1 -> Means4(a, b, c, d)
      weighted == CASE halfX = 0 /\ halfY = 0 -> {}
                    [] halfX = 1 /\ halfY = 0 -> Weighted2(dest, a, b)
                    [] halfX = 0 /\ halfY = 1 -> Weighted2(dest, a, c)
                    [] halfX = 1 /\ halfY = 1 -> Weighted4(dest, a, b, c, d)
  IN IF op = "put" THEN means
                   ELSE weighted \cup UNION {Means2(m, dest) : m \in means}
=============================================================================
