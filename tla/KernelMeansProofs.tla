-------------------------- MODULE KernelMeansProofs --------------------------
(***************************************************************************)
(* The means that the motion compensation functions store are those of the *)
(* functions in C, for samples of any value.                               *)
(*                                                                         *)
(* First what each operation of KernelOps makes of its operands, for any f *)
(* that gives expressions their values; then the arithmetic; then each of  *)
(* the forms.                                                              *)
(***************************************************************************)
EXTENDS KernelMeans, TLAPS

(* The operands of an operation have values, and its own comes of them.    *)
Operands(e, f) == [n \in DOMAIN e.a |-> f[e.a[n]]]

LEMMA Applied ==
  ASSUME NEW v, NEW f, Evaluates(f, v), NEW e \in DOMAIN f
  PROVE  /\ \A n \in DOMAIN e.a : e.a[n] \in DOMAIN f
         /\ f[e] = Apply(e, Operands(e, f), v)
  BY Zenon DEF Evaluates, Operands

LEMMA Operands1 ==
  ASSUME NEW v, NEW f, Evaluates(f, v), NEW e \in DOMAIN f,
         NEW x, e.a = <<x>>
  PROVE  /\ x \in DOMAIN f
         /\ f[e] = Apply(e, Operands(e, f), v)
         /\ Operands(e, f)[1] = f[x]
         /\ DOMAIN Operands(e, f) = 1 .. 1
  <1>1. /\ DOMAIN e.a = 1 .. 1
        /\ e.a[1] = x
    OBVIOUS
  <1>2. x \in DOMAIN f
    BY <1>1, Applied
  <1>3. /\ Operands(e, f)[1] = f[x]
        /\ DOMAIN Operands(e, f) = 1 .. 1
    BY <1>1 DEF Operands
  <1> QED BY <1>2, <1>3, Applied

LEMMA Operands2 ==
  ASSUME NEW v, NEW f, Evaluates(f, v), NEW e \in DOMAIN f,
         NEW x, NEW y, e.a = <<x, y>>
  PROVE  /\ x \in DOMAIN f /\ y \in DOMAIN f
         /\ f[e] = Apply(e, Operands(e, f), v)
         /\ Operands(e, f)[1] = f[x]
         /\ Operands(e, f)[2] = f[y]
         /\ DOMAIN Operands(e, f) = 1 .. 2
  <1>1. /\ DOMAIN e.a = 1 .. 2
        /\ e.a[1] = x /\ e.a[2] = y
    OBVIOUS
  <1>2. x \in DOMAIN f /\ y \in DOMAIN f
    BY <1>1, Applied
  <1>3. /\ Operands(e, f)[1] = f[x]
        /\ Operands(e, f)[2] = f[y]
        /\ DOMAIN Operands(e, f) = 1 .. 2
    BY <1>1 DEF Operands
  <1> QED BY <1>2, <1>3, Applied

LEMMA Operands3 ==
  ASSUME NEW v, NEW f, Evaluates(f, v), NEW e \in DOMAIN f,
         NEW x, NEW y, NEW z, e.a = <<x, y, z>>
  PROVE  /\ x \in DOMAIN f /\ y \in DOMAIN f /\ z \in DOMAIN f
         /\ f[e] = Apply(e, Operands(e, f), v)
         /\ Operands(e, f)[1] = f[x]
         /\ Operands(e, f)[2] = f[y]
         /\ Operands(e, f)[3] = f[z]
         /\ DOMAIN Operands(e, f) = 1 .. 3
  <1>1. /\ DOMAIN e.a = 1 .. 3
        /\ e.a[1] = x /\ e.a[2] = y /\ e.a[3] = z
    OBVIOUS
  <1>2. x \in DOMAIN f /\ y \in DOMAIN f /\ z \in DOMAIN f
    BY <1>1, Applied
  <1>3. /\ Operands(e, f)[1] = f[x]
        /\ Operands(e, f)[2] = f[y]
        /\ Operands(e, f)[3] = f[z]
        /\ DOMAIN Operands(e, f) = 1 .. 3
    BY <1>1 DEF Operands
  <1> QED BY <1>2, <1>3, Applied

LEMMA Operands4 ==
  ASSUME NEW v, NEW f, Evaluates(f, v), NEW e \in DOMAIN f,
         NEW x, NEW y, NEW z, NEW w, e.a = <<x, y, z, w>>
  PROVE  /\ x \in DOMAIN f /\ y \in DOMAIN f /\ z \in DOMAIN f /\ w \in DOMAIN f
         /\ f[e] = Apply(e, Operands(e, f), v)
         /\ Operands(e, f)[1] = f[x]
         /\ Operands(e, f)[2] = f[y]
         /\ Operands(e, f)[3] = f[z]
         /\ Operands(e, f)[4] = f[w]
         /\ DOMAIN Operands(e, f) = 1 .. 4
  <1>1. /\ DOMAIN e.a = 1 .. 4
        /\ e.a[1] = x /\ e.a[2] = y /\ e.a[3] = z /\ e.a[4] = w
    OBVIOUS
  <1>2. x \in DOMAIN f /\ y \in DOMAIN f /\ z \in DOMAIN f /\ w \in DOMAIN f
    BY <1>1, Applied
  <1>3. /\ Operands(e, f)[1] = f[x]
        /\ Operands(e, f)[2] = f[y]
        /\ Operands(e, f)[3] = f[z]
        /\ Operands(e, f)[4] = f[w]
        /\ DOMAIN Operands(e, f) = 1 .. 4
    BY <1>1 DEF Operands
  <1> QED BY <1>2, <1>3, Applied

(* What each operation makes of the values of its operands                 *)
LEMMA OfAvg ==
  ASSUME NEW v, NEW f, Evaluates(f, v), NEW x, NEW y,
         Avg(x, y) \in DOMAIN f
  PROVE  /\ x \in DOMAIN f /\ y \in DOMAIN f
         /\ f[Avg(x, y)] = (f[x] + f[y] + 1) \div 2
  <1> DEFINE e == Avg(x, y)
  <1>1. e.f = "avg" /\ e.a = <<x, y>>
    BY DEF Avg, Node
  <1>2. \A a : Apply(e, a, v) = (a[1] + a[2] + 1) \div 2
    BY <1>1 DEF Apply
  <1> HIDE DEF e
  <1>3. e \in DOMAIN f
    BY DEF e
  <1>4. /\ x \in DOMAIN f /\ y \in DOMAIN f
        /\ f[e] = (f[x] + f[y] + 1) \div 2
    BY <1>1, <1>2, <1>3, Operands2
  <1> QED BY <1>4 DEF e

LEMMA OfOrAvg ==
  ASSUME NEW v, NEW f, Evaluates(f, v), NEW x, NEW y,
         OrAvg(x, y) \in DOMAIN f
  PROVE  /\ x \in DOMAIN f /\ y \in DOMAIN f
         /\ f[OrAvg(x, y)] = OrByte(f[x], f[y]) - XorByte(f[x], f[y]) \div 2
  <1> DEFINE e == OrAvg(x, y)
  <1>1. e.f = "oravg" /\ e.a = <<x, y>>
    BY DEF OrAvg, Node
  <1>2. \A a : Apply(e, a, v) = OrByte(a[1], a[2]) - XorByte(a[1], a[2]) \div 2
    BY <1>1 DEF Apply
  <1> HIDE DEF e
  <1>3. e \in DOMAIN f
    BY DEF e
  <1>4. /\ x \in DOMAIN f /\ y \in DOMAIN f
        /\ f[e] = OrByte(f[x], f[y]) - XorByte(f[x], f[y]) \div 2
    BY <1>1, <1>2, <1>3, Operands2
  <1> QED BY <1>4 DEF e

LEMMA OfAndAvg ==
  ASSUME NEW v, NEW f, Evaluates(f, v), NEW x, NEW y,
         AndAvg(x, y) \in DOMAIN f
  PROVE  /\ x \in DOMAIN f /\ y \in DOMAIN f
         /\ f[AndAvg(x, y)] = AndByte(f[x], f[y]) + XorByte(f[x], f[y]) \div 2
           + (XorByte(f[x], f[y]) % 2)
  <1> DEFINE e == AndAvg(x, y)
  <1>1. e.f = "andavg" /\ e.a = <<x, y>>
    BY DEF AndAvg, Node
  <1>2. \A a : Apply(e, a, v) = AndByte(a[1], a[2]) + XorByte(a[1], a[2]) \div 2
           + (XorByte(a[1], a[2]) % 2)
    BY <1>1 DEF Apply
  <1> HIDE DEF e
  <1>3. e \in DOMAIN f
    BY DEF e
  <1>4. /\ x \in DOMAIN f /\ y \in DOMAIN f
        /\ f[e] = AndByte(f[x], f[y]) + XorByte(f[x], f[y]) \div 2
           + (XorByte(f[x], f[y]) % 2)
    BY <1>1, <1>2, <1>3, Operands2
  <1> QED BY <1>4 DEF e

LEMMA OfDiffer ==
  ASSUME NEW v, NEW f, Evaluates(f, v), NEW x, NEW y,
         Differ(x, y) \in DOMAIN f
  PROVE  /\ x \in DOMAIN f /\ y \in DOMAIN f
         /\ f[Differ(x, y)] = XorByte(f[x], f[y])
  <1> DEFINE e == Differ(x, y)
  <1>1. e.f = "differ" /\ e.a = <<x, y>>
    BY DEF Differ, Node
  <1>2. \A a : Apply(e, a, v) = XorByte(a[1], a[2])
    BY <1>1 DEF Apply
  <1> HIDE DEF e
  <1>3. e \in DOMAIN f
    BY DEF e
  <1>4. /\ x \in DOMAIN f /\ y \in DOMAIN f
        /\ f[e] = XorByte(f[x], f[y])
    BY <1>1, <1>2, <1>3, Operands2
  <1> QED BY <1>4 DEF e

LEMMA OfCorrected ==
  ASSUME NEW v, NEW f, Evaluates(f, v), NEW x, NEW y, NEW z, NEW w,
         Corrected(x, y, z, w) \in DOMAIN f
  PROVE  /\ x \in DOMAIN f /\ y \in DOMAIN f /\ z \in DOMAIN f /\ w \in DOMAIN f
         /\ f[Corrected(x, y, z, w)] = (f[x] + f[y] + 1) \div 2 -
           (IF (f[z] % 2 = 1 \/ f[w] % 2 = 1) /\ f[x] % 2 # f[y] % 2
              THEN 1 ELSE 0)
  <1> DEFINE e == Corrected(x, y, z, w)
  <1>1. e.f = "corrected" /\ e.a = <<x, y, z, w>>
    BY DEF Corrected, Node
  <1>2. \A a : Apply(e, a, v) = (a[1] + a[2] + 1) \div 2 -
           (IF (a[3] % 2 = 1 \/ a[4] % 2 = 1) /\ a[1] % 2 # a[2] % 2
              THEN 1 ELSE 0)
    BY <1>1 DEF Apply
  <1> HIDE DEF e
  <1>3. e \in DOMAIN f
    BY DEF e
  <1>4. /\ x \in DOMAIN f /\ y \in DOMAIN f /\ z \in DOMAIN f /\ w \in DOMAIN f
        /\ f[e] = (f[x] + f[y] + 1) \div 2 -
           (IF (f[z] % 2 = 1 \/ f[w] % 2 = 1) /\ f[x] % 2 # f[y] % 2
              THEN 1 ELSE 0)
    BY <1>1, <1>2, <1>3, Operands4
  <1> QED BY <1>4 DEF e

LEMMA OfSum2In16 ==
  ASSUME NEW v, NEW f, Evaluates(f, v), NEW x, NEW y,
         Sum(16, <<x, y>>) \in DOMAIN f
  PROVE  /\ x \in DOMAIN f /\ y \in DOMAIN f
         /\ f[Sum(16, <<x, y>>)] = (f[x] + f[y]) % 65536
  <1> DEFINE e == Sum(16, <<x, y>>)
  <1>1. e.f = "sum" /\ e.a = <<x, y>> /\ e.p = 65536
    BY DEF Sum, Node
  <1>2. \A a : Apply(e, a, v) = Total(a) % 65536
    BY <1>1 DEF Apply
  <1> HIDE DEF e
  <1>3. e \in DOMAIN f
    BY DEF e
  <1>4. /\ x \in DOMAIN f /\ y \in DOMAIN f
        /\ f[e] = (f[x] + f[y]) % 65536
    BY <1>1, <1>2, <1>3, Operands2 DEF Total
  <1> QED BY <1>4 DEF e

LEMMA OfSum3In16 ==
  ASSUME NEW v, NEW f, Evaluates(f, v), NEW x, NEW y, NEW z,
         Sum(16, <<x, y, z>>) \in DOMAIN f
  PROVE  /\ x \in DOMAIN f /\ y \in DOMAIN f /\ z \in DOMAIN f
         /\ f[Sum(16, <<x, y, z>>)] = (f[x] + f[y] + f[z]) % 65536
  <1> DEFINE e == Sum(16, <<x, y, z>>)
  <1>1. e.f = "sum" /\ e.a = <<x, y, z>> /\ e.p = 65536
    BY DEF Sum, Node
  <1>2. \A a : Apply(e, a, v) = Total(a) % 65536
    BY <1>1 DEF Apply
  <1> HIDE DEF e
  <1>3. e \in DOMAIN f
    BY DEF e
  <1>4. /\ x \in DOMAIN f /\ y \in DOMAIN f /\ z \in DOMAIN f
        /\ f[e] = (f[x] + f[y] + f[z]) % 65536
    BY <1>1, <1>2, <1>3, Operands3 DEF Total
  <1> QED BY <1>4 DEF e

LEMMA OfSum4In16 ==
  ASSUME NEW v, NEW f, Evaluates(f, v), NEW x, NEW y, NEW z, NEW w,
         Sum(16, <<x, y, z, w>>) \in DOMAIN f
  PROVE  /\ x \in DOMAIN f /\ y \in DOMAIN f /\ z \in DOMAIN f /\ w \in DOMAIN f
         /\ f[Sum(16, <<x, y, z, w>>)] = (f[x] + f[y] + f[z] + f[w]) % 65536
  <1> DEFINE e == Sum(16, <<x, y, z, w>>)
  <1>1. e.f = "sum" /\ e.a = <<x, y, z, w>> /\ e.p = 65536
    BY DEF Sum, Node
  <1>2. \A a : Apply(e, a, v) = Total(a) % 65536
    BY <1>1 DEF Apply
  <1> HIDE DEF e
  <1>3. e \in DOMAIN f
    BY DEF e
  <1>4. /\ x \in DOMAIN f /\ y \in DOMAIN f /\ z \in DOMAIN f /\ w \in DOMAIN f
        /\ f[e] = (f[x] + f[y] + f[z] + f[w]) % 65536
    BY <1>1, <1>2, <1>3, Operands4 DEF Total
  <1> QED BY <1>4 DEF e

LEMMA OfSum2In8 ==
  ASSUME NEW v, NEW f, Evaluates(f, v), NEW x, NEW y,
         Sum(8, <<x, y>>) \in DOMAIN f
  PROVE  /\ x \in DOMAIN f /\ y \in DOMAIN f
         /\ f[Sum(8, <<x, y>>)] = (f[x] + f[y]) % 256
  <1> DEFINE e == Sum(8, <<x, y>>)
  <1>1. e.f = "sum" /\ e.a = <<x, y>> /\ e.p = 256
    BY DEF Sum, Node
  <1>2. \A a : Apply(e, a, v) = Total(a) % 256
    BY <1>1 DEF Apply
  <1> HIDE DEF e
  <1>3. e \in DOMAIN f
    BY DEF e
  <1>4. /\ x \in DOMAIN f /\ y \in DOMAIN f
        /\ f[e] = (f[x] + f[y]) % 256
    BY <1>1, <1>2, <1>3, Operands2 DEF Total
  <1> QED BY <1>4 DEF e

LEMMA OfSum3In8 ==
  ASSUME NEW v, NEW f, Evaluates(f, v), NEW x, NEW y, NEW z,
         Sum(8, <<x, y, z>>) \in DOMAIN f
  PROVE  /\ x \in DOMAIN f /\ y \in DOMAIN f /\ z \in DOMAIN f
         /\ f[Sum(8, <<x, y, z>>)] = (f[x] + f[y] + f[z]) % 256
  <1> DEFINE e == Sum(8, <<x, y, z>>)
  <1>1. e.f = "sum" /\ e.a = <<x, y, z>> /\ e.p = 256
    BY DEF Sum, Node
  <1>2. \A a : Apply(e, a, v) = Total(a) % 256
    BY <1>1 DEF Apply
  <1> HIDE DEF e
  <1>3. e \in DOMAIN f
    BY DEF e
  <1>4. /\ x \in DOMAIN f /\ y \in DOMAIN f /\ z \in DOMAIN f
        /\ f[e] = (f[x] + f[y] + f[z]) % 256
    BY <1>1, <1>2, <1>3, Operands3 DEF Total
  <1> QED BY <1>4 DEF e

LEMMA OfTimes ==
  ASSUME NEW v, NEW f, Evaluates(f, v), NEW x, NEW n,
         Times(n, x) \in DOMAIN f
  PROVE  /\ x \in DOMAIN f
         /\ f[Times(n, x)] = n * f[x]
  <1> DEFINE e == Times(n, x)
  <1>1. e.f = "times" /\ e.a = <<x>> /\ e.p = n
    BY DEF Times, Node
  <1>2. \A a : Apply(e, a, v) = n * a[1]
    BY <1>1 DEF Apply
  <1> HIDE DEF e
  <1>3. e \in DOMAIN f
    BY DEF e
  <1>4. /\ x \in DOMAIN f
        /\ f[e] = n * f[x]
    BY <1>1, <1>2, <1>3, Operands1
  <1> QED BY <1>4 DEF e

LEMMA OfPack22 ==
  ASSUME NEW v, NEW f, Evaluates(f, v), NEW x,
         Pack(x, 2, 2) \in DOMAIN f
  PROVE  /\ x \in DOMAIN f
         /\ f[Pack(x, 2, 2)] = LET n == (f[x] + 2) \div 4
           IN IF n > 255 THEN 255 ELSE n
  <1> DEFINE e == Pack(x, 2, 2)
  <1>1. e.f = "pack" /\ e.a = <<x>> /\ e.p[1] = 2 /\ e.p[2] = 4
    BY DEF Pack, Node
  <1>2. \A a : Apply(e, a, v) = LET n == (a[1] + 2) \div 4
           IN IF n > 255 THEN 255 ELSE n
    BY <1>1 DEF Apply
  <1> HIDE DEF e
  <1>3. e \in DOMAIN f
    BY DEF e
  <1>4. /\ x \in DOMAIN f
        /\ f[e] = LET n == (f[x] + 2) \div 4
           IN IF n > 255 THEN 255 ELSE n
    BY <1>1, <1>2, <1>3, Operands1
  <1> QED BY <1>4 DEF e

LEMMA OfPack32 ==
  ASSUME NEW v, NEW f, Evaluates(f, v), NEW x,
         Pack(x, 3, 2) \in DOMAIN f
  PROVE  /\ x \in DOMAIN f
         /\ f[Pack(x, 3, 2)] = LET n == (f[x] + 3) \div 4
           IN IF n > 255 THEN 255 ELSE n
  <1> DEFINE e == Pack(x, 3, 2)
  <1>1. e.f = "pack" /\ e.a = <<x>> /\ e.p[1] = 3 /\ e.p[2] = 4
    BY DEF Pack, Node
  <1>2. \A a : Apply(e, a, v) = LET n == (a[1] + 3) \div 4
           IN IF n > 255 THEN 255 ELSE n
    BY <1>1 DEF Apply
  <1> HIDE DEF e
  <1>3. e \in DOMAIN f
    BY DEF e
  <1>4. /\ x \in DOMAIN f
        /\ f[e] = LET n == (f[x] + 3) \div 4
           IN IF n > 255 THEN 255 ELSE n
    BY <1>1, <1>2, <1>3, Operands1
  <1> QED BY <1>4 DEF e

LEMMA OfPack63 ==
  ASSUME NEW v, NEW f, Evaluates(f, v), NEW x,
         Pack(x, 6, 3) \in DOMAIN f
  PROVE  /\ x \in DOMAIN f
         /\ f[Pack(x, 6, 3)] = LET n == (f[x] + 6) \div 8
           IN IF n > 255 THEN 255 ELSE n
  <1> DEFINE e == Pack(x, 6, 3)
  <1>1. e.f = "pack" /\ e.a = <<x>> /\ e.p[1] = 6 /\ e.p[2] = 8
    BY DEF Pack, Node
  <1>2. \A a : Apply(e, a, v) = LET n == (a[1] + 6) \div 8
           IN IF n > 255 THEN 255 ELSE n
    BY <1>1 DEF Apply
  <1> HIDE DEF e
  <1>3. e \in DOMAIN f
    BY DEF e
  <1>4. /\ x \in DOMAIN f
        /\ f[e] = LET n == (f[x] + 6) \div 8
           IN IF n > 255 THEN 255 ELSE n
    BY <1>1, <1>2, <1>3, Operands1
  <1> QED BY <1>4 DEF e

LEMMA OfLow ==
  ASSUME NEW v, NEW f, Evaluates(f, v), NEW x,
         Low(x) \in DOMAIN f
  PROVE  /\ x \in DOMAIN f
         /\ f[Low(x)] = f[x] % 4
  <1> DEFINE e == Low(x)
  <1>1. e.f = "low" /\ e.a = <<x>>
    BY DEF Low, Node
  <1>2. \A a : Apply(e, a, v) = a[1] % 4
    BY <1>1 DEF Apply
  <1> HIDE DEF e
  <1>3. e \in DOMAIN f
    BY DEF e
  <1>4. /\ x \in DOMAIN f
        /\ f[e] = f[x] % 4
    BY <1>1, <1>2, <1>3, Operands1
  <1> QED BY <1>4 DEF e

LEMMA OfHigh ==
  ASSUME NEW v, NEW f, Evaluates(f, v), NEW x,
         High(x) \in DOMAIN f
  PROVE  /\ x \in DOMAIN f
         /\ f[High(x)] = f[x] \div 4
  <1> DEFINE e == High(x)
  <1>1. e.f = "high" /\ e.a = <<x>>
    BY DEF High, Node
  <1>2. \A a : Apply(e, a, v) = a[1] \div 4
    BY <1>1 DEF Apply
  <1> HIDE DEF e
  <1>3. e \in DOMAIN f
    BY DEF e
  <1>4. /\ x \in DOMAIN f
        /\ f[e] = f[x] \div 4
    BY <1>1, <1>2, <1>3, Operands1
  <1> QED BY <1>4 DEF e

(* The value of a sample                                                   *)
LEMMA OfSample ==
  ASSUME NEW v, NEW f, Evaluates(f, v), NEW g \in {"ref", "dest"}, NEW p,
         Node(g, p, <<>>) \in DOMAIN f
  PROVE  f[Node(g, p, <<>>)] = v[<<g, p>>]
  <1> DEFINE e == Node(g, p, <<>>)
  <1>1. e.f = g /\ e.p = p
    BY DEF Node
  <1>2. \A a : Apply(e, a, v) = v[<<g, p>>]
    BY <1>1 DEF Apply
  <1> HIDE DEF e
  <1> QED BY <1>2, Applied DEF e

-----------------------------------------------------------------------------
(* The exclusive or of bytes is even if their sum is.                      *)
LEMMA XorParity ==
  ASSUME NEW a \in 0 .. 255, NEW b \in 0 .. 255
  PROVE  XorByte(a, b) \in Nat /\ XorByte(a, b) % 2 = (a + b) % 2
  <1>1. ASSUME NEW m \in 0 .. 15, NEW n \in 0 .. 15
        PROVE  /\ XorTable[<<m, n>>] \in Nat
               /\ XorTable[<<m, n>>] % 2 = (m + n) % 2
    <2> DEFINE x1 == XorBit(m, n, 1)
               x2 == XorBit(m, n, 2)
               x4 == XorBit(m, n, 4)
               x8 == XorBit(m, n, 8)
    <2>1. XorTable[<<m, n>>] = x1 + 2 * x2 + 4 * x4 + 8 * x8
      BY DEF XorTable
    <2>2. /\ x1 \in Nat /\ x2 \in Nat /\ x4 \in Nat /\ x8 \in Nat
          /\ x1 = (m + n) % 2 /\ x1 \in 0 .. 1
      BY DEF XorBit
    <2> HIDE DEF x1, x2, x4, x8
    <2>3. x1 + 2 * x2 + 4 * x4 + 8 * x8 = x1 + 2 * (x2 + 2 * x4 + 4 * x8)
      BY <2>2
    <2>4. \A q \in Nat : (x1 + 2 * q) % 2 = x1 /\ x1 + 2 * q \in Nat
      BY <2>2
    <2>5. x2 + 2 * x4 + 4 * x8 \in Nat
      BY <2>2
    <2>6. /\ (x1 + 2 * (x2 + 2 * x4 + 4 * x8)) % 2 = x1
          /\ x1 + 2 * (x2 + 2 * x4 + 4 * x8) \in Nat
      BY <2>4, <2>5
    <2> QED BY <2>1, <2>2, <2>3, <2>6
  <1> DEFINE h == XorTable[<<a \div 16, b \div 16>>]
             l == XorTable[<<a % 16, b % 16>>]
  <1>2. a \div 16 \in 0 .. 15 /\ b \div 16 \in 0 .. 15
    OBVIOUS
  <1>3. (a % 16) \in 0 .. 15 /\ (b % 16) \in 0 .. 15
    OBVIOUS
  <1>4. ((a % 16) + (b % 16)) % 2 = (a + b) % 2
    OBVIOUS
  <1>5. h \in Nat
    BY <1>1, <1>2
  <1>6. l \in Nat /\ l % 2 = (a + b) % 2
    BY <1>1, <1>3, <1>4
  <1>7. XorByte(a, b) = 16 * h + l
    BY DEF XorByte
  <1> HIDE DEF h, l
  <1>8. (16 * h + l) % 2 = l % 2 /\ 16 * h + l \in Nat
    BY <1>5, <1>6
  <1> QED BY <1>6, <1>7, <1>8

(* Means of two by bits are rounded up.                                    *)
LEMMA BitMeans ==
  ASSUME NEW a \in 0 .. 255, NEW b \in 0 .. 255
  PROVE  /\ OrByte(a, b) - XorByte(a, b) \div 2 = (a + b + 1) \div 2
         /\ AndByte(a, b) + XorByte(a, b) \div 2 + (XorByte(a, b) % 2)
              = (a + b + 1) \div 2
  <1> DEFINE x == XorByte(a, b)
  <1>1. x \in Nat /\ x % 2 = (a + b) % 2
    BY XorParity
  <1>2. OrByte(a, b) = (a + b + x) \div 2 /\ AndByte(a, b) = (a + b - x) \div 2
    BY DEF OrByte, AndByte
  <1> HIDE DEF x
  <1>3. /\ (a + b + x) \div 2 - x \div 2 = (a + b + 1) \div 2
        /\ (a + b - x) \div 2 + x \div 2 + (x % 2) = (a + b + 1) \div 2
    BY <1>1
  <1> QED BY <1>2, <1>3 DEF x

(* Sums of upper six and lower two bits do not leave a byte.               *)
LEMMA PartsOfSum ==
  ASSUME NEW a \in 0 .. 255, NEW b \in 0 .. 255
  PROVE  /\ ((a % 4) + (b % 4)) % 256 = (a % 4) + (b % 4)
         /\ (a \div 4 + b \div 4) % 256 = a \div 4 + b \div 4
         /\ a + b = 4 * (a \div 4 + b \div 4) + ((a % 4) + (b % 4))
  <1>1. \A n \in Nat : n = 4 * (n \div 4) + (n % 4)
    OBVIOUS
  <1>2. a = 4 * (a \div 4) + (a % 4) /\ b = 4 * (b \div 4) + (b % 4)
    BY <1>1
  <1>3. /\ a \div 4 \in 0 .. 63 /\ b \div 4 \in 0 .. 63
        /\ (a % 4) \in 0 .. 3 /\ (b % 4) \in 0 .. 3
    OBVIOUS
  <1> QED BY <1>2, <1>3

-----------------------------------------------------------------------------
(* Operands that have values have bytes.                                   *)
Byte(x, f) == x \in DOMAIN f => f[x] \in 0 .. 255

LEMMA Means2Value ==
  ASSUME NEW v, NEW f, Evaluates(f, v), NEW a, NEW b, Byte(a, f), Byte(b, f),
         NEW e \in Means2(a, b), e \in DOMAIN f
  PROVE  /\ a \in DOMAIN f /\ b \in DOMAIN f
         /\ f[e] = (f[a] + f[b] + 1) \div 2
         /\ f[e] \in 0 .. 255
  <1>1. ASSUME NEW x, NEW y, Byte(x, f), Byte(y, f),
               e \in {Avg(x, y), OrAvg(x, y), AndAvg(x, y)}
        PROVE  /\ x \in DOMAIN f /\ y \in DOMAIN f
               /\ f[e] = (f[x] + f[y] + 1) \div 2
    <2>1. CASE e = Avg(x, y)
      BY <2>1, OfAvg
    <2>2. CASE e = OrAvg(x, y)
      <3>1. /\ x \in DOMAIN f /\ y \in DOMAIN f
            /\ f[e] = OrByte(f[x], f[y]) - XorByte(f[x], f[y]) \div 2
        BY <2>2, OfOrAvg
      <3>2. f[x] \in 0 .. 255 /\ f[y] \in 0 .. 255
        BY <1>1, <3>1 DEF Byte
      <3> QED BY <3>1, <3>2, BitMeans
    <2>3. CASE e = AndAvg(x, y)
      <3>1. /\ x \in DOMAIN f /\ y \in DOMAIN f
            /\ f[e] = AndByte(f[x], f[y]) + XorByte(f[x], f[y]) \div 2
                      + (XorByte(f[x], f[y]) % 2)
        BY <2>3, OfAndAvg
      <3>2. f[x] \in 0 .. 255 /\ f[y] \in 0 .. 255
        BY <1>1, <3>1 DEF Byte
      <3> QED BY <3>1, <3>2, BitMeans
    <2> QED BY <1>1, <2>1, <2>2, <2>3
  <1>2. \/ e \in {Avg(a, b), OrAvg(a, b), AndAvg(a, b)}
        \/ e \in {Avg(b, a), OrAvg(b, a), AndAvg(b, a)}
    BY DEF Means2, Orders
  <1>3. /\ a \in DOMAIN f /\ b \in DOMAIN f
        /\ f[e] = (f[a] + f[b] + 1) \div 2
    <2>1. CASE e \in {Avg(a, b), OrAvg(a, b), AndAvg(a, b)}
      BY <1>1, <2>1
    <2>2. CASE e \in {Avg(b, a), OrAvg(b, a), AndAvg(b, a)}
      <3>1. /\ a \in DOMAIN f /\ b \in DOMAIN f
            /\ f[e] = (f[b] + f[a] + 1) \div 2
        BY <1>1, <2>2
      <3>2. PICK i \in 0 .. 255, j \in 0 .. 255 : f[a] = i /\ f[b] = j
        BY <3>1 DEF Byte
      <3>3. f[b] + f[a] + 1 = f[a] + f[b] + 1
        BY <3>2
      <3> QED BY <3>1, <3>3
    <2> QED BY <1>2, <2>1, <2>2
  <1>4. PICK i \in 0 .. 255, j \in 0 .. 255 : f[a] = i /\ f[b] = j
    BY <1>3 DEF Byte
  <1>5. (i + j + 1) \div 2 \in 0 .. 255
    OBVIOUS
  <1> QED BY <1>3, <1>4, <1>5

(* Sums and means of four                                                  *)
LEMMA InLanesValue ==
  ASSUME NEW v, NEW f, Evaluates(f, v), NEW a, NEW b, NEW c, NEW d,
         Byte(a, f), Byte(b, f), Byte(c, f), Byte(d, f),
         InLanes(<<a, b>>, <<c, d>>) \in DOMAIN f
  PROVE  /\ {a, b, c, d} \subseteq DOMAIN f
         /\ f[InLanes(<<a, b>>, <<c, d>>)]
              = (f[a] + f[b] + f[c] + f[d] + 2) \div 4
  <1> DEFINE s == Sum(16, <<a, b, c, d>>)
  <1>1. InLanes(<<a, b>>, <<c, d>>) = Pack(s, 2, 2)
    BY DEF InLanes
  <1>2. /\ s \in DOMAIN f
        /\ f[Pack(s, 2, 2)] = LET n == (f[s] + 2) \div 4
                              IN IF n > 255 THEN 255 ELSE n
    BY <1>1, OfPack22
  <1>3. /\ a \in DOMAIN f /\ b \in DOMAIN f /\ c \in DOMAIN f /\ d \in DOMAIN f
        /\ f[s] = (f[a] + f[b] + f[c] + f[d]) % 65536
    BY <1>2, OfSum4In16
  <1>4. PICK ia \in 0 .. 255, ib \in 0 .. 255, ic \in 0 .. 255,
            id \in 0 .. 255 :
         f[a] = ia /\ f[b] = ib /\ f[c] = ic /\ f[d] = id
    <2>1. /\ a \in DOMAIN f /\ b \in DOMAIN f
          /\ c \in DOMAIN f /\ d \in DOMAIN f
      BY <1>3
    <2> QED BY <2>1, Zenon DEF Byte
  <1>5. f[s] = ia + ib + ic + id
    BY <1>3, <1>4
  <1> HIDE DEF s
  <1> QED BY <1>1, <1>2, <1>3, <1>4, <1>5

LEMMA OfSumsValue ==
  ASSUME NEW v, NEW f, Evaluates(f, v), NEW a, NEW b, NEW c, NEW d,
         Byte(a, f), Byte(b, f), Byte(c, f), Byte(d, f),
         OfSums(<<a, b>>, <<c, d>>) \in DOMAIN f
  PROVE  /\ {a, b, c, d} \subseteq DOMAIN f
         /\ f[OfSums(<<a, b>>, <<c, d>>)]
              = (f[a] + f[b] + f[c] + f[d] + 2) \div 4
  <1> DEFINE s == Sum(16, <<a, b>>)
             t == Sum(16, <<c, d>>)
             u == Sum(16, <<s, t>>)
  <1>1. OfSums(<<a, b>>, <<c, d>>) = Pack(u, 2, 2)
    BY DEF OfSums
  <1>2. /\ u \in DOMAIN f
        /\ f[Pack(u, 2, 2)] = LET n == (f[u] + 2) \div 4
                              IN IF n > 255 THEN 255 ELSE n
    BY <1>1, OfPack22
  <1>3. s \in DOMAIN f /\ t \in DOMAIN f /\ f[u] = (f[s] + f[t]) % 65536
    BY <1>2, OfSum2In16
  <1>4. /\ a \in DOMAIN f /\ b \in DOMAIN f /\ f[s] = (f[a] + f[b]) % 65536
        /\ c \in DOMAIN f /\ d \in DOMAIN f /\ f[t] = (f[c] + f[d]) % 65536
    BY <1>3, OfSum2In16
  <1> HIDE DEF s, t, u
  <1>5. PICK ia \in 0 .. 255, ib \in 0 .. 255, ic \in 0 .. 255,
            id \in 0 .. 255 :
         f[a] = ia /\ f[b] = ib /\ f[c] = ic /\ f[d] = id
    <2>1. /\ a \in DOMAIN f /\ b \in DOMAIN f
          /\ c \in DOMAIN f /\ d \in DOMAIN f
      BY <1>4
    <2> QED BY <2>1, Zenon DEF Byte
  <1>6. f[s] = ia + ib /\ f[t] = ic + id
    BY <1>4, <1>5
  <1>7. f[u] = ia + ib + ic + id
    BY <1>3, <1>5, <1>6
  <1> QED BY <1>1, <1>2, <1>4, <1>5, <1>7

LEMMA OfSumValue ==
  ASSUME NEW v, NEW f, Evaluates(f, v), NEW a, NEW b, NEW c, NEW d,
         Byte(a, f), Byte(b, f), Byte(c, f), Byte(d, f),
         OfSum(<<a, b>>, <<c, d>>) \in DOMAIN f
  PROVE  /\ {a, b, c, d} \subseteq DOMAIN f
         /\ f[OfSum(<<a, b>>, <<c, d>>)]
              = (f[a] + f[b] + f[c] + f[d] + 2) \div 4
  <1> DEFINE s == Sum(16, <<a, b>>)
             u == Sum(16, <<s, c, d>>)
  <1>1. OfSum(<<a, b>>, <<c, d>>) = Pack(u, 2, 2)
    BY DEF OfSum
  <1>2. /\ u \in DOMAIN f
        /\ f[Pack(u, 2, 2)] = LET n == (f[u] + 2) \div 4
                              IN IF n > 255 THEN 255 ELSE n
    BY <1>1, OfPack22
  <1>3. /\ s \in DOMAIN f /\ c \in DOMAIN f /\ d \in DOMAIN f
        /\ f[u] = (f[s] + f[c] + f[d]) % 65536
    BY <1>2, OfSum3In16
  <1>4. a \in DOMAIN f /\ b \in DOMAIN f /\ f[s] = (f[a] + f[b]) % 65536
    BY <1>3, OfSum2In16
  <1> HIDE DEF s, u
  <1>5. PICK ia \in 0 .. 255, ib \in 0 .. 255, ic \in 0 .. 255,
            id \in 0 .. 255 :
         f[a] = ia /\ f[b] = ib /\ f[c] = ic /\ f[d] = id
    <2>1. /\ a \in DOMAIN f /\ b \in DOMAIN f
          /\ c \in DOMAIN f /\ d \in DOMAIN f
      BY <1>3, <1>4
    <2> QED BY <2>1, Zenon DEF Byte
  <1>6. f[s] = ia + ib
    BY <1>4, <1>5
  <1>7. f[u] = ia + ib + ic + id
    BY <1>3, <1>5, <1>6
  <1> QED BY <1>1, <1>2, <1>3, <1>4, <1>5, <1>7

(* The mean of two means is one too much if one of them was rounded up and *)
(* it was rounded up itself.                                               *)
LEMMA OfMeansValue ==
  ASSUME NEW v, NEW f, Evaluates(f, v), NEW a, NEW b, NEW c, NEW d,
         Byte(a, f), Byte(b, f), Byte(c, f), Byte(d, f),
         OfMeans(<<a, b>>, <<c, d>>) \in DOMAIN f
  PROVE  /\ {a, b, c, d} \subseteq DOMAIN f
         /\ f[OfMeans(<<a, b>>, <<c, d>>)]
              = (f[a] + f[b] + f[c] + f[d] + 2) \div 4
  <1> DEFINE m == Avg(a, b)
             n == Avg(c, d)
             x == Differ(a, b)
             y == Differ(c, d)
             e == Corrected(m, n, x, y)
  <1>1. OfMeans(<<a, b>>, <<c, d>>) = e
    BY DEF OfMeans
  <1>2. /\ m \in DOMAIN f /\ n \in DOMAIN f /\ x \in DOMAIN f /\ y \in DOMAIN f
        /\ f[e] = (f[m] + f[n] + 1) \div 2 -
                  (IF (f[x] % 2 = 1 \/ f[y] % 2 = 1) /\ f[m] % 2 # f[n] % 2
                     THEN 1 ELSE 0)
    BY <1>1, OfCorrected
  <1>3. /\ a \in DOMAIN f /\ b \in DOMAIN f /\ f[m] = (f[a] + f[b] + 1) \div 2
        /\ c \in DOMAIN f /\ d \in DOMAIN f /\ f[n] = (f[c] + f[d] + 1) \div 2
    BY <1>2, OfAvg
  <1>4. f[x] = XorByte(f[a], f[b]) /\ f[y] = XorByte(f[c], f[d])
    BY <1>2, OfDiffer
  <1> HIDE DEF m, n, x, y, e
  <1>5. PICK ia \in 0 .. 255, ib \in 0 .. 255, ic \in 0 .. 255,
            id \in 0 .. 255 :
         f[a] = ia /\ f[b] = ib /\ f[c] = ic /\ f[d] = id
    <2>1. /\ a \in DOMAIN f /\ b \in DOMAIN f
          /\ c \in DOMAIN f /\ d \in DOMAIN f
      BY <1>3
    <2> QED BY <2>1, Zenon DEF Byte
  <1>6. PICK ix \in Nat, iy \in Nat :
           /\ f[x] = ix /\ ix % 2 = (ia + ib) % 2
           /\ f[y] = iy /\ iy % 2 = (ic + id) % 2
    <2>1. /\ XorByte(ia, ib) \in Nat /\ XorByte(ia, ib) % 2 = (ia + ib) % 2
          /\ XorByte(ic, id) \in Nat /\ XorByte(ic, id) % 2 = (ic + id) % 2
      BY XorParity
    <2>2. f[x] = XorByte(ia, ib) /\ f[y] = XorByte(ic, id)
      BY <1>4, <1>5
    <2> QED BY <2>1, <2>2, Zenon
  <1>7. f[e] = (ia + ib + ic + id + 2) \div 4
    <2> DEFINE im == (ia + ib + 1) \div 2
               io == (ic + id + 1) \div 2
               p == (ia + ib) % 2
               q == (ic + id) % 2
               w == (im + io) \div 2
               more == IF (ix % 2 = 1 \/ iy % 2 = 1) /\ im % 2 # io % 2
                         THEN 1 ELSE 0
    <2>1. f[m] = im /\ f[n] = io
      BY <1>3, <1>5
    <2>2. \A s \in Nat : /\ (s + 1) \div 2 \in Nat /\ s % 2 \in 0 .. 1
                        /\ s = 2 * ((s + 1) \div 2) - (s % 2)
      OBVIOUS
    <2>3. /\ p \in 0 .. 1 /\ im \in Nat /\ ia + ib = 2 * im - p
          /\ q \in 0 .. 1 /\ io \in Nat /\ ic + id = 2 * io - q
      <3>1. ia + ib \in Nat /\ ic + id \in Nat
        OBVIOUS
      <3> QED BY <2>2, <3>1
    <2>4. ix % 2 = p /\ iy % 2 = q
      BY <1>6
    <2> HIDE DEF im, io, p, q
    <2>5. /\ (im + io) % 2 = IF im % 2 = io % 2 THEN 0 ELSE 1
          /\ im + io = 2 * w + ((im + io) % 2) /\ w \in Nat
      <3>1. \A u \in Nat : u = 2 * (u \div 2) + (u % 2)
        OBVIOUS
      <3>2. \A k, l \in Nat : (k + l) % 2 = IF k % 2 = l % 2 THEN 0 ELSE 1
        OBVIOUS
      <3> QED BY <2>3, <3>1, <3>2
    <2> HIDE DEF w
    <2>6. (im + io + 1) \div 2 - more = (ia + ib + ic + id + 2) \div 4
      <3>1. CASE im % 2 = io % 2
        <4>1. im + io = 2 * w /\ more = 0
          BY <2>5, <3>1
        <4> HIDE DEF more
        <4>2. ia + ib + ic + id + 2 = 4 * w + 2 - p - q
          BY <2>3, <2>5, <4>1
        <4>3. (4 * w + 2 - p - q) \div 4 = w /\ (2 * w + 1) \div 2 = w
          BY <2>3, <2>5
        <4> QED BY <2>5, <4>1, <4>2, <4>3
      <3>2. CASE im % 2 # io % 2
        <4>1. /\ im + io = 2 * w + 1
              /\ more = IF p = 1 \/ q = 1 THEN 1 ELSE 0
          BY <2>4, <2>5, <3>2
        <4> HIDE DEF more
        <4>2. ia + ib + ic + id + 2 = 4 * w + 4 - p - q
          BY <2>3, <2>5, <4>1
        <4>3. /\ (4 * w + 4 - p - q) \div 4
                   = IF p = 1 \/ q = 1 THEN w ELSE w + 1
              /\ (2 * w + 1 + 1) \div 2 = w + 1
          BY <2>3, <2>5
        <4> QED BY <2>5, <4>1, <4>2, <4>3
      <3> QED BY <3>1, <3>2
    <2>7. f[e] = (im + io + 1) \div 2 - more
      BY <1>2, <1>6, <2>1
    <2> QED BY <2>6, <2>7
  <1> QED BY <1>1, <1>3, <1>5, <1>7

LEMMA InPartsValue ==
  ASSUME NEW v, NEW f, Evaluates(f, v), NEW a, NEW b, NEW c, NEW d,
         Byte(a, f), Byte(b, f), Byte(c, f), Byte(d, f),
         InParts(<<a, b>>, <<c, d>>) \in DOMAIN f
  PROVE  /\ {a, b, c, d} \subseteq DOMAIN f
         /\ f[InParts(<<a, b>>, <<c, d>>)]
              = (f[a] + f[b] + f[c] + f[d] + 2) \div 4
  <1> DEFINE h == Sum(8, <<High(a), High(b)>>)
             i == Sum(8, <<High(c), High(d)>>)
             l == Sum(8, <<Low(a), Low(b)>>)
             k == Sum(8, <<Low(c), Low(d)>>)
             s == Sum(8, <<l, k>>)
             p == Pack(s, 2, 2)
             e == Sum(8, <<h, i, Low(p)>>)
  <1>1. InParts(<<a, b>>, <<c, d>>) = e
    BY DEF InParts
  <1>2. /\ h \in DOMAIN f /\ i \in DOMAIN f /\ Low(p) \in DOMAIN f
        /\ f[e] = (f[h] + f[i] + f[Low(p)]) % 256
    BY <1>1, OfSum3In8
  <1>3. p \in DOMAIN f /\ f[Low(p)] = f[p] % 4
    BY <1>2, OfLow
  <1>4. /\ s \in DOMAIN f
        /\ f[p] = LET n == (f[s] + 2) \div 4 IN IF n > 255 THEN 255 ELSE n
    BY <1>3, OfPack22
  <1>5. l \in DOMAIN f /\ k \in DOMAIN f /\ f[s] = (f[l] + f[k]) % 256
    BY <1>4, OfSum2In8
  <1>6. /\ Low(a) \in DOMAIN f /\ Low(b) \in DOMAIN f
        /\ Low(c) \in DOMAIN f /\ Low(d) \in DOMAIN f
        /\ f[l] = (f[Low(a)] + f[Low(b)]) % 256
        /\ f[k] = (f[Low(c)] + f[Low(d)]) % 256
    BY <1>5, OfSum2In8
  <1>7. /\ High(a) \in DOMAIN f /\ High(b) \in DOMAIN f
        /\ High(c) \in DOMAIN f /\ High(d) \in DOMAIN f
        /\ f[h] = (f[High(a)] + f[High(b)]) % 256
        /\ f[i] = (f[High(c)] + f[High(d)]) % 256
    BY <1>2, OfSum2In8
  <1>8. /\ a \in DOMAIN f /\ b \in DOMAIN f /\ c \in DOMAIN f /\ d \in DOMAIN f
        /\ f[Low(a)] = f[a] % 4 /\ f[Low(b)] = f[b] % 4
        /\ f[Low(c)] = f[c] % 4 /\ f[Low(d)] = f[d] % 4
    BY <1>6, OfLow
  <1>9. /\ f[High(a)] = f[a] \div 4 /\ f[High(b)] = f[b] \div 4
        /\ f[High(c)] = f[c] \div 4 /\ f[High(d)] = f[d] \div 4
    BY <1>7, OfHigh
  <1>10. PICK ia \in 0 .. 255, ib \in 0 .. 255, ic \in 0 .. 255,
            id \in 0 .. 255 :
         f[a] = ia /\ f[b] = ib /\ f[c] = ic /\ f[d] = id
    <2>1. /\ a \in DOMAIN f /\ b \in DOMAIN f
          /\ c \in DOMAIN f /\ d \in DOMAIN f
      BY <1>8
    <2> QED BY <2>1, Zenon DEF Byte
  <1> HIDE DEF h, i, l, k, s, p, e
  <1>11. /\ ia % 4 \in 0 .. 3 /\ ib % 4 \in 0 .. 3
         /\ ic % 4 \in 0 .. 3 /\ id % 4 \in 0 .. 3
         /\ ia \div 4 \in 0 .. 63 /\ ib \div 4 \in 0 .. 63
         /\ ic \div 4 \in 0 .. 63 /\ id \div 4 \in 0 .. 63
    OBVIOUS
  <1>12. /\ f[l] = ((ia % 4) + (ib % 4)) % 256
         /\ f[k] = ((ic % 4) + (id % 4)) % 256
         /\ f[h] = (ia \div 4 + ib \div 4) % 256
         /\ f[i] = (ic \div 4 + id \div 4) % 256
    BY <1>6, <1>7, <1>8, <1>9, <1>10
  <1> DEFINE il == (ia % 4) + (ib % 4)
             ik == (ic % 4) + (id % 4)
             ih == ia \div 4 + ib \div 4
             ii == ic \div 4 + id \div 4
  <1>13. f[l] = il /\ f[k] = ik /\ f[h] = ih /\ f[i] = ii
    BY <1>12, PartsOfSum
  <1>14. il \in 0 .. 6 /\ ik \in 0 .. 6 /\ ih \in 0 .. 126 /\ ii \in 0 .. 126
    BY <1>11
  <1>15. ia + ib = 4 * ih + il /\ ic + id = 4 * ii + ik
    BY PartsOfSum
  <1> HIDE DEF il, ik, ih, ii
  <1>16. f[s] = il + ik
    BY <1>5, <1>13, <1>14
  <1>17. f[p] = (il + ik + 2) \div 4
    BY <1>4, <1>14, <1>16
  <1>18. f[e] = (ih + ii + (((il + ik + 2) \div 4) % 4)) % 256
    BY <1>2, <1>3, <1>13, <1>17
  <1>19. (ih + ii + (((il + ik + 2) \div 4) % 4)) % 256
           = (ia + ib + ic + id + 2) \div 4
    <2>1. ((il + ik + 2) \div 4) % 4 = (il + ik + 2) \div 4
      BY <1>14
    <2>2. ih + ii + (il + ik + 2) \div 4 \in 0 .. 255
      BY <1>14
    <2>3. ia + ib + ic + id + 2 = 4 * (ih + ii) + (il + ik + 2)
      BY <1>14, <1>15
    <2>4. (4 * (ih + ii) + (il + ik + 2)) \div 4
            = ih + ii + (il + ik + 2) \div 4
      BY <1>14
    <2> QED BY <2>1, <2>2, <2>3, <2>4
  <1> QED BY <1>1, <1>8, <1>10, <1>18, <1>19

LEMMA Means4Value ==
  ASSUME NEW v, NEW f, Evaluates(f, v), NEW a, NEW b, NEW c, NEW d,
         Byte(a, f), Byte(b, f), Byte(c, f), Byte(d, f),
         NEW e \in Means4(a, b, c, d), e \in DOMAIN f
  PROVE  /\ {a, b, c, d} \subseteq DOMAIN f
         /\ f[e] = (f[a] + f[b] + f[c] + f[d] + 2) \div 4
         /\ f[e] \in 0 .. 255
  <1> DEFINE Four(s, t) ==
               {InLanes(s, t), OfSums(s, t), OfSum(s, t), OfMeans(s, t),
                InParts(s, t)}
  <1>1. ASSUME NEW x, NEW y, NEW z, NEW w,
               Byte(x, f), Byte(y, f), Byte(z, f), Byte(w, f),
               e \in Four(<<x, y>>, <<z, w>>)
        PROVE  /\ {x, y, z, w} \subseteq DOMAIN f
               /\ f[e] = (f[x] + f[y] + f[z] + f[w] + 2) \div 4
    <2>1. CASE e = InLanes(<<x, y>>, <<z, w>>)
      BY <1>1, <2>1, InLanesValue
    <2>2. CASE e = OfSums(<<x, y>>, <<z, w>>)
      BY <1>1, <2>2, OfSumsValue
    <2>3. CASE e = OfSum(<<x, y>>, <<z, w>>)
      BY <1>1, <2>3, OfSumValue
    <2>4. CASE e = OfMeans(<<x, y>>, <<z, w>>)
      BY <1>1, <2>4, OfMeansValue
    <2>5. CASE e = InParts(<<x, y>>, <<z, w>>)
      BY <1>1, <2>5, InPartsValue
    <2> QED BY <1>1, <2>1, <2>2, <2>3, <2>4, <2>5
  <1>2. \/ e \in Four(<<a, b>>, <<c, d>>) \/ e \in Four(<<c, d>>, <<a, b>>)
        \/ e \in Four(<<a, d>>, <<b, c>>) \/ e \in Four(<<b, c>>, <<a, d>>)
    BY DEF Means4, Orders
  <1> HIDE DEF Four
  <1>3. {a, b, c, d} \subseteq DOMAIN f
    BY <1>1, <1>2
  <1>4. PICK ia \in 0 .. 255, ib \in 0 .. 255, ic \in 0 .. 255,
             id \in 0 .. 255 :
          f[a] = ia /\ f[b] = ib /\ f[c] = ic /\ f[d] = id
    <2>1. /\ a \in DOMAIN f /\ b \in DOMAIN f
          /\ c \in DOMAIN f /\ d \in DOMAIN f
      BY <1>3
    <2> QED BY <2>1, Zenon DEF Byte
  <1>5. \/ f[e] = (ia + ib + ic + id + 2) \div 4
        \/ f[e] = (ic + id + ia + ib + 2) \div 4
        \/ f[e] = (ia + id + ib + ic + 2) \div 4
        \/ f[e] = (ib + ic + ia + id + 2) \div 4
    BY <1>1, <1>2, <1>4
  <1>6. f[e] = (ia + ib + ic + id + 2) \div 4
    <2>1. /\ ic + id + ia + ib + 2 = ia + ib + ic + id + 2
          /\ ia + id + ib + ic + 2 = ia + ib + ic + id + 2
          /\ ib + ic + ia + id + 2 = ia + ib + ic + id + 2
      OBVIOUS
    <2> QED BY <1>5, <2>1
  <1>7. (ia + ib + ic + id + 2) \div 4 \in 0 .. 255
    OBVIOUS
  <1> QED BY <1>3, <1>4, <1>6, <1>7

(* The weighted sums of VIS are the mean with dest of the rounded mean.    *)
LEMMA Weighted2Value ==
  ASSUME NEW v, NEW f, Evaluates(f, v), NEW d, NEW a, NEW b,
         Byte(a, f), Byte(b, f), Byte(d, f),
         NEW e \in Weighted2(d, a, b), e \in DOMAIN f
  PROVE  /\ {a, b, d} \subseteq DOMAIN f
         /\ f[e] = ((f[a] + f[b] + 1) \div 2 + f[d] + 1) \div 2
  <1>1. ASSUME NEW x, NEW y, Byte(x, f), Byte(y, f),
               e = Pack(Sum(16, <<x, y, Times(2, d)>>), 3, 2)
        PROVE  /\ {x, y, d} \subseteq DOMAIN f
               /\ f[e] = ((f[x] + f[y] + 1) \div 2 + f[d] + 1) \div 2
    <2> DEFINE t == Times(2, d)
               s == Sum(16, <<x, y, t>>)
    <2>1. /\ s \in DOMAIN f
          /\ f[e] = LET n == (f[s] + 3) \div 4 IN IF n > 255 THEN 255 ELSE n
      BY <1>1, OfPack32
    <2>2. /\ x \in DOMAIN f /\ y \in DOMAIN f /\ t \in DOMAIN f
          /\ f[s] = (f[x] + f[y] + f[t]) % 65536
      BY <2>1, OfSum3In16
    <2>3. d \in DOMAIN f /\ f[t] = 2 * f[d]
      BY <2>2, OfTimes
    <2> HIDE DEF s, t
    <2>4. PICK ix \in 0 .. 255, iy \in 0 .. 255, id \in 0 .. 255 :
            f[x] = ix /\ f[y] = iy /\ f[d] = id
      <3>1. x \in DOMAIN f /\ y \in DOMAIN f /\ d \in DOMAIN f
        BY <2>2, <2>3
      <3> QED BY <1>1, <3>1, Zenon DEF Byte
    <2>5. f[s] = ix + iy + 2 * id
      BY <2>2, <2>3, <2>4
    <2>6. f[e] = (ix + iy + 2 * id + 3) \div 4
      BY <2>1, <2>5
    <2>7. (ix + iy + 2 * id + 3) \div 4 = ((ix + iy + 1) \div 2 + id + 1) \div 2
      OBVIOUS
    <2> QED BY <2>2, <2>3, <2>4, <2>6, <2>7
  <1>2. \/ e = Pack(Sum(16, <<a, b, Times(2, d)>>), 3, 2)
        \/ e = Pack(Sum(16, <<b, a, Times(2, d)>>), 3, 2)
    BY DEF Weighted2, Orders
  <1>3. CASE e = Pack(Sum(16, <<b, a, Times(2, d)>>), 3, 2)
    <2>1. /\ {a, b, d} \subseteq DOMAIN f
          /\ f[e] = ((f[b] + f[a] + 1) \div 2 + f[d] + 1) \div 2
      BY <1>1, <1>3
    <2>2. PICK i \in 0 .. 255, j \in 0 .. 255 : f[a] = i /\ f[b] = j
      <3>1. a \in DOMAIN f /\ b \in DOMAIN f
        BY <2>1
      <3> QED BY <3>1, Zenon DEF Byte
    <2>3. f[b] + f[a] + 1 = f[a] + f[b] + 1
      BY <2>2
    <2> QED BY <2>1, <2>3
  <1> QED BY <1>1, <1>2, <1>3

LEMMA Weighted4Value ==
  ASSUME NEW v, NEW f, Evaluates(f, v), NEW d, NEW a, NEW b, NEW c, NEW g,
         Byte(a, f), Byte(b, f), Byte(c, f), Byte(g, f), Byte(d, f),
         NEW e \in Weighted4(d, a, b, c, g), e \in DOMAIN f
  PROVE  /\ {a, b, c, g, d} \subseteq DOMAIN f
         /\ f[e] = ((f[a] + f[b] + f[c] + f[g] + 2) \div 4 + f[d] + 1) \div 2
  <1> DEFINE t == Times(4, d)
             Whole(s, u) == Pack(Sum(16, <<t, Sum(16, s), Sum(16, u)>>), 6, 3)
             Part(s, u) == Pack(Sum(16, <<t, Sum(16, s), u[1], u[2]>>), 6, 3)
  <1>1. ASSUME NEW x, NEW y, NEW z, NEW w,
               Byte(x, f), Byte(y, f), Byte(z, f), Byte(w, f),
               \/ e = Whole(<<x, y>>, <<z, w>>)
               \/ e = Part(<<x, y>>, <<z, w>>)
        PROVE  /\ {x, y, z, w, d} \subseteq DOMAIN f
               /\ f[e] = ((f[x] + f[y] + f[z] + f[w] + 2) \div 4 + f[d] + 1)
                           \div 2
    <2> DEFINE s == Sum(16, <<x, y>>)
               u == Sum(16, <<z, w>>)
    <2>1. CASE e = Whole(<<x, y>>, <<z, w>>)
      <3> DEFINE r == Sum(16, <<t, s, u>>)
      <3>1. /\ r \in DOMAIN f
            /\ f[e] = LET n == (f[r] + 6) \div 8 IN IF n > 255 THEN 255 ELSE n
        BY <2>1, OfPack63
      <3>2. /\ t \in DOMAIN f /\ s \in DOMAIN f /\ u \in DOMAIN f
            /\ f[r] = (f[t] + f[s] + f[u]) % 65536
        BY <3>1, OfSum3In16
      <3>3. /\ x \in DOMAIN f /\ y \in DOMAIN f /\ f[s] = (f[x] + f[y]) % 65536
            /\ z \in DOMAIN f /\ w \in DOMAIN f /\ f[u] = (f[z] + f[w]) % 65536
        BY <3>2, OfSum2In16
      <3>4. d \in DOMAIN f /\ f[t] = 4 * f[d]
        BY <3>2, OfTimes
      <3> HIDE DEF r, s, u, t
      <3>5. PICK i \in 0 .. 255, j \in 0 .. 255, k \in 0 .. 255,
                 l \in 0 .. 255, m \in 0 .. 255 :
              f[x] = i /\ f[y] = j /\ f[z] = k /\ f[w] = l /\ f[d] = m
        <4>1. /\ x \in DOMAIN f /\ y \in DOMAIN f /\ z \in DOMAIN f
              /\ w \in DOMAIN f /\ d \in DOMAIN f
          BY <3>3, <3>4
        <4> QED BY <1>1, <4>1, Zenon DEF Byte
      <3>6. f[s] = i + j /\ f[u] = k + l /\ f[t] = 4 * m
        BY <3>3, <3>4, <3>5
      <3>7. f[r] = 4 * m + (i + j + k + l)
        BY <3>2, <3>5, <3>6
      <3>8. f[e] = (4 * m + (i + j + k + l) + 6) \div 8
        BY <3>1, <3>5, <3>7
      <3>9. {x, y, z, w, d} \subseteq DOMAIN f
        BY <3>3, <3>4
      <3>10. (4 * m + (i + j + k + l) + 6) \div 8
                = ((i + j + k + l + 2) \div 4 + m + 1) \div 2
        OBVIOUS
      <3> QED BY <3>5, <3>8, <3>9, <3>10
    <2>2. CASE e = Part(<<x, y>>, <<z, w>>)
      <3> DEFINE r == Sum(16, <<t, s, z, w>>)
      <3>0. e = Pack(r, 6, 3)
        BY <2>2
      <3>1. /\ r \in DOMAIN f
            /\ f[e] = LET n == (f[r] + 6) \div 8 IN IF n > 255 THEN 255 ELSE n
        BY <3>0, OfPack63
      <3>2. /\ t \in DOMAIN f /\ s \in DOMAIN f
            /\ z \in DOMAIN f /\ w \in DOMAIN f
            /\ f[r] = (f[t] + f[s] + f[z] + f[w]) % 65536
        BY <3>1, OfSum4In16
      <3>3. /\ x \in DOMAIN f /\ y \in DOMAIN f /\ f[s] = (f[x] + f[y]) % 65536
        BY <3>2, OfSum2In16
      <3>4. d \in DOMAIN f /\ f[t] = 4 * f[d]
        BY <3>2, OfTimes
      <3> HIDE DEF r, s, t
      <3>5. PICK i \in 0 .. 255, j \in 0 .. 255, k \in 0 .. 255,
                 l \in 0 .. 255, m \in 0 .. 255 :
              f[x] = i /\ f[y] = j /\ f[z] = k /\ f[w] = l /\ f[d] = m
        <4>1. /\ x \in DOMAIN f /\ y \in DOMAIN f /\ z \in DOMAIN f
              /\ w \in DOMAIN f /\ d \in DOMAIN f
          BY <3>2, <3>3, <3>4
        <4> QED BY <1>1, <4>1, Zenon DEF Byte
      <3>6. f[s] = i + j /\ f[t] = 4 * m
        BY <3>3, <3>4, <3>5
      <3>7. f[r] = 4 * m + (i + j + k + l)
        BY <3>2, <3>5, <3>6
      <3>8. f[e] = (4 * m + (i + j + k + l) + 6) \div 8
        BY <3>1, <3>5, <3>7
      <3>9. {x, y, z, w, d} \subseteq DOMAIN f
        BY <3>2, <3>3, <3>4
      <3>10. (4 * m + (i + j + k + l) + 6) \div 8
                = ((i + j + k + l + 2) \div 4 + m + 1) \div 2
        OBVIOUS
      <3> QED BY <3>5, <3>8, <3>9, <3>10
    <2> QED BY <1>1, <2>1, <2>2
  <1>2. \/ e = Whole(<<a, b>>, <<c, g>>) \/ e = Part(<<a, b>>, <<c, g>>)
        \/ e = Whole(<<c, g>>, <<a, b>>) \/ e = Part(<<c, g>>, <<a, b>>)
    BY DEF Weighted4, Orders
  <1> HIDE DEF Whole, Part
  <1>3. CASE e = Whole(<<a, b>>, <<c, g>>) \/ e = Part(<<a, b>>, <<c, g>>)
    BY <1>1, <1>3
  <1>4. CASE e = Whole(<<c, g>>, <<a, b>>) \/ e = Part(<<c, g>>, <<a, b>>)
    <2>1. /\ {c, g, a, b, d} \subseteq DOMAIN f
          /\ f[e] = ((f[c] + f[g] + f[a] + f[b] + 2) \div 4 + f[d] + 1) \div 2
      BY <1>1, <1>4
    <2>2. PICK i \in 0 .. 255, j \in 0 .. 255, k \in 0 .. 255, l \in 0 .. 255 :
            f[a] = i /\ f[b] = j /\ f[c] = k /\ f[g] = l
      <3>1. /\ a \in DOMAIN f /\ b \in DOMAIN f
            /\ c \in DOMAIN f /\ g \in DOMAIN f
        BY <2>1
      <3> QED BY <3>1, Zenon DEF Byte
    <2>3. k + l + i + j + 2 = i + j + k + l + 2
      OBVIOUS
    <2>4. f[c] + f[g] + f[a] + f[b] + 2 = f[a] + f[b] + f[c] + f[g] + 2
      BY <2>2, <2>3
    <2> QED BY <2>1, <2>4
  <1> QED BY <1>2, <1>3, <1>4

-----------------------------------------------------------------------------
(* Every mean that a motion compensation function stores is the one that   *)
(* the function in C stores, for samples of any value: by bits, in lanes   *)
(* of bytes and of words, with two means corrected, in parts of six and    *)
(* two bits, and weighted with dest.                                       *)
THEOREM EveryFormRounds ==
  ASSUME NEW op \in {"put", "avg"}, NEW halfX \in {0, 1}, NEW halfY \in {0, 1},
         NEW row \in Nat,
         NEW v \in [Sources(op, halfX, halfY, row) -> 0 .. 255],
         NEW f, Evaluates(f, v),
         NEW e \in Forms(op, halfX, halfY, row), e \in DOMAIN f
  PROVE  f[e] = Predicted(op, halfX, halfY, row, v)
  <1> DEFINE Sample(y, x) == Node("ref", <<row + y, x>>, <<>>)
             a == Sample(0, 0)
             b == Sample(0, 1)
             c == Sample(1, 0)
             d == Sample(1, 1)
             dest == Node("dest", <<row>>, <<>>)
             va == v[<<"ref", <<row + 0, 0>>>>]
             vb == v[<<"ref", <<row + 0, 1>>>>]
             vc == v[<<"ref", <<row + 1, 0>>>>]
             vd == v[<<"ref", <<row + 1, 1>>>>]
             vdest == v[<<"dest", <<row>>>>]
             means == CASE halfX = 0 /\ halfY = 0 -> {a}
                        [] halfX = 1 /\ halfY = 0 -> Means2(a, b)
                        [] halfX = 0 /\ halfY = 1 -> Means2(a, c)
                        [] halfX = 1 /\ halfY = 1 -> Means4(a, b, c, d)
             weighted == CASE halfX = 0 /\ halfY = 0 -> {}
                           [] halfX = 1 /\ halfY = 0 -> Weighted2(dest, a, b)
                           [] halfX = 0 /\ halfY = 1 -> Weighted2(dest, a, c)
                           [] halfX = 1 /\ halfY = 1 ->
                                Weighted4(dest, a, b, c, d)
             predicted ==
               CASE halfX = 0 /\ halfY = 0 -> va
                 [] halfX = 1 /\ halfY = 0 -> (va + vb + 1) \div 2
                 [] halfX = 0 /\ halfY = 1 -> (va + vc + 1) \div 2
                 [] halfX = 1 /\ halfY = 1 -> (va + vb + vc + vd + 2) \div 4
  <1>0. ASSUME NEW y \in 0 .. halfY, NEW x \in 0 .. halfX
        PROVE  /\ Sample(y, x) \in DOMAIN f =>
                    f[Sample(y, x)] = v[<<"ref", <<row + y, x>>>>]
               /\ Byte(Sample(y, x), f)
    <2>1. <<"ref", <<row + y, x>>>> \in Sources(op, halfX, halfY, row)
      BY DEF Sources
    <2>2. v[<<"ref", <<row + y, x>>>>] \in 0 .. 255
      BY <2>1
    <2>3. Sample(y, x) \in DOMAIN f =>
            f[Sample(y, x)] = v[<<"ref", <<row + y, x>>>>]
      BY OfSample
    <2> QED BY <2>2, <2>3, Zenon DEF Byte
  <1>1. /\ a \in DOMAIN f => f[a] = va
        /\ Byte(a, f)
    <2>1. 0 \in 0 .. halfX /\ 0 \in 0 .. halfY
      OBVIOUS
    <2> QED BY <1>0, <2>1, Zenon
  <1>2. halfX = 1 => /\ b \in DOMAIN f => f[b] = vb
                     /\ Byte(b, f)
    <2>1. halfX = 1 => 1 \in 0 .. halfX /\ 0 \in 0 .. halfY
      OBVIOUS
    <2> QED BY <1>0, <2>1, Zenon
  <1>3. halfY = 1 => /\ c \in DOMAIN f => f[c] = vc
                     /\ Byte(c, f)
    <2>1. halfY = 1 => 0 \in 0 .. halfX /\ 1 \in 0 .. halfY
      OBVIOUS
    <2> QED BY <1>0, <2>1, Zenon
  <1>4. halfX = 1 /\ halfY = 1 => /\ d \in DOMAIN f => f[d] = vd
                                  /\ Byte(d, f)
    <2>1. halfX = 1 /\ halfY = 1 => 1 \in 0 .. halfX /\ 1 \in 0 .. halfY
      OBVIOUS
    <2> QED BY <1>0, <2>1, Zenon
  <1>5. op = "avg" => /\ dest \in DOMAIN f => f[dest] = vdest
                      /\ Byte(dest, f)
    <2>1. op = "avg" => <<"dest", <<row>>>> \in Sources(op, halfX, halfY, row)
      BY DEF Sources
    <2>2. op = "avg" => vdest \in 0 .. 255
      BY <2>1
    <2>3. dest \in DOMAIN f => f[dest] = vdest
      BY OfSample
    <2> QED BY <2>2, <2>3, Zenon DEF Byte
  <1>6. /\ Forms(op, halfX, halfY, row)
             = IF op = "put" THEN means
               ELSE weighted \cup UNION {Means2(m, dest) : m \in means}
        /\ Predicted(op, halfX, halfY, row, v)
             = IF op = "put" THEN predicted ELSE (predicted + vdest + 1) \div 2
    BY DEF Forms, Predicted
  <1>7. \/ halfX = 0 /\ halfY = 0
        \/ halfX = 1 /\ halfY = 0
        \/ halfX = 0 /\ halfY = 1
        \/ halfX = 1 /\ halfY = 1
    OBVIOUS
  <1> HIDE DEF a, b, c, d, dest, va, vb, vc, vd, vdest
  <1>8. ASSUME NEW m \in means
        PROVE  /\ m \in DOMAIN f => f[m] = predicted
               /\ Byte(m, f)
    <2>1. CASE halfX = 0 /\ halfY = 0
      BY <1>1, <1>8, <2>1
    <2>2. CASE halfX = 1 /\ halfY = 0
      <3>1. ASSUME m \in DOMAIN f
            PROVE  f[m] = (va + vb + 1) \div 2 /\ f[m] \in 0 .. 255
        <4>1. m \in Means2(a, b)
          BY <1>8, <2>2
        <4>2. /\ a \in DOMAIN f /\ b \in DOMAIN f
              /\ f[m] = (f[a] + f[b] + 1) \div 2
              /\ f[m] \in 0 .. 255
          BY <1>1, <1>2, <2>2, <3>1, <4>1, Means2Value
        <4>3. f[a] = va /\ f[b] = vb
          BY <1>1, <1>2, <2>2, <4>2
        <4> QED BY <4>2, <4>3
      <3> QED BY <2>2, <3>1 DEF Byte
    <2>3. CASE halfX = 0 /\ halfY = 1
      <3>1. ASSUME m \in DOMAIN f
            PROVE  f[m] = (va + vc + 1) \div 2 /\ f[m] \in 0 .. 255
        <4>1. m \in Means2(a, c)
          BY <1>8, <2>3
        <4>2. /\ a \in DOMAIN f /\ c \in DOMAIN f
              /\ f[m] = (f[a] + f[c] + 1) \div 2
              /\ f[m] \in 0 .. 255
          BY <1>1, <1>3, <2>3, <3>1, <4>1, Means2Value
        <4>3. f[a] = va /\ f[c] = vc
          BY <1>1, <1>3, <2>3, <4>2
        <4> QED BY <4>2, <4>3
      <3> QED BY <2>3, <3>1 DEF Byte
    <2>4. CASE halfX = 1 /\ halfY = 1
      <3>1. ASSUME m \in DOMAIN f
            PROVE  f[m] = (va + vb + vc + vd + 2) \div 4 /\ f[m] \in 0 .. 255
        <4>1. m \in Means4(a, b, c, d)
          BY <1>8, <2>4
        <4>2. /\ {a, b, c, d} \subseteq DOMAIN f
              /\ f[m] = (f[a] + f[b] + f[c] + f[d] + 2) \div 4
              /\ f[m] \in 0 .. 255
          BY <1>1, <1>2, <1>3, <1>4, <2>4, <3>1, <4>1, Means4Value
        <4>3. f[a] = va /\ f[b] = vb /\ f[c] = vc /\ f[d] = vd
          BY <1>1, <1>2, <1>3, <1>4, <2>4, <4>2
        <4> QED BY <4>2, <4>3
      <3> QED BY <2>4, <3>1 DEF Byte
    <2> QED BY <1>7, <2>1, <2>2, <2>3, <2>4
  <1>9. CASE op = "put"
    BY <1>6, <1>8, <1>9
  <1>10. CASE op = "avg" /\ e \in weighted
    <2>1. CASE halfX = 0 /\ halfY = 0
      BY <1>10, <2>1
    <2>2. CASE halfX = 1 /\ halfY = 0
      <3>1. e \in Weighted2(dest, a, b)
        BY <1>10, <2>2
      <3>2. /\ {a, b, dest} \subseteq DOMAIN f
            /\ f[e] = ((f[a] + f[b] + 1) \div 2 + f[dest] + 1) \div 2
        BY <1>1, <1>2, <1>5, <1>10, <2>2, <3>1, Weighted2Value
      <3>3. f[a] = va /\ f[b] = vb /\ f[dest] = vdest
        BY <1>1, <1>2, <1>5, <1>10, <2>2, <3>2
      <3> QED BY <1>6, <1>10, <2>2, <3>2, <3>3
    <2>3. CASE halfX = 0 /\ halfY = 1
      <3>1. e \in Weighted2(dest, a, c)
        BY <1>10, <2>3
      <3>2. /\ {a, c, dest} \subseteq DOMAIN f
            /\ f[e] = ((f[a] + f[c] + 1) \div 2 + f[dest] + 1) \div 2
        BY <1>1, <1>3, <1>5, <1>10, <2>3, <3>1, Weighted2Value
      <3>3. f[a] = va /\ f[c] = vc /\ f[dest] = vdest
        BY <1>1, <1>3, <1>5, <1>10, <2>3, <3>2
      <3> QED BY <1>6, <1>10, <2>3, <3>2, <3>3
    <2>4. CASE halfX = 1 /\ halfY = 1
      <3>1. e \in Weighted4(dest, a, b, c, d)
        BY <1>10, <2>4
      <3>2. /\ {a, b, c, d, dest} \subseteq DOMAIN f
            /\ f[e] = ((f[a] + f[b] + f[c] + f[d] + 2) \div 4 + f[dest] + 1)
                        \div 2
        BY <1>1, <1>2, <1>3, <1>4, <1>5, <1>10, <2>4, <3>1, Weighted4Value
      <3>3. /\ f[a] = va /\ f[b] = vb /\ f[c] = vc /\ f[d] = vd
            /\ f[dest] = vdest
        BY <1>1, <1>2, <1>3, <1>4, <1>5, <1>10, <2>4, <3>2
      <3> QED BY <1>6, <1>10, <2>4, <3>2, <3>3
    <2> QED BY <1>7, <2>1, <2>2, <2>3, <2>4
  <1>11. ASSUME op = "avg", NEW m \in means, e \in Means2(m, dest)
         PROVE  f[e] = Predicted(op, halfX, halfY, row, v)
    <2>1. /\ m \in DOMAIN f => f[m] = predicted
          /\ Byte(m, f)
      BY <1>8, <1>11
    <2> HIDE DEF means, predicted
    <2>2. /\ m \in DOMAIN f /\ dest \in DOMAIN f
          /\ f[e] = (f[m] + f[dest] + 1) \div 2
      BY <1>5, <1>11, <2>1, Means2Value
    <2>3. f[e] = (predicted + vdest + 1) \div 2
      BY <1>5, <1>11, <2>1, <2>2
    <2> QED BY <1>6, <1>11, <2>3
  <1>12. op # "put" => op = "avg"
    OBVIOUS
  <1> HIDE DEF means, weighted, predicted
  <1>13. CASE op = "avg"
    <2>1. e \in weighted \cup UNION {Means2(m, dest) : m \in means}
      BY <1>6, <1>13
    <2>2. e \in weighted \/ \E m \in means : e \in Means2(m, dest)
      BY <2>1, Zenon
    <2> QED BY <1>10, <1>11, <1>13, <2>2
  <1> QED BY <1>9, <1>12, <1>13
=============================================================================
