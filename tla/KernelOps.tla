------------------------------ MODULE KernelOps ------------------------------
(***************************************************************************)
(* The language in which the motion compensation functions are written     *)
(* down.  A function treats all samples of a row alike, so a register      *)
(* stands for a row of them and holds the expression for one sample: what  *)
(* it was computed from, and how.  A program is a prologue, a loop body    *)
(* and an epilogue, each a sequence of instructions in the order of the    *)
(* source.                                                                 *)
(***************************************************************************)
EXTENDS Integers, Sequences

Node(f, p, a) == [f |-> f, p |-> p, a |-> a]
Junk == Node("junk", 0, <<>>)

(* Registers                                                               *)
Reg(r) == Node("reg", r, <<>>)
A == Reg("A")
B == Reg("B")
C == Reg("C")
D == Reg("D")
E == Reg("E")
M == Reg("M")
N == Reg("N")
P == Reg("P")
X == Reg("X")
Y == Reg("Y")

(* Loads, k rows below ref or dest: from column c on; the aligned words of *)
(* eight that hold a row, with one more than the block is wide always, or  *)
(* only if it is not aligned; the two aligned words of sixteen with the    *)
(* first sample of a row and with sample last.                             *)
Row(k, c) == Node("row", <<k, c>>, <<>>)
Words(k, always) == Node("words", <<k, always>>, <<>>)
Vectors(k, last) == Node("vectors", <<k, last>>, <<>>)
Dest(k) == Node("old", k, <<>>)

(* Shifting words into place: by what alignaddr was given last; by one     *)
(* more, where the second word alone is right if that is a whole word; by  *)
(* the lvsl of the first row (0) or the second (1) and n more.             *)
Align(a) == Node("align", 0, <<a>>)
AlignNext(a) == Node("alignnext", 0, <<a>>)
Perm(a, row, n) == Node("perm", <<row, n>>, <<a>>)

(* Means of two, rounded up: pavgb, pavgusb, vec_avg and avg2; (a|b) -     *)
(* ((a^b)>>1); (a&b) + ((a^b)>>1) + ((a^b)&1).                             *)
Avg(a, b) == Node("avg", 0, <<a, b>>)
OrAvg(a, b) == Node("oravg", 0, <<a, b>>)
AndAvg(a, b) == Node("andavg", 0, <<a, b>>)
(* The mean of two means, less one where the sum was rounded up twice      *)
Differ(a, b) == Node("differ", 0, <<a, b>>)
Corrected(m, n, x, y) == Node("corrected", 0, <<m, n, x, y>>)
(* Sums in lanes of some bits, and (a + bias) >> shift                     *)
Sum(bits, s) == Node("sum", 2 ^ bits, s)
Times(n, a) == Node("times", n, <<a>>)
Pack(a, bias, shift) == Node("pack", <<bias, 2 ^ shift>>, <<a>>)
(* a & 3 and a >> 2                                                        *)
Low(a) == Node("low", 0, <<a>>)
High(a) == Node("high", 0, <<a>>)

(* Instructions                                                            *)
Set(r, e) == [op |-> "set", k |-> r.p, e |-> e]
Store(k, e) == [op |-> "store", k |-> k, e |-> e]
NextRef == [op |-> "ref", k |-> 1, e |-> Junk]        \* ref += stride
NextDest == [op |-> "dest", k |-> 1, e |-> Junk]      \* dest += stride
AlignAddr(n) == [op |-> "gsr", k |-> n, e |-> Junk]   \* alignaddr_g0 (off + n)
LastRow == [op |-> "last", k |-> 0, e |-> Junk]   \* if (--h == 0) stride = 0

(* height = (height >> shift) - less; do body while (--height)             *)
Program(prologue, shift, less, body, epilogue) ==
  [prologue |-> prologue, shift |-> shift, less |-> less, body |-> body,
   epilogue |-> epilogue]
Loop(body) == Program(<<>>, 0, 0, body, <<>>)
=============================================================================
