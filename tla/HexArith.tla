------------------------------ MODULE HexArith ------------------------------
(***************************************************************************)
(* Facts about quotients, remainders and products of natural numbers,      *)
(* which the proofs about rows, pages and pieces rest on; that every set   *)
(* of them has a least one, which stands in for induction; and what a      *)
(* recursion, as that of FlattenSeq, goes through.                         *)
(***************************************************************************)
EXTENDS Integers, SequencesExt, WellFoundedInduction, SequenceTheorems, TLAPS

\* A remainder is smaller than the divisor and no larger than the dividend.
LEMMA ModFacts ==
  ASSUME NEW a \in Nat, NEW b \in Nat \ {0}
  PROVE  /\ a % b \in 0..b - 1 /\ a % b \in Nat
         /\ a % b <= a
         /\ a \div b \in Nat
OBVIOUS

\* Euclidean division.
LEMMA DivMod ==
  ASSUME NEW a \in Nat, NEW b \in Nat \ {0}
  PROVE  a = b * (a \div b) + (a % b)
OBVIOUS

\* Multiplication is monotonic.
LEMMA MulMono ==
  ASSUME NEW a \in Nat, NEW b \in Nat, NEW c \in Nat, a <= b
  PROVE  c * a <= c * b
OBVIOUS

\* What is inside the first of two spans that do not overlap is not in the second.
LEMMA BeforeSpan ==
  ASSUME NEW o \in Int, NEW start \in Nat, NEW size \in Nat, NEW part \in Nat, NEW next \in Nat,
         part <= size, start + size <= next, o < start + part
  PROVE  ~(next <= o)
OBVIOUS

\* A quotient is the only one with its remainder.
LEMMA QuotientIs ==
  ASSUME NEW a \in Nat, NEW b \in Nat \ {0}, NEW q \in Nat, NEW r \in 0..b - 1, a = b * q + r
  PROVE  a \div b = q /\ a % b = r
<1> DEFINE d == a \div b
<1>1. d \in Nat /\ a % b \in 0..b - 1 /\ a = b * d + (a % b)
  BY ModFacts, DivMod
<1> HIDE DEF d
<1>2. ASSUME q < d PROVE FALSE
  <2>1. b * (q + 1) <= b * d
    BY <1>1, <1>2, MulMono
  <2>2. b * (q + 1) = b * q + b
    OBVIOUS
  <2> QED BY <1>1, <2>1, <2>2
<1>3. ASSUME q > d PROVE FALSE
  <2>1. b * (d + 1) <= b * q
    BY <1>1, <1>3, MulMono
  <2>2. b * (d + 1) = b * d + b
    BY <1>1
  <2> QED BY <1>1, <2>1, <2>2
<1>4. q = d
  BY <1>1, <1>2, <1>3
<1>5. a % b = r
  BY <1>1, <1>4
<1> QED BY <1>4, <1>5 DEF d

\* A quotient, also of a negative number: what it is at least and at most.
LEMMA QuotientBounds ==
  ASSUME NEW a \in Int, NEW b \in Nat \ {0}
  PROVE  /\ a \div b \in Int
         /\ b * (a \div b) <= a /\ a < b * (a \div b) + b
         /\ a % b = a - b * (a \div b)
OBVIOUS

LEMMA QuotientAtLeast ==
  ASSUME NEW a \in Int, NEW b \in Nat \ {0}, NEW q \in Int
  PROVE  q <= a \div b <=> b * q <= a
<1> DEFINE d == a \div b
<1>1. d \in Int /\ b * d <= a /\ a < b * d + b
  BY QuotientBounds
<1> HIDE DEF d
<1>2. ASSUME q <= d PROVE b * q <= a
  <2>1. PICK k \in Nat : d = q + k
    <3>1. d - q \in Nat /\ d = q + (d - q)
      BY <1>1, <1>2
    <3> QED BY <3>1
  <2>2. b * d = b * q + b * k /\ b * k \in Nat /\ b * q \in Int
    BY <2>1
  <2> QED BY <1>1, <2>2
<1>3. ASSUME ~(q <= d) PROVE ~(b * q <= a)
  <2>1. PICK k \in Nat : q = d + 1 + k
    <3>1. q - d - 1 \in Nat /\ q = d + 1 + (q - d - 1)
      BY <1>1, <1>3
    <3> QED BY <3>1
  <2>2. b * q = b * d + b + b * k /\ b * k \in Nat /\ b * d \in Int
    BY <1>1, <2>1
  <2> QED BY <1>1, <2>2
<1> QED BY <1>2, <1>3 DEF d

\* Quotients are monotonic, and a step of the divisor is one of theirs.
LEMMA QuotientSteps ==
  ASSUME NEW a \in Nat, NEW b \in Nat, NEW c \in Nat \ {0}, a <= b
  PROVE  /\ a \div c \in Nat /\ b \div c \in Nat /\ a \div c <= b \div c
         /\ b <= a + c => b \div c <= (a \div c) + 1
<1> DEFINE m == a \div c
           n == b \div c
<1>1. m \in Nat /\ n \in Nat
  BY ModFacts
<1>2. c * m <= a /\ a < c * m + c /\ c * n <= b
  BY QuotientBounds
<1>3. m <= n
  <2>1. c * m <= b
    BY <1>1, <1>2
  <2> QED BY <1>1, <2>1, QuotientAtLeast
<1>4. ASSUME b <= a + c, ~(n <= m + 1) PROVE FALSE
  <2>1. c * (m + 2) <= b
    <3>1. m + 2 <= n /\ m + 2 \in Int
      BY <1>1, <1>4
    <3> QED BY <3>1, QuotientAtLeast
  <2>2. c * (m + 2) = c * m + 2 * c
    BY <1>1
  <2>3. c * m \in Nat
    BY <1>1
  <2> QED BY <1>2, <1>4, <2>1, <2>2, <2>3
<1> QED BY <1>1, <1>3, <1>4 DEF m, n

\* Whole multiples do not change a remainder.
LEMMA ModAdd ==
  ASSUME NEW m \in Nat, NEW x \in Nat, NEW b \in Nat \ {0}
  PROVE  (m * b + x) % b = x % b
<1>1. x \div b \in Nat /\ x % b \in 0..b - 1 /\ x = b * (x \div b) + (x % b)
  BY ModFacts, DivMod
<1> DEFINE d == x \div b
<1> HIDE DEF d
<1>2. b * (m + d) = m * b + b * d
  BY <1>1 DEF d
<1>3. m * b + x = b * (m + d) + (x % b)
  BY <1>1, <1>2 DEF d
<1>4. m * b + x \in Nat /\ m + d \in Nat
  BY <1>1 DEF d
<1> QED BY <1>1, <1>3, <1>4, QuotientIs

\* Rounding up: the numbers below are those whose multiple is below.
LEMMA BelowDivUp ==
  ASSUME NEW a \in Nat, NEW b \in Nat \ {0}, NEW i \in Nat
  PROVE  i < (a \div b) + (IF a % b > 0 THEN 1 ELSE 0) <=> i * b < a
<1> DEFINE d == a \div b
<1>1. d \in Nat /\ a % b \in 0..b - 1 /\ a = b * d + (a % b)
  BY ModFacts, DivMod
<1> HIDE DEF d
<1>2. CASE i < d
  <2>1. b * (i + 1) <= b * d
    BY <1>1, <1>2, MulMono
  <2>2. b * (i + 1) = i * b + b
    OBVIOUS
  <2> QED BY <1>1, <1>2, <2>1, <2>2 DEF d
<1>3. CASE i = d
  BY <1>1, <1>3 DEF d
<1>4. CASE i > d
  <2>1. b * (d + 1) <= b * i
    BY <1>1, <1>4, MulMono
  <2>2. b * (d + 1) = b * d + b /\ b * i = i * b
    BY <1>1
  <2> QED BY <1>1, <1>4, <2>1, <2>2 DEF d
<1> QED BY <1>1, <1>2, <1>3, <1>4

\* A multiple that is not above a number is not above the largest such one.
LEMMA WholeBelow ==
  ASSUME NEW a \in Nat, NEW b \in Nat \ {0}, NEW m \in Nat
  PROVE  /\ (a \div b) * b = a - (a % b)
         /\ m * b <= a => m * b <= (a \div b) * b
<1> DEFINE d == a \div b
<1>1. d \in Nat /\ a % b \in 0..b - 1 /\ a = b * d + (a % b)
  BY ModFacts, DivMod
<1> HIDE DEF d
<1>2. ASSUME m * b <= a, m > d PROVE FALSE
  <2>1. b * (d + 1) <= b * m
    BY <1>1, <1>2, MulMono
  <2>2. b * (d + 1) = b * d + b /\ b * m = m * b
    BY <1>1
  <2> QED BY <1>1, <1>2, <2>1, <2>2
<1>3. m <= d => b * m <= b * d
  BY <1>1, MulMono
<1>4. b * m = m * b /\ b * d = d * b
  BY <1>1
<1> QED BY <1>1, <1>2, <1>3, <1>4 DEF d

\* A number without a remainder is a multiple.
LEMMA Divides ==
  ASSUME NEW a \in Nat \ {0}, NEW b \in Nat \ {0}, a % b = 0
  PROVE  \E m \in Nat \ {0} : a = m * b
<1> DEFINE d == a \div b
<1>1. d \in Nat /\ a = b * d + (a % b)
  BY ModFacts, DivMod
<1> HIDE DEF d
<1>2. b * d = d * b
  BY <1>1
<1>3. a = d * b
  BY <1>1, <1>2
<1>4. d # 0
  BY <1>1
<1> QED BY <1>1, <1>3, <1>4

\* A non-empty set of natural numbers has a least element.
LEMMA LeastOf ==
  ASSUME NEW S \in SUBSET Nat, S # {}
  PROVE  \E x \in S : \A y \in S : x <= y
<1> DEFINE Above(x, y) == ~(<<y, x>> \in OpToRel(<, Nat))
<1>1. \E x \in S : \A y \in S : Above(x, y)
  BY NatLessThanWellFounded, WFMin, Zenon
<1>2. \A x, y \in Nat : Above(x, y) => x <= y
  BY DEF OpToRel
<1> HIDE DEF Above
<1> QED BY <1>1, <1>2

\* Going by equal steps: an offset that is a whole number of steps behind another.
StepsBehind(o, s, n) == \E k \in Nat : o = s + k * n

\* Remainders say the same.
LEMMA BehindIffMod ==
  ASSUME NEW o \in Nat, NEW s \in Nat, NEW n \in Nat \ {0}, o >= s
  PROVE  (o - s) % n = 0 <=> StepsBehind(o, s, n)
<1>1. o - s \in Nat
  OBVIOUS
<1>2. ASSUME (o - s) % n = 0 PROVE StepsBehind(o, s, n)
  <2> DEFINE d == (o - s) \div n
  <2>1. d \in Nat /\ o - s = n * d + 0
    BY <1>1, <1>2, ModFacts, DivMod
  <2> HIDE DEF d
  <2>2. n * d = d * n /\ n * d \in Nat
    BY <2>1
  <2>3. o = s + d * n
    BY <2>1, <2>2
  <2> QED BY <2>1, <2>3 DEF StepsBehind
<1>3. ASSUME StepsBehind(o, s, n) PROVE (o - s) % n = 0
  <2>1. PICK k \in Nat : o = s + k * n
    BY <1>3 DEF StepsBehind
  <2>2. k * n = n * k /\ k * n \in Nat
    BY <2>1
  <2>3. o - s = n * k + 0
    BY <2>1, <2>2
  <2> QED BY <1>1, <2>1, <2>3, QuotientIs
<1> QED BY <1>2, <1>3

\* Steps behind one another add up.
LEMMA BehindAdds ==
  ASSUME NEW o \in Nat, NEW m \in Nat, NEW s \in Nat, NEW n \in Nat \ {0},
         StepsBehind(m, s, n)
  PROVE  /\ StepsBehind(o, m, n) => StepsBehind(o, s, n)
         /\ StepsBehind(o, s, n) /\ o >= m => StepsBehind(o, m, n)
<1>1. PICK j \in Nat : m = s + j * n
  BY DEF StepsBehind
<1>2. ASSUME StepsBehind(o, m, n) PROVE StepsBehind(o, s, n)
  <2>1. PICK k \in Nat : o = m + k * n
    BY <1>2 DEF StepsBehind
  <2>2. (j + k) * n = j * n + k * n /\ j + k \in Nat /\ j * n \in Nat /\ k * n \in Nat
    BY <1>1, <2>1
  <2>3. o = s + (j + k) * n
    BY <1>1, <2>1, <2>2
  <2> QED BY <2>2, <2>3 DEF StepsBehind
<1>3. ASSUME StepsBehind(o, s, n), o >= m PROVE StepsBehind(o, m, n)
  <2>1. PICK k \in Nat : o = s + k * n
    BY <1>3 DEF StepsBehind
  <2>2. j * n \in Nat /\ k * n \in Nat /\ j * n <= k * n
    BY <1>1, <1>3, <2>1
  <2>3. j <= k
    <3>1. ASSUME k < j PROVE FALSE
      <4>1. n * (k + 1) <= n * j
        BY <1>1, <2>1, <3>1, MulMono
      <4>2. n * (k + 1) = k * n + n /\ n * j = j * n
        BY <1>1, <2>1
      <4> QED BY <2>2, <4>1, <4>2
    <3> QED BY <1>1, <2>1, <3>1
  <2>4. k - j \in Nat /\ (k - j) * n = k * n - j * n
    BY <1>1, <2>1, <2>3
  <2>5. o = m + (k - j) * n
    BY <1>1, <2>1, <2>2, <2>4
  <2> QED BY <2>4, <2>5 DEF StepsBehind
<1> QED BY <1>2, <1>3

\* f begins with s0 and goes on by the functions F.
Recurs(f, n, s0, F) == f[0] = s0 /\ \A k \in 1..n : f[k] = F[k][f[k - 1]]

LEMMA RecursionExists ==
  ASSUME NEW S, NEW n \in Nat, NEW s0 \in S, NEW F \in [1..n -> [S -> S]]
  PROVE  \E f \in [0..n -> S] : Recurs(f, n, s0, F)
<1> DEFINE Upto(m, f) == f[0] = s0 /\ \A k \in 1..m : f[k] = F[k][f[k - 1]]
           Bad == {m \in 0..n : ~(\E f \in [0..m -> S] : Upto(m, f))}
<1>1. Bad = {}
  <2> SUFFICES ASSUME Bad # {} PROVE FALSE
    OBVIOUS
  <2>1. PICK m \in Bad : \A l \in Bad : m <= l
    <3>1. Bad \in SUBSET Nat
      OBVIOUS
    <3> HIDE DEF Bad
    <3> QED BY <3>1, LeastOf
  <2>2. CASE m = 0
    <3> DEFINE f == [k \in 0..0 |-> s0]
    <3>1. f \in [0..0 -> S] /\ Upto(0, f)
      OBVIOUS
    <3> QED BY <2>1, <2>2, <3>1
  <2>3. CASE m # 0
    <3>1. m \in 1..n /\ m - 1 \in 0..n /\ m - 1 \notin Bad
      <4>1. m \in 1..n /\ m - 1 \in 0..n /\ ~(m <= m - 1)
        BY <2>3
      <4> HIDE DEF Bad
      <4> QED BY <2>1, <4>1
    <3>2. PICK g \in [0..m - 1 -> S] : Upto(m - 1, g)
      BY <3>1
    <3> DEFINE f == [k \in 0..m |-> IF k = m THEN F[m][g[m - 1]] ELSE g[k]]
    <3>3. F[m][g[m - 1]] \in S
      BY <3>1
    <3>4. f \in [0..m -> S]
      BY <3>1, <3>3
    <3>5. f[0] = s0
      BY <3>1, <3>2
    <3>6. ASSUME NEW k \in 1..m PROVE f[k] = F[k][f[k - 1]]
      BY <3>1, <3>2, <3>6
    <3>7. Upto(m, f)
      BY <3>5, <3>6
    <3> HIDE DEF f
    <3> QED BY <2>1, <3>4, <3>7
  <2> QED BY <2>2, <2>3
<1>2. n \in 0..n
  OBVIOUS
<1>3. \E f \in [0..n -> S] : Upto(n, f)
  BY <1>1, <1>2
<1> QED BY <1>3 DEF Recurs

\* c goes through a flattened sequence of sequences, one after the other.
Flattens(c, seqs) ==
  /\ FlattenSeq(seqs) = c[Len(seqs)]
  /\ c[1] = seqs[1]
  /\ \A i \in 2..Len(seqs) : c[i] = c[i - 1] \o seqs[i]

LEMMA FlattenIs ==
  ASSUME NEW T, NEW seqs \in Seq(Seq(T)), Len(seqs) # 0
  PROVE  \E c : Flattens(c, seqs)
<1> DEFINE n == Len(seqs)
           G(flatten) == [i \in 1..n |-> IF i = 1 THEN seqs[i] ELSE flatten[i - 1] \o seqs[i]]
           F == [i \in 1..n |-> [s \in Seq(T) |-> s \o seqs[i]]]
           c == CHOOSE flatten : flatten = G(flatten)
<1>1. FlattenSeq(seqs) = c[n]
  BY Zenon DEF FlattenSeq
<1>2. n \in Nat \ {0} /\ \A i \in 1..n : seqs[i] \in Seq(T)
  OBVIOUS
<1>3. F \in [1..n -> [Seq(T) -> Seq(T)]]
  BY <1>2, ConcatProperties
<1>4. PICK f \in [0..n -> Seq(T)] :
           f[0] = <<>> /\ \A k \in 1..n : f[k] = F[k][f[k - 1]]
  <2> DEFINE S == Seq(T)
             none == <<>>
  <2>1. none \in S /\ n \in Nat /\ F \in [1..n -> [S -> S]]
    BY <1>3
  <2> HIDE DEF F, n, S, none
  <2>2. \E f \in [0..n -> S] : Recurs(f, n, none, F)
    BY <2>1, RecursionExists
  <2> QED BY <2>2 DEF S, none, Recurs
<1>5. \A k \in 1..n : f[k] = f[k - 1] \o seqs[k]
  <2> SUFFICES ASSUME NEW k \in 1..n PROVE f[k] = f[k - 1] \o seqs[k]
    OBVIOUS
  <2>1. k \in 0..n /\ k # 0 /\ k - 1 \in 0..n
    BY <1>2
  <2>2. f[k] = F[k][f[k - 1]] /\ f[k - 1] \in Seq(T)
    <3> HIDE DEF F, n
    <3> QED BY <1>4, <2>1
  <2> QED BY <2>2
<1> DEFINE g == [i \in 1..n |-> f[i]]
<1>6. g = G(g)
  <2>1. f[1] = seqs[1]
    <3>1. f[0] = <<>> /\ f[1] = f[0] \o seqs[1]
      <4>1. 0 \in 0..n /\ 1 \in 1..n /\ 1 - 1 = 0
        BY <1>2
      <4> HIDE DEF F, n
      <4> QED BY <1>4, <1>5, <4>1
    <3>2. seqs[1] \in Seq(T)
      BY <1>2
    <3> QED BY <3>1, <3>2
  <2>2. ASSUME NEW i \in 1..n PROVE g[i] = IF i = 1 THEN seqs[i] ELSE g[i - 1] \o seqs[i]
    <3>1. i = 1 \/ i - 1 \in 1..n
      BY <1>2
    <3> HIDE DEF F, n
    <3> QED BY <1>5, <2>1, <2>2, <3>1
  <2> HIDE DEF n
  <2> QED BY <2>2
<1>7. c = G(c)
  <2> HIDE DEF g, G
  <2> QED BY <1>6, Zenon
<1>8. \A i \in 1..n : c[i] = IF i = 1 THEN seqs[i] ELSE c[i - 1] \o seqs[i]
  <2> HIDE DEF c
  <2> QED BY <1>7
<1>9. c[1] = seqs[1] /\ \A i \in 2..n : c[i] = c[i - 1] \o seqs[i]
  <2>1. 1 \in 1..n /\ \A i \in 2..n : i \in 1..n /\ i # 1
    BY <1>2
  <2> HIDE DEF c, n
  <2> QED BY <1>8, <2>1
<1> HIDE DEF c
<1> QED BY <1>1, <1>9 DEF Flattens

=============================================================================
