-------------------------- MODULE HexModify_proofs --------------------------
(***************************************************************************)
(* A modification reaches the bytes it is meant for, each once and with    *)
(* its own byte of the operand: proofs for every size of the data, the     *)
(* cache and the fast operands.  The worker's pieces are shown to walk     *)
(* over a span without a gap or an overlap, the tail's pieces to go on     *)
(* where the worker's end.                                                 *)
(***************************************************************************)
EXTENDS HexModify, HexArith

\* The cache holds the operand, or the operand is a whole number of caches.
Held(c) == CacheHoldsOperand(c) \/ SmallMod(c) = 0

\* A span that ModifyData may be given.
InData(span) == span \in Spans /\ span.ullOffset + span.ullSize <= DataSize

\* From one piece's start to the next one's.
Step(c, span) == IF CacheHoldsOperand(c) THEN Aligned(c, span) ELSE CacheSize

\* The whole operands that fit into a span.
Whole(c, span) == (span.ullSize \div Operand(c)) * Operand(c)

\* What a call is, one by one.
LEMMA CallFacts ==
  ASSUME NEW c \in Calls
  PROVE  /\ c.mode \in Modes /\ c.virtual \in BOOLEAN /\ c.fill \in Nat \ {0}
         /\ c.spans \in Seq(Spans) /\ Len(c.spans) \in Nat \ {0}
         /\ \A i \in 1..Len(c.spans) : InData(c.spans[i])
         /\ Last(c.spans) = c.spans[Len(c.spans)]
<1>1. c \in [mode : Modes, virtual : BOOLEAN, spans : Seq(Spans), fill : Nat \ {0}] /\ c.spans # <<>>
  BY ModifyAssumption
<1>2. Len(c.spans) \in Nat \ {0}
  BY <1>1
<1>3. \A i \in 1..Len(c.spans) : InData(c.spans[i])
  BY <1>1, ModifyAssumption DEF InData
<1> QED BY <1>1, <1>2, <1>3 DEF Last

\* The last span of a call.
LEMMA LastFacts ==
  ASSUME NEW c \in Calls
  PROVE  /\ Last(c.spans).ullOffset \in Nat /\ Last(c.spans).ullSize \in Nat \ {0}
         /\ Last(c.spans).ullOffset + Last(c.spans).ullSize <= DataSize
<1>1. Len(c.spans) \in 1..Len(c.spans)
  BY CallFacts
<1>2. InData(Last(c.spans))
  BY <1>1, CallFacts
<1> QED BY <1>2 DEF InData, Spans

\* The worker's operand is a whole number of the call's; a longer one is for a
\* single span.
LEMMA OperandFacts ==
  ASSUME NEW c \in Calls
  PROVE  /\ Operand(c) \in Nat \ {0}
         /\ \E m \in Nat \ {0} : Operand(c) = m * c.fill
         /\ Operand(c) # c.fill => Len(c.spans) = 1
         /\ Operand(c) # c.fill => c.mode # "ONCE"
<1>1. c.mode \in Modes /\ c.fill \in Nat \ {0}
  BY CallFacts
<1>2. /\ {FastFill, VecSize, Word, RandBuffer} \subseteq Nat \ {0}
      /\ c.mode \in {"RAND_MT19937", "RAND_FAST"} => c.fill = 1
      /\ c.mode = "OPERATION" => VecSize % c.fill = 0
  BY ModifyAssumption
<1>3. ASSUME NEW b \in Nat \ {0}, b % c.fill = 0
      PROVE  \E m \in Nat \ {0} : b = m * c.fill
  BY <1>1, <1>3, Divides
<1>4. CASE Operand(c) = c.fill
  BY <1>1, <1>4
<1>5. CASE Operand(c) # c.fill
  <2>1. \/ c.mode = "REPEAT" /\ Operand(c) = FastFill /\ FastFill % c.fill = 0
        \/ c.mode = "OPERATION" /\ Operand(c) = VecSize
        \/ c.mode = "RAND_MT19937" /\ Operand(c) = Word
        \/ c.mode = "RAND_FAST" /\ Operand(c) = RandBuffer
    BY <1>5 DEF Operand
  <2>2. Single(c)
    BY <1>5 DEF Operand
  <2>3. Operand(c) \in Nat \ {0} /\ Operand(c) % c.fill = 0
    BY <1>1, <1>2, <2>1
  <2> QED BY <1>3, <2>1, <2>2, <2>3 DEF Single
<1> QED BY <1>4, <1>5

\* A piece by piece walk over a span: the i-th piece begins i steps behind the
\* span's start, with the operand's first byte at a whole operand, and
\* modifies whole operands up to the next piece or to the last that fits.
WalkedTo(c, span, i) == Least(i * Step(c, span), Whole(c, span))

Modified(c, p) == Times(c, p) * Unit(c, p)

GoodPiece(c, span, i, p) ==
  /\ p.ullOffset = span.ullOffset + i * Step(c, span)
  /\ p.ullSize \in Nat \ {0}
  /\ p.ullOffset + p.ullSize <= span.ullOffset + span.ullSize
  /\ c.virtual => p.ullSize <= CacheSize
  /\ p.first \in Nat
  /\ \E m \in Nat : i * Step(c, span) = m * Operand(c) + p.first
  /\ Times(c, p) \in Nat \ {0} /\ Unit(c, p) \in Nat \ {0}
  /\ i * Step(c, span) < Whole(c, span)
  /\ i * Step(c, span) + Modified(c, p) = WalkedTo(c, span, i + 1)

\* The pieces of an operand that the cache holds make up such a walk.
LEMMA LargeFacts ==
  ASSUME NEW c \in Calls, NEW span, InData(span), Operand(c) <= span.ullSize,
         CacheHoldsOperand(c), NEW i \in Nat
  PROVE  /\ HasPiece(c, span, i) => GoodPiece(c, span, i, WorkerPiece(c, span, i))
         /\ ~HasPiece(c, span, i) => WalkedTo(c, span, i) = Whole(c, span)
<1> DEFINE op == Operand(c)
           size == span.ullSize
           A == Aligned(c, span)
           p == LargePiece(c, span, i)
<1>1. /\ op \in Nat \ {0} /\ size \in Nat \ {0} /\ span.ullOffset \in Nat /\ op <= size
      /\ CacheSize \in Nat \ {0} /\ DataSize \in Nat \ {0}
      /\ span.ullOffset + size <= DataSize /\ c.virtual \in BOOLEAN
  BY CallFacts, OperandFacts, ModifyAssumption DEF InData, Spans
<1>2. /\ A \in Nat \ {0} /\ A <= size /\ op <= A
      /\ A # size => \E m \in Nat : A = m * op
      /\ c.virtual => A <= CacheSize
  <2>1. CASE ~c.virtual
    BY <1>1, <2>1 DEF Aligned
  <2>2. CASE c.virtual
    <3>1. op <= CacheSize
      BY <1>1, <2>2 DEF CacheHoldsOperand
    <3>2. CacheSize - (CacheSize % op) = (CacheSize \div op) * op /\ CacheSize \div op \in Nat
      BY <1>1, ModFacts, WholeBelow
    <3>3. 1 * op <= CacheSize => 1 * op <= (CacheSize \div op) * op
      BY <1>1, WholeBelow
    <3>4. CacheSize % op \in Nat
      BY <1>1, ModFacts
    <3> DEFINE w == CacheSize - (CacheSize % op)
    <3>5. w \in Nat /\ op <= w /\ w <= CacheSize /\ \E m \in Nat : w = m * op
      BY <1>1, <3>1, <3>2, <3>3, <3>4
    <3>6. A = Least(size, w)
      BY <2>2 DEF Aligned
    <3> HIDE DEF w, A, op, size
    <3> QED BY <1>1, <3>5, <3>6 DEF Least
  <2> QED BY <1>1, <2>1, <2>2
<1>3. /\ Step(c, span) = A /\ WorkerPiece(c, span, i) = p
      /\ Chunks(c, span) = DivUp(size, A)
  BY DEF Step, WorkerPiece, Chunks
<1> DEFINE room == size - i * A
<1>4. /\ p.ullOffset = span.ullOffset + i * A /\ p.first = 0
      /\ p.ullSize = Least(A, Least(DataSize, span.ullOffset + size) - p.ullOffset)
  BY DEF LargePiece, Piece
<1>5. Least(DataSize, span.ullOffset + size) = span.ullOffset + size
  BY <1>1 DEF Least
<1>6. i * A \in Nat
  BY <1>2
<1>7. i < Chunks(c, span) <=> i * A < size
  BY <1>1, <1>2, <1>3, BelowDivUp DEF DivUp
<1>8. p.ullSize = Least(A, room)
  <2> HIDE DEF p, size, A
  <2> QED BY <1>1, <1>2, <1>4, <1>5, <1>6
<1>9. HasPiece(c, span, i) <=> i * A < size /\ p.ullSize >= op
  BY <1>7 DEF HasPiece
<1>10. Whole(c, span) = (size \div op) * op /\ (size \div op) * op \in Nat /\ (size \div op) * op <= size
  <2>1. (size \div op) * op = size - (size % op) /\ size % op \in 0..op - 1 /\ size % op <= size
    BY <1>1, WholeBelow, ModFacts
  <2> QED BY <1>1, <2>1 DEF Whole
<1> DEFINE wh == (size \div op) * op
<1>15. wh \in Nat /\ wh <= size /\ Whole(c, span) = wh
  BY <1>10
\* Steps over a piece that is not the last are whole operands.
<1>11. i * A < size => \E m \in Nat : i * A = m * op
  <2>1. CASE A = size
    <3>1. i >= 1 => i * A >= A
      BY <1>2
    <3>2. i * A < size => i = 0
      BY <1>1, <1>2, <2>1, <3>1
    <3>3. i = 0 => i * A = 0 * op
      BY <1>1, <1>2
    <3> QED BY <3>2, <3>3
  <2>2. CASE A # size
    <3>1. PICK m \in Nat : A = m * op
      BY <1>2, <2>2
    <3>2. i * A = (i * m) * op
      BY <1>1, <3>1
    <3>3. i * m \in Nat
      BY <3>1
    <3> QED BY <3>2, <3>3
  <2> QED BY <2>1, <2>2
<1>12. (i + 1) * A = i * A + A
  BY <1>2
<1>13. ASSUME HasPiece(c, span, i)
       PROVE  GoodPiece(c, span, i, p)
  <2>1. i * A < size /\ p.ullSize >= op
    BY <1>9, <1>13
  <2>2. PICK m \in Nat : i * A = m * op
    BY <1>11, <2>1
  <2> DEFINE q == p.ullSize \div op
  <2>3. /\ room \in Nat \ {0} /\ p.ullSize \in Nat \ {0} /\ p.ullSize <= A /\ p.ullSize <= room
        /\ p.ullSize = A \/ p.ullSize = room
    <3> HIDE DEF p, A, op
    <3> QED BY <1>1, <1>2, <1>6, <1>8, <2>1 DEF Least
  <2>4. q \in Nat \ {0} /\ q * op = p.ullSize - (p.ullSize % op) /\ p.ullSize % op \in 0..op - 1
    <3>1. q \in Nat /\ q * op = p.ullSize - (p.ullSize % op) /\ p.ullSize % op \in 0..op - 1
      BY <1>1, <2>3, ModFacts, WholeBelow
    <3>2. 1 * op <= p.ullSize => 1 * op <= q * op
      BY <1>1, <2>3, WholeBelow
    <3> HIDE DEF q, p, op
    <3>3. q # 0
      BY <1>1, <2>1, <3>1, <3>2
    <3> QED BY <3>1, <3>3
  <2>5. Times(c, p) = q /\ Unit(c, p) = op
    BY DEF Times, Unit
  <2>6. i * A + q * op = Least((i + 1) * A, wh)
    \* (m + q) operands fit the span, and what is left is less than one or
    \* behind the piece.
    <3>1. (m + q) * op = m * op + q * op /\ m + q \in Nat
      BY <1>1, <2>2, <2>4
    <3>2. (m + q) * op <= size
      <4> HIDE DEF q, p, A, op, size
      <4> QED BY <1>1, <1>6, <2>2, <2>3, <2>4, <3>1
    <3>3. (m + q) * op <= wh
      BY <1>1, <3>1, <3>2, WholeBelow
    <3>4. CASE p.ullSize = A /\ A # size
      <4>1. PICK n \in Nat : A = n * op
        BY <1>2, <3>4
      <4>2. q * op = A
        <5>1. n * op <= p.ullSize => n * op <= (p.ullSize \div op) * op
          BY <1>1, <2>3, <4>1, WholeBelow
        <5> HIDE DEF q, p, A, op
        <5> QED BY <1>1, <1>2, <2>3, <2>4, <3>4, <4>1, <5>1 DEF q
      <4> HIDE DEF q, p, A, op, size, wh
      <4> QED BY <1>6, <1>10, <1>12, <2>2, <3>1, <3>3, <4>2 DEF Least
    <3>5. CASE p.ullSize = room \/ A = size
      <4>1. p.ullSize = room
        <5>1. A = size /\ i >= 1 => i * A >= size
          BY <1>2
        <5>2. A = size => i = 0 /\ room = A
          BY <1>1, <1>2, <2>1, <5>1
        <5> HIDE DEF p, A, op, size
        <5> QED BY <1>1, <1>2, <2>3, <3>5, <5>2
      <4> DEFINE r == p.ullSize % op
      <4>2. size = op * (m + q) + r /\ r \in 0..op - 1
        <5>1. size = i * A + (q * op + r) /\ r \in 0..op - 1
          <6>1. q * op = p.ullSize - r /\ r \in 0..op - 1
            BY <2>4
          <6>2. size - i * A = p.ullSize
            BY <4>1
          <6> HIDE DEF p, q, A, op, size, r
          <6> QED BY <1>1, <1>6, <2>3, <6>1, <6>2
        <5>2. op * (m + q) = m * op + q * op
          BY <1>1, <2>2, <2>4
        <5>3. m * op \in Nat /\ q * op \in Nat
          BY <1>1, <2>2, <2>4
        <5> HIDE DEF q, A, op, size, r
        <5> QED BY <1>1, <1>6, <2>2, <5>1, <5>2, <5>3
      <4>3. wh = (m + q) * op
        <5> HIDE DEF r, q, op, size
        <5>1. size \div op = m + q
          BY <1>1, <3>1, <4>2, QuotientIs
        <5> QED BY <5>1
      <4>4. wh <= (i + 1) * A
        <5>1. wh <= size /\ size = i * A + p.ullSize
          BY <1>1, <1>6, <1>15, <2>3, <4>1
        <5> HIDE DEF q, p, A, op, size, wh
        <5> QED BY <1>1, <1>2, <1>6, <1>15, <1>12, <2>3, <5>1
      <4> HIDE DEF q, p, A, op, size, wh
      <4>5. i * A + q * op = wh
        BY <2>2, <3>1, <4>3
      <4>6. (i + 1) * A \in Nat /\ wh \in Nat
        BY <1>2, <1>6, <1>15, <1>12
      <4> QED BY <4>4, <4>5, <4>6 DEF Least
    <3> QED BY <2>3, <3>4, <3>5
  <2>7. i * A < wh
    <3>1. q * op \in Nat \ {0}
      <4>1. q * op >= op
        BY <1>1, <2>4
      <4>2. q * op \in Nat
        BY <1>1, <2>4
      <4> QED BY <1>1, <4>1, <4>2
    <3> HIDE DEF q, p, A, op, size, wh
    <3>2. Least((i + 1) * A, wh) <= wh
      BY <1>2, <1>6, <1>15, <1>12 DEF Least
    <3> QED BY <1>6, <1>15, <2>6, <3>1, <3>2
  <2>8. i * A = m * op + p.first
    BY <1>1, <1>4, <2>2
  <2>9. p.ullOffset + p.ullSize <= span.ullOffset + size
    <3> HIDE DEF p, A, op, size
    <3> QED BY <1>1, <1>4, <1>6, <2>3
  <2>10. c.virtual => p.ullSize <= CacheSize
    <3> HIDE DEF p, A, op, size
    <3> QED BY <1>1, <1>2, <2>3
  <2> HIDE DEF q, p, A, op, size, wh
  <2> QED BY <1>1, <1>3, <1>4, <1>10, <2>2, <2>3, <2>4, <2>5, <2>6, <2>7, <2>8, <2>9, <2>10
           DEF GoodPiece, WalkedTo, Modified, op, size, wh
<1>14. ASSUME ~HasPiece(c, span, i)
       PROVE  WalkedTo(c, span, i) = Whole(c, span)
  <2>1. CASE i * A >= size
    <3> HIDE DEF A, op, size
    <3> QED BY <1>1, <1>3, <1>6, <1>10, <2>1 DEF WalkedTo, Least
  <2>2. CASE i * A < size /\ p.ullSize < op
    <3>1. room < op /\ room \in Nat
      <4> HIDE DEF p, A, op, size
      <4> QED BY <1>1, <1>2, <1>6, <1>8, <2>2 DEF Least
    <3>2. PICK m \in Nat : i * A = m * op
      BY <1>11, <2>2
    <3>3. size = op * m + room
      BY <1>1, <1>6, <3>1, <3>2
    <3>4. wh = i * A
      <4>1. room \in 0..op - 1
        BY <1>1, <3>1
      <4> HIDE DEF op, size, room
      <4>2. size \div op = m
        BY <1>1, <3>2, <3>3, <4>1, QuotientIs
      <4> QED BY <3>2, <4>2
    <3> HIDE DEF A, op, size
    <3> QED BY <1>3, <1>6, <1>10, <3>4 DEF WalkedTo, Least, wh
  <2>3. p.ullSize \in Int
    <3> HIDE DEF p, A, op, size
    <3> QED BY <1>1, <1>2, <1>6, <1>8 DEF Least
  <2> QED BY <1>1, <1>6, <1>9, <1>14, <2>1, <2>2, <2>3
<1> QED BY <1>3, <1>13, <1>14

\* So do those of an operand of several caches.
LEMMA SmallFacts ==
  ASSUME NEW c \in Calls, NEW span, InData(span), Operand(c) <= span.ullSize,
         ~CacheHoldsOperand(c), SmallMod(c) = 0, NEW i \in Nat
  PROVE  /\ HasPiece(c, span, i) => GoodPiece(c, span, i, WorkerPiece(c, span, i))
         /\ ~HasPiece(c, span, i) => WalkedTo(c, span, i) = Whole(c, span)
<1> DEFINE op == Operand(c)
           size == span.ullSize
           C == CacheSize
           n == op \div C
           q == size \div op
           p == SmallPiece(c, span, i)
           cur == i % n
<1>1. /\ op \in Nat \ {0} /\ size \in Nat \ {0} /\ span.ullOffset \in Nat /\ op <= size
      /\ C \in Nat \ {0} /\ DataSize \in Nat \ {0}
      /\ span.ullOffset + size <= DataSize /\ c.virtual \in BOOLEAN
  BY CallFacts, OperandFacts, ModifyAssumption DEF InData, Spans
<1>2. n \in Nat \ {0} /\ op = n * C
  <2>1. op % C = 0
    BY DEF SmallMod
  <2>2. PICK m \in Nat \ {0} : op = m * C
    BY <1>1, <2>1, Divides
  <2>3. op = C * m + 0
    BY <1>1, <2>2
  <2>4. n = m
    <3> HIDE DEF op, C
    <3> QED BY <1>1, <2>3, QuotientIs DEF n
  <2> QED BY <2>2, <2>4
<1>3. SmallChunks(c) = n
  <2>1. op % C = 0
    BY DEF SmallMod
  <2> QED BY <1>2, <2>1 DEF SmallChunks, DivUp
<1>4. q \in Nat /\ Whole(c, span) = q * op /\ q * op <= size
  <2>1. (size \div op) * op = size - (size % op) /\ size % op \in Nat /\ q \in Nat
    BY <1>1, WholeBelow, ModFacts
  <2> QED BY <1>1, <2>1 DEF Whole
<1>5. /\ p.ullOffset = span.ullOffset + i * C /\ p.ullSize = C /\ p.first = cur * C
      /\ Step(c, span) = C /\ WorkerPiece(c, span, i) = p
      /\ Times(c, p) = 1 /\ Unit(c, p) = C
      /\ HasPiece(c, span, i) <=> i < q * n
  BY <1>3 DEF SmallPiece, Piece, Step, WorkerPiece, Times, Unit, HasPiece, Chunks
<1>6. q * op = (q * n) * C /\ q * n \in Nat
  BY <1>1, <1>2, <1>4
<1>7. cur \in Nat /\ i \div n \in Nat /\ i * C = (i \div n) * op + cur * C
  <2> DEFINE d == i \div n
  <2>1. cur \in Nat /\ d \in Nat /\ i = n * d + cur
    <3> HIDE DEF n
    <3> QED BY <1>2, ModFacts, DivMod
  <2> HIDE DEF d, cur, n, op, C
  <2>2. i * C = (n * d) * C + cur * C
    BY <1>1, <1>2, <2>1
  <2>3. (n * d) * C = d * op
    BY <1>1, <1>2, <2>1
  <2> QED BY <2>1, <2>2, <2>3 DEF d
<1>8. i * C \in Nat /\ (i + 1) * C = i * C + C
  BY <1>1
<1> DEFINE Q == q * n
           ic == i * C
<1>9. i < Q => (i + 1) * C <= Q * C
  <2>1. i < Q => C * (i + 1) <= C * Q
    <3> HIDE DEF Q, C
    <3> QED BY <1>1, <1>6, MulMono DEF Q
  <2> HIDE DEF Q, C
  <2>2. C * (i + 1) = (i + 1) * C /\ C * Q = Q * C
    BY <1>1, <1>6 DEF Q
  <2> QED BY <2>1, <2>2
<1>10. ~(i < Q) => Q * C <= i * C
  <2>1. ~(i < Q) => C * Q <= C * i
    <3> HIDE DEF Q, C
    <3> QED BY <1>1, <1>6, MulMono DEF Q
  <2> HIDE DEF Q, C
  <2>2. C * i = i * C /\ C * Q = Q * C
    BY <1>1, <1>6 DEF Q
  <2> QED BY <2>1, <2>2
<1>11. /\ Whole(c, span) = Q * C /\ Q * C \in Nat /\ Q * C <= size
       /\ HasPiece(c, span, i) <=> i < Q
  BY <1>1, <1>4, <1>5, <1>6
<1>12. C \in Nat \ {0}
  BY <1>1
<1>13. ASSUME HasPiece(c, span, i)
       PROVE  GoodPiece(c, span, i, p)
  <2> HIDE DEF Q, C, p
  <2>1. ic + C <= Q * C
    BY <1>8, <1>9, <1>11, <1>13
  <2>2. Times(c, p) * Unit(c, p) = C
    BY <1>5, <1>12
  <2>3. Least((i + 1) * C, Q * C) = ic + C
    BY <1>8, <1>11, <1>12, <2>1 DEF Least
  <2>4. cur * C \in Nat
    BY <1>7, <1>12
  <2>5. \E m \in Nat : i * C = m * Operand(c) + p.first
    BY <1>5, <1>7
  <2>6. p.ullOffset + p.ullSize <= span.ullOffset + span.ullSize
    <3> HIDE DEF size, cur, q
    <3>1. p.ullOffset + p.ullSize = span.ullOffset + (ic + C)
      BY <1>1, <1>5, <1>8, <1>12
    <3>2. ic + C <= size
      BY <1>1, <1>8, <1>11, <1>12, <2>1
    <3> HIDE DEF ic
    <3> QED BY <1>1, <1>8, <1>12, <3>1, <3>2 DEF size, ic
  <2>7. i * C < Whole(c, span)
    BY <1>8, <1>11, <1>12, <2>1
  <2>8. /\ p.ullOffset = span.ullOffset + i * Step(c, span)
        /\ p.ullSize \in Nat \ {0} /\ p.ullSize <= CacheSize /\ p.first \in Nat
        /\ Times(c, p) \in Nat \ {0} /\ Unit(c, p) \in Nat \ {0}
    BY <1>5, <1>12, <2>4 DEF C
  <2>9. i * Step(c, span) + Modified(c, p) = WalkedTo(c, span, i + 1)
    BY <1>5, <1>11, <2>2, <2>3 DEF Modified, WalkedTo
  <2> QED BY <1>5, <2>5, <2>6, <2>7, <2>8, <2>9 DEF GoodPiece
<1>14. ASSUME ~HasPiece(c, span, i)
       PROVE  WalkedTo(c, span, i) = Whole(c, span)
  <2>1. Q * C <= i * C
    BY <1>10, <1>11, <1>14
  <2> HIDE DEF Q
  <2> QED BY <1>5, <1>8, <1>11, <2>1 DEF WalkedTo, Least
<1> QED BY <1>5, <1>13, <1>14

\* The pieces of the worker, large and small.
LEMMA PieceFacts ==
  ASSUME NEW c \in Calls, Held(c), NEW span, InData(span), Operand(c) <= span.ullSize,
         NEW i \in Nat
  PROVE  /\ HasPiece(c, span, i) => GoodPiece(c, span, i, WorkerPiece(c, span, i))
         /\ ~HasPiece(c, span, i) => WalkedTo(c, span, i) = Whole(c, span)
BY LargeFacts, SmallFacts DEF Held

-----------------------------------------------------------------------------
(* The tail                                                                *)

\* How far the tail is modified before its i-th piece.
TailDone(c, i) ==
  IF i >= TailPieces(c) THEN TailSize(c)
  ELSE IF TailSize(c) % InCache(c) > 0 /\ i = TailChunks(c) - 1
       THEN (i - 1) * InCache(c) + (TailSize(c) % InCache(c))
       ELSE i * InCache(c)

\* Where the tail is: behind the whole operands of the last span, in what is
\* left of the span.
LEMMA TailPlace ==
  ASSUME NEW c \in Calls
  PROVE  /\ TailSize(c) \in Nat /\ TailStart(c) \in Nat
         /\ Last(c.spans).ullOffset <= TailStart(c)
         /\ TailStart(c) + TailSize(c) <= Last(c.spans).ullOffset + Size(c)
         /\ c.mode = "ONCE" => /\ TailStart(c) = Last(c.spans).ullOffset
                               /\ TailSize(c) = Least(Size(c), c.fill)
         /\ c.mode # "ONCE" =>
              /\ TailStart(c) = Last(c.spans).ullOffset + Whole(c, Last(c.spans))
              /\ Operand(c) = c.fill => TailSize(c) = 0
              /\ Whole(c, Last(c.spans)) + TailSize(c) = (Size(c) \div c.fill) * c.fill
<1> DEFINE span == Last(c.spans)
           size == Size(c)
           op == Operand(c)
           f == c.fill
           rem == size % op
<1>1. InData(span) /\ f \in Nat \ {0}
  BY CallFacts
<1>2. /\ size \in Nat \ {0} /\ span.ullOffset \in Nat /\ op \in Nat \ {0}
      /\ size = span.ullSize
  BY <1>1, OperandFacts DEF InData, Spans, Size
<1>3. CASE c.mode = "ONCE"
  <2>1. TailStart(c) = span.ullOffset /\ TailSize(c) = Least(size, f)
    BY <1>3 DEF TailStart, TailSize
  <2> HIDE DEF size, span, f
  <2> QED BY <1>1, <1>2, <1>3, <2>1 DEF Least, size, span, f
<1>4. CASE c.mode # "ONCE"
  <2>1. rem \in Nat /\ rem <= size /\ rem % f \in Nat /\ rem % f <= rem
    <3>1. rem \in Nat /\ rem <= size
      BY <1>2, ModFacts
    <3> HIDE DEF rem, f
    <3> QED BY <1>1, <3>1, ModFacts
  <2>2. /\ TailStart(c) = span.ullOffset + size - rem
        /\ TailSize(c) = IF op = f THEN 0 ELSE rem - (rem % f)
    BY <1>4 DEF TailStart, TailSize
  <2>3. Whole(c, span) = size - rem
    BY <1>2, WholeBelow DEF Whole
  <2> DEFINE w == (size \div f) * f
  <2>4. op = f => w = size - rem
    BY <1>1, <1>2, WholeBelow
  <2>5. w = size - rem + (rem - (rem % f))
    <3>1. w = size - (size % f)
      BY <1>1, <1>2, WholeBelow
    <3>2. PICK m \in Nat : op = m * f
      BY OperandFacts
    <3> DEFINE d == size \div op
    <3>3. d \in Nat /\ size = op * d + rem
      BY <1>2, ModFacts, DivMod
    <3> HIDE DEF d, rem, size, op, f, w
    <3>4. size = (d * m) * f + rem /\ d * m \in Nat
      BY <1>1, <1>2, <3>2, <3>3
    <3>5. size % f = rem % f
      BY <1>1, <2>1, <3>4, ModAdd DEF f
    <3>6. rem % f \in Int
      BY <2>1
    <3> DEFINE rf == rem % f
    <3>7. w = size - rf
      BY <3>1, <3>5
    <3> HIDE DEF rf
    <3> QED BY <1>2, <2>1, <3>6, <3>7 DEF rf
  <2> DEFINE rf == rem % f
  <2>6. w \in Nat /\ w = (size - rem) + (rem - rf)
    <3> HIDE DEF rem, size, f, w
    <3> QED BY <1>2, <2>1, <2>5
  <2> HIDE DEF rf, rem, size, f, op, w, span
  <2>7. TailSize(c) \in Nat /\ TailSize(c) <= rem
    BY <2>1, <2>2 DEF rf
  <2>8. Whole(c, span) + TailSize(c) = w
    BY <1>2, <2>1, <2>2, <2>3, <2>4, <2>6 DEF rf
  <2> QED BY <1>2, <1>4, <2>1, <2>2, <2>3, <2>7, <2>8 DEF w, size, f, op, span
<1> QED BY <1>3, <1>4

\* Each piece of the tail begins where the one before ended, the last ends
\* where the tail does.
LEMMA TailFacts ==
  ASSUME NEW c \in Calls, NEW i \in Nat
  PROVE  /\ TailDone(c, i) \in Nat /\ TailDone(c, i) <= TailSize(c)
         /\ TailDone(c, 0) = 0
         /\ i >= TailPieces(c) => TailDone(c, i) = TailSize(c)
         /\ i < TailPieces(c) =>
              LET p == TailPiece(c, i)
              IN  /\ p.ullOffset = TailStart(c) + TailDone(c, i)
                  /\ p.first = TailDone(c, i)
                  /\ p.ullSize \in Nat \ {0}
                  /\ TailDone(c, i) + p.ullSize = TailDone(c, i + 1)
                  /\ TailDone(c, i + 1) <= TailSize(c)
                  /\ c.virtual => p.ullSize <= CacheSize
<1> DEFINE T == TailSize(c)
           In == InCache(c)
           n == TailChunks(c)
           rem == T % In
           d == T \div In
           once == c.mode = "ONCE" /\ ~c.virtual
<1>1. T \in Nat /\ CacheSize \in Nat \ {0} /\ TailStart(c) \in Nat
  BY TailPlace, ModifyAssumption
<1>2. CASE T = 0
  <2>1. TailPieces(c) = 0
    BY <1>2 DEF TailPieces
  <2> QED BY <1>2, <2>1 DEF TailDone
<1>3. CASE T # 0
  <2>1. In \in Nat \ {0} /\ In <= T /\ In <= CacheSize /\ (In = T \/ In = CacheSize)
    <3> HIDE DEF T
    <3> QED BY <1>1, <1>3 DEF Least, InCache, T
  <2>2. /\ TailPieces(c) = IF once THEN 1 ELSE n
        /\ n = d + (IF rem > 0 THEN 1 ELSE 0)
    BY <1>3 DEF TailPieces, TailChunks, DivUp
  <2>3. d \in Nat /\ rem \in 0..In - 1 /\ rem \in Nat /\ T = In * d + rem
    <3> HIDE DEF T, In
    <3> QED BY <1>1, <2>1, ModFacts, DivMod
  <2>4. d >= 1
    <3> HIDE DEF d, rem, T, In
    <3>1. d = 0 => In * d = 0
      BY <2>1
    <3> QED BY <2>1, <2>3, <3>1
  <2> DEFINE done(j) == IF rem > 0 /\ j = n - 1 THEN (j - 1) * In + rem ELSE j * In
  <2>5. \A j : TailDone(c, j) = IF j >= TailPieces(c) THEN T ELSE done(j)
    BY DEF TailDone
  <2>6. n \in Nat \ {0} /\ (rem > 0 => n = d + 1) /\ (rem = 0 => n = d) /\ (rem > 0 \/ rem = 0)
    <3> HIDE DEF d, rem, T, In
    <3> QED BY <2>2, <2>3, <2>4
  <2>7. In * d = d * In /\ 0 * In = 0 /\ d * In \in Nat /\ (d - 1) * In = d * In - In
    <3> HIDE DEF d, rem, T, In
    <3> QED BY <2>1, <2>3
  <2>8. TailPieces(c) \in Nat \ {0} /\ TailDone(c, 0) = 0
    <3>1. TailPieces(c) \in Nat \ {0}
      <4> HIDE DEF n
      <4> QED BY <2>2, <2>6
    <3>2. done(0) = 0
      <4> HIDE DEF d, rem, T, In, n
      <4> QED BY <2>3, <2>4, <2>6, <2>7
    <3> HIDE DEF done, T
    <3> QED BY <2>5, <3>1, <3>2
  <2>9. CASE i >= TailPieces(c)
    <3>1. TailDone(c, i) = T
      BY <2>5, <2>9
    <3> QED BY <1>1, <2>8, <2>9, <3>1
  <2>10. CASE i < TailPieces(c) /\ once
    <3>1. TailPieces(c) = 1 /\ i = 0
      BY <2>2, <2>10
    <3>2. TailDone(c, 1) = T /\ 0 + 1 = 1
      BY <2>5, <3>1
    <3>3. TailPiece(c, i) = Piece(TailStart(c), T, 0)
      BY <2>10 DEF TailPiece
    <3>4. ~c.virtual
      BY <2>10
    <3>5. TailDone(c, i) = 0 /\ TailDone(c, i + 1) = T
      BY <2>8, <3>1, <3>2
    <3> HIDE DEF T
    <3> QED BY <1>1, <1>3, <2>8, <2>10, <3>3, <3>4, <3>5 DEF Piece, T
  <2>11. CASE i < TailPieces(c) /\ ~once
    <3>1. TailPieces(c) = n /\ i <= n - 1
      <4> HIDE DEF n
      <4> QED BY <2>2, <2>6, <2>11
    <3> DEFINE short == rem > 0 /\ i = n - 2
               start == IF rem > 0 /\ i = n - 1 THEN (i - 1) * In + rem ELSE i * In
               len == IF short THEN rem ELSE In
    <3>2. TailPiece(c, i) = Piece(TailStart(c) + start, len, start)
      BY <2>11 DEF TailPiece
    <3>3. TailDone(c, i) = start
      <4> HIDE DEF T, n, In
      <4> QED BY <2>5, <2>6, <3>1
    <3>4. i * In \in Nat /\ (i - 1) * In = i * In - In /\ (i + 1) * In = i * In + In
      <4> HIDE DEF In
      <4> QED BY <2>1
    <3>5. i <= d => i * In <= d * In
      <4>1. i <= d => In * i <= In * d
        <5> HIDE DEF In, d
        <5> QED BY <2>1, <2>3, MulMono
      <4>2. In * i = i * In
        <5> HIDE DEF In
        <5> QED BY <2>1
      <4> HIDE DEF In, d
      <4> QED BY <2>7, <4>1, <4>2
    <3>6. i <= d - 1 => i * In <= d * In - In
      <4>1. i <= d - 1 => In * i <= In * (d - 1)
        <5>1. d - 1 \in Nat
          BY <2>3, <2>4
        <5> HIDE DEF In, d
        <5> QED BY <2>1, <5>1, MulMono
      <4>2. In * i = i * In /\ In * (d - 1) = d * In - In
        <5> HIDE DEF In, d
        <5> QED BY <2>1, <2>3, <2>7
      <4> HIDE DEF In, d
      <4> QED BY <2>3, <4>1, <4>2
    <3>7. /\ start \in Nat /\ len \in Nat \ {0} /\ start + len = TailDone(c, i + 1)
          /\ start + len <= T
      <4>1. TailDone(c, i + 1) = IF i + 1 >= n THEN T ELSE done(i + 1)
        BY <2>5, <3>1
      <4>2. CASE rem = 0
        <5>1. i <= d - 1 /\ start = i * In /\ len = In /\ T = d * In
          <6> HIDE DEF d, rem, T, In, n
          <6> QED BY <2>3, <2>6, <2>7, <3>1, <4>2
        <5>2. TailDone(c, i + 1) = IF i + 1 = d THEN T ELSE (i + 1) * In
          <6> HIDE DEF d, rem, T, In, n
          <6> QED BY <2>3, <2>6, <4>1, <4>2, <5>1
        <5>3. i + 1 = d => (i + 1) * In = d * In
          OBVIOUS
        <5> HIDE DEF d, rem, T, In, n, start, len
        <5> QED BY <2>1, <2>3, <2>7, <3>4, <3>6, <5>1, <5>2, <5>3
      <4>3. CASE rem > 0 /\ i = n - 1
        <5>1. i = d /\ start = (i - 1) * In + rem /\ len = In /\ T = d * In + rem
          <6> HIDE DEF d, rem, T, In, n
          <6> QED BY <2>3, <2>6, <2>7, <3>1, <4>3
        <5>2. TailDone(c, i + 1) = T
          <6> HIDE DEF d, rem, T, In, n
          <6> QED BY <2>6, <4>1, <4>3
        <5>3. (i - 1) * In = d * In - In /\ d * In - In \in Nat
          <6>1. d * In >= 1 * In
            <7> HIDE DEF d, In
            <7>1. In * 1 <= In * d
              BY <2>1, <2>3, <2>4, MulMono
            <7> QED BY <2>1, <2>7, <7>1
          <6> HIDE DEF d, In
          <6> QED BY <2>1, <2>7, <5>1, <6>1
        <5> HIDE DEF d, rem, T, In, n, start, len
        <5> QED BY <2>1, <2>3, <2>7, <5>1, <5>2, <5>3
      <4>4. CASE rem > 0 /\ i = n - 2
        <5>1. i = d - 1 /\ start = i * In /\ len = rem /\ T = d * In + rem
          <6> HIDE DEF d, rem, T, In, n
          <6> QED BY <2>3, <2>6, <2>7, <3>1, <4>4
        <5>2. TailDone(c, i + 1) = i * In + rem
          <6>1. i + 1 = n - 1 /\ (i + 1) - 1 = i
            <7> HIDE DEF n
            <7> QED BY <2>6, <4>4
          <6> HIDE DEF d, rem, T, In, n
          <6> QED BY <2>6, <4>1, <4>4, <6>1
        <5> HIDE DEF d, rem, T, In, n, start, len
        <5> QED BY <2>1, <2>3, <2>7, <3>4, <3>6, <4>4, <5>1, <5>2
      <4>5. CASE rem > 0 /\ i < n - 2
        <5>1. i + 1 <= d - 1 /\ start = i * In /\ len = In /\ T = d * In + rem
          <6> HIDE DEF d, rem, T, In, n
          <6> QED BY <2>3, <2>6, <2>7, <3>1, <4>5
        <5>2. TailDone(c, i + 1) = (i + 1) * In
          <6> HIDE DEF d, rem, T, In, n
          <6> QED BY <2>6, <4>1, <4>5
        <5>3. i <= d - 1
          <6> HIDE DEF d
          <6> QED BY <2>3, <5>1
        <5> HIDE DEF d, rem, T, In, n, start, len
        <5> QED BY <2>1, <2>3, <2>7, <3>4, <3>6, <5>1, <5>2, <5>3
      <4> HIDE DEF n, rem
      <4> QED BY <2>3, <2>6, <3>1, <4>2, <4>3, <4>4, <4>5
    <3>8. len <= CacheSize
      <4> HIDE DEF rem, In
      <4> QED BY <1>1, <2>1, <2>3
    <3> HIDE DEF start, len, T
    <3> QED BY <1>1, <2>8, <2>11, <3>2, <3>3, <3>7, <3>8 DEF Piece, T
  <2> QED BY <2>8, <2>9, <2>10, <2>11
<1> QED BY <1>2, <1>3

-----------------------------------------------------------------------------
(* What a call asks for                                                    *)

\* The first n bytes of a span.
Bytes(span, n) == span.ullOffset..span.ullOffset + n - 1

\* The tail without its first n bytes.
TailRest(c, n) == TailStart(c) + n..TailStart(c) + TailSize(c) - 1

\* Spans that do not overlap: a byte is asked for once.
Apart(c) ==
  \A i, j \in 1..Len(c.spans) :
    i # j => \/ c.spans[i].ullOffset + c.spans[i].ullSize <= c.spans[j].ullOffset
             \/ c.spans[j].ullOffset + c.spans[j].ullSize <= c.spans[i].ullOffset

\* The sizes of a span and of the whole operands in it.
LEMMA SpanFacts ==
  ASSUME NEW c \in Calls, NEW i \in 1..Len(c.spans)
  PROVE  LET span == c.spans[i]
         IN  /\ InData(span) /\ span.ullOffset \in Nat /\ span.ullSize \in Nat \ {0}
             /\ c.fill \in Nat \ {0} /\ DataSize \in Nat
             /\ Whole(c, span) \in Nat /\ Whole(c, span) <= (span.ullSize \div c.fill) * c.fill
             /\ (span.ullSize \div c.fill) * c.fill \in Nat
             /\ (span.ullSize \div c.fill) * c.fill <= span.ullSize
             /\ Operand(c) <= span.ullSize => c.fill <= span.ullSize
             /\ Whole(c, span) > 0 => Operand(c) <= span.ullSize
             /\ WalkedTo(c, span, 0) = 0
<1> DEFINE span == c.spans[i]
           size == span.ullSize
           op == Operand(c)
           f == c.fill
           q == size \div op
           w == (size \div f) * f
<1>1. /\ InData(span) /\ span.ullOffset \in Nat /\ size \in Nat \ {0} /\ f \in Nat \ {0}
      /\ op \in Nat \ {0} /\ DataSize \in Nat
  BY CallFacts, OperandFacts, ModifyAssumption DEF InData, Spans
<1>2. PICK m \in Nat \ {0} : op = m * f
  BY OperandFacts
<1>3. q \in Nat /\ q * op = size - (size % op) /\ size % op \in Nat /\ size % op <= size
  BY <1>1, ModFacts, WholeBelow
<1>4. w = size - (size % f) /\ size % f \in Nat /\ size % f <= size
  BY <1>1, ModFacts, WholeBelow
<1>5. Whole(c, span) = q * op
  BY DEF Whole
<1> DEFINE sf == size % f
           so == size % op
<1>6. q * op = (q * m) * f /\ q * m \in Nat
  <2> HIDE DEF q, op, f
  <2> QED BY <1>1, <1>2, <1>3
<1>7. q * op <= size
  <2> HIDE DEF so, q, op, size
  <2> QED BY <1>1, <1>3 DEF so
<1>8. (q * m) * f <= size => (q * m) * f <= w
  <2> HIDE DEF q, f, size
  <2> QED BY <1>1, <1>6, WholeBelow
<1>9. op <= size => f <= size
  <2>1. f <= m * f
    <3> HIDE DEF f
    <3> QED BY <1>1, <1>2
  <2> HIDE DEF f, op, size
  <2> QED BY <1>1, <1>2, <2>1
<1>10. q * op > 0 => op <= size
  <2> HIDE DEF op, size
  <2>1. ~(op <= size) => size = op * 0 + size /\ size \in 0..op - 1
    BY <1>1
  <2>2. ~(op <= size) => q = 0
    BY <1>1, <2>1, QuotientIs
  <2> HIDE DEF q
  <2> QED BY <1>1, <2>2
<1>11. WalkedTo(c, span, 0) = 0
  <2>1. Step(c, span) \in Int
    <3>1. CacheSize \in Nat
      BY ModifyAssumption
    <3>2. CacheSize % op \in Nat
      BY <1>1, <3>1, ModFacts
    <3> HIDE DEF op
    <3> QED BY <1>1, <3>1, <3>2 DEF Step, Aligned, Least, op
  <2>2. 0 * Step(c, span) = 0
    BY <2>1
  <2>3. q * op \in Nat
    <3> HIDE DEF q, op
    <3> QED BY <1>1, <1>3
  <2> HIDE DEF q, op
  <2> QED BY <1>5, <2>2, <2>3 DEF WalkedTo, Least
<1>12. w \in Nat /\ w <= size /\ q * op \in Nat
  <2> HIDE DEF w, sf, size, q, op
  <2> QED BY <1>1, <1>3, <1>4 DEF sf
<1> HIDE DEF w, q, op, size, f, span
<1> QED BY <1>1, <1>5, <1>6, <1>7, <1>8, <1>9, <1>10, <1>11, <1>12 DEF w, op, size, f, span

\* A byte of a span that is reached has one span only to be asked for by.
LEMMA AskedInSpan ==
  ASSUME NEW c \in Calls, Apart(c), c.mode # "ONCE", NEW i \in 1..Len(c.spans),
         \A j \in 1..i : c.fill <= c.spans[j].ullSize,
         NEW o \in Bytes(c.spans[i], (c.spans[i].ullSize \div c.fill) * c.fill)
  PROVE  Asked(c, o) = (o - c.spans[i].ullOffset) % c.fill
<1>1. Filled(c, i, o)
  BY SpanFacts DEF Filled, Bytes
<1>2. ASSUME NEW j \in 1..Len(c.spans), Filled(c, j, o) PROVE j = i
  <2>1. /\ o >= c.spans[j].ullOffset
        /\ o < c.spans[j].ullOffset + (c.spans[j].ullSize \div c.fill) * c.fill
    BY <1>2 DEF Filled
  <2>2. /\ o >= c.spans[i].ullOffset
        /\ o < c.spans[i].ullOffset + (c.spans[i].ullSize \div c.fill) * c.fill
    BY <1>1 DEF Filled
  <2> DEFINE wi == (c.spans[i].ullSize \div c.fill) * c.fill
             wj == (c.spans[j].ullSize \div c.fill) * c.fill
  <2>3. /\ wi \in Nat /\ wi <= c.spans[i].ullSize /\ c.spans[i].ullOffset \in Nat
        /\ wj \in Nat /\ wj <= c.spans[j].ullSize /\ c.spans[j].ullOffset \in Nat
        /\ c.spans[i].ullSize \in Nat /\ c.spans[j].ullSize \in Nat
    BY SpanFacts
  <2>4. o \in Int
    BY SpanFacts DEF Bytes
  <2>5. i # j => \/ c.spans[i].ullOffset + c.spans[i].ullSize <= c.spans[j].ullOffset
                  \/ c.spans[j].ullOffset + c.spans[j].ullSize <= c.spans[i].ullOffset
    BY DEF Apart
  <2>6. /\ o < c.spans[i].ullOffset + wi /\ o < c.spans[j].ullOffset + wj
        /\ c.spans[i].ullOffset <= o /\ c.spans[j].ullOffset <= o
    BY <2>1, <2>2
  <2> HIDE DEF wi, wj
  <2>7. ASSUME i # j PROVE FALSE
    <3>1. CASE c.spans[i].ullOffset + c.spans[i].ullSize <= c.spans[j].ullOffset
      BY <2>3, <2>4, <2>6, <3>1, BeforeSpan, Zenon
    <3>2. CASE c.spans[j].ullOffset + c.spans[j].ullSize <= c.spans[i].ullOffset
      BY <2>3, <2>4, <2>6, <3>2, BeforeSpan, Zenon
    <3> QED BY <2>5, <2>7, <3>1, <3>2
  <2> QED BY <2>7
<1>3. (CHOOSE j \in 1..Len(c.spans) : Filled(c, j, o)) = i
  BY <1>1, <1>2
<1> QED BY <1>1, <1>3 DEF Asked

\* A byte asked for by a span is in the whole operands of it or in the tail.
LEMMA AskedWhere ==
  ASSUME NEW c \in Calls, c.mode # "ONCE", NEW i \in 1..Len(c.spans), NEW o \in Int,
         Filled(c, i, o), o \notin TailRest(c, 0)
  PROVE  /\ o \in Bytes(c.spans[i], Whole(c, c.spans[i]))
         /\ \A j \in 1..i : Operand(c) <= c.spans[j].ullSize
<1> DEFINE span == c.spans[i]
           w == (span.ullSize \div c.fill) * c.fill
<1>1. /\ \A j \in 1..i : c.spans[j].ullSize >= c.fill
      /\ o >= span.ullOffset /\ o < span.ullOffset + w
  BY DEF Filled
<1>2. /\ span.ullOffset \in Nat /\ w \in Nat /\ Whole(c, span) \in Nat
      /\ Whole(c, span) > 0 => Operand(c) <= span.ullSize
  BY SpanFacts
<1>3. CASE Operand(c) = c.fill
  <2>1. Whole(c, span) = w
    BY <1>3 DEF Whole
  <2> HIDE DEF w
  <2> QED BY <1>1, <1>2, <1>3, <2>1, SpanFacts DEF Bytes
<1>4. CASE Operand(c) # c.fill
  <2>1. Len(c.spans) = 1 /\ i = 1 /\ span = Last(c.spans)
    BY <1>4, OperandFacts, CallFacts
  <2>2. /\ TailStart(c) = span.ullOffset + Whole(c, span)
        /\ Whole(c, span) + TailSize(c) = w
        /\ TailSize(c) \in Nat
    <3>1. Size(c) = span.ullSize
      BY <2>1 DEF Size
    <3> QED BY <2>1, <3>1, TailPlace
  <2> HIDE DEF w
  <2>3. o < span.ullOffset + Whole(c, span)
    BY <1>1, <1>2, <2>2 DEF TailRest
  <2>4. Whole(c, span) > 0
    BY <1>1, <1>2, <2>3
  <2> QED BY <1>1, <1>2, <2>1, <2>3, <2>4 DEF Bytes
<1> QED BY <1>3, <1>4

\* What is asked for in the tail.
LEMMA AskedInTail ==
  ASSUME NEW c \in Calls, Apart(c), NEW o \in TailRest(c, 0)
  PROVE  Asked(c, o) = (o - TailStart(c)) % c.fill
<1> DEFINE span == Last(c.spans)
           f == c.fill
<1>1. /\ TailSize(c) \in Nat /\ TailStart(c) \in Nat /\ o \in Int
      /\ TailStart(c) <= o /\ o < TailStart(c) + TailSize(c) /\ f \in Nat \ {0}
  BY TailPlace, CallFacts DEF TailRest
<1>2. CASE c.mode = "ONCE"
  <2>1. TailStart(c) = span.ullOffset /\ TailSize(c) = Least(Size(c), f)
    BY <1>2, TailPlace
  <2>2. Size(c) \in Nat
    BY LastFacts DEF Size
  <2>3. Asked(c, o) = o - TailStart(c)
    <3>1. o \in span.ullOffset..span.ullOffset + Least(Size(c), f) - 1
      BY <1>1, <2>1
    <3> QED BY <1>2, <2>1, <3>1 DEF Asked
  <2>4. o - TailStart(c) \in 0..f - 1
    <3> HIDE DEF f
    <3> QED BY <1>1, <2>1, <2>2 DEF Least
  <2> DEFINE x == o - TailStart(c)
  <2>5. x % f = x
    <3>1. x \in 0..f - 1
      BY <2>4
    <3> HIDE DEF x, f
    <3>2. x = f * 0 + x /\ x \in Nat
      BY <1>1, <3>1
    <3> QED BY <1>1, <3>1, <3>2, QuotientIs
  <2> QED BY <2>3, <2>5
<1>3. CASE c.mode # "ONCE"
  <2>1. TailSize(c) > 0
    BY <1>1
  <2>2. Operand(c) # f
    BY <1>3, <2>1, TailPlace
  <2>3. Len(c.spans) = 1 /\ span = c.spans[1] /\ 1 \in 1..Len(c.spans) /\ 1..1 = {1}
    BY <2>2, OperandFacts, CallFacts
  <2> DEFINE w == (span.ullSize \div f) * f
             wh == Whole(c, span)
  <2>4. /\ TailStart(c) = span.ullOffset + wh
        /\ wh + TailSize(c) = w
    <3>1. Size(c) = span.ullSize
      BY DEF Size
    <3> QED BY <1>3, <3>1, TailPlace
  <2>5. /\ span.ullOffset \in Nat /\ wh \in Nat /\ w \in Nat /\ w <= span.ullSize
        /\ span.ullSize \in Nat
    BY <2>3, SpanFacts
  <2>6. o \in Bytes(span, w)
    <3> HIDE DEF w, wh, span
    <3> QED BY <1>1, <2>4, <2>5 DEF Bytes
  <2>7. f <= span.ullSize
    <3>1. w > 0
      <4> HIDE DEF w, wh, span
      <4> QED BY <2>1, <2>4, <2>5, <1>1
    <3>2. ~(f <= span.ullSize) => span.ullSize \div f = 0
      <4> HIDE DEF f, span
      <4>1. ~(f <= span.ullSize) => span.ullSize = f * 0 + span.ullSize /\ span.ullSize \in 0..f - 1
        BY <1>1, <2>5
      <4> QED BY <1>1, <2>5, <4>1, QuotientIs
    <3>3. span.ullSize \div f = 0 => w = 0
      BY <1>1
    <3> QED BY <3>1, <3>2, <3>3
  <2>8. Asked(c, o) = (o - span.ullOffset) % f
    <3>1. \A j \in 1..1 : f <= c.spans[j].ullSize
      BY <2>3, <2>7
    <3> QED BY <1>3, <2>3, <2>6, <3>1, AskedInSpan
  <2>9. PICK n \in Nat : wh = n * f
    <3>1. PICK m \in Nat : Operand(c) = m * f
      BY OperandFacts
    <3> DEFINE q == span.ullSize \div Operand(c)
    <3>2. q \in Nat
      BY <2>5, OperandFacts, ModFacts
    <3>3. wh = q * Operand(c)
      BY DEF Whole
    <3> HIDE DEF q, f, wh
    <3>4. wh = (q * m) * f /\ q * m \in Nat
      BY <1>1, <3>1, <3>2, <3>3
    <3> QED BY <3>4
  <2>10. o - span.ullOffset = n * f + (o - TailStart(c)) /\ o - TailStart(c) \in Nat
    <3>1. n * f \in Nat
      <4> HIDE DEF f
      <4> QED BY <1>1
    <3> HIDE DEF wh, span, f
    <3> QED BY <1>1, <2>4, <2>5, <2>9, <3>1
  <2>11. (n * f + (o - TailStart(c))) % f = (o - TailStart(c)) % f
    <3> HIDE DEF f
    <3> QED BY <1>1, <2>10, ModAdd
  <2> QED BY <2>8, <2>10, <2>11
<1> QED BY <1>2, <1>3

-----------------------------------------------------------------------------
(* The inductive invariant                                                 *)

\* Spans apart from each other, and an operand the cache holds or that is a
\* whole number of caches.
Meant == \A c \in Calls : Held(c) /\ Apart(c)

\* The worker has come to its end: no span is left, or the next is too short.
Through == ~(k <= Len(call.spans) /\ Operand(call) <= call.spans[k].ullSize)

\* Who runs when: a worker only behind the dialog or the join, and once it was
\* cancelled or came to its end, no more.
Threads ==
  /\ ui \in {"modal", "join"} => stage = "worker"
  /\ worker # "none" => ui \in {"modal", "join"}
  /\ worker = "ended" => stopped \/ Through
  /\ stage = "worker" => call.mode # "ONCE" /\ (stopped => worker = "ended")

\* How much of the i-th span the worker has done.
DoneOf(i) ==
  IF i < k THEN Whole(call, call.spans[i])
  ELSE IF i = k THEN WalkedTo(call, call.spans[i], chunk) ELSE 0

Has(o) == \E i \in 1..Len(call.spans) : o \in Bytes(call.spans[i], DoneOf(i))

\* What the worker may do at all.
MayHave(o) == \E i \in 1..Len(call.spans) : o \in Bytes(call.spans[i], Whole(call, call.spans[i]))

\* While the worker's loops run: what they are through with is as asked, the rest
\* is as it was, but for the piece in which the worker was stopped.
WorkerBytes ==
  stage = "worker" =>
    /\ \A i \in 1..Len(call.spans) : i < k => Operand(call) <= call.spans[i].ullSize
    /\ \A o \in Offset :
         /\ Has(o) => touched[o] = Asked(call, o)
         /\ ~Has(o) /\ ~stopped => touched[o] = Untouched
         /\ touched[o] # Untouched => MayHave(o)

\* While the tail is filled: its rest is as it was; a call that was not stopped
\* has done everything else.
TailBytes ==
  stage = "tail" =>
    \A o \in Offset :
      IF o \in TailRest(call, TailDone(call, chunk)) THEN touched[o] = Untouched
      ELSE ~stopped => touched[o] = Asked(call, o)

OnlyAsked == \A o \in Offset : touched[o] \in {Untouched, Asked(call, o)}

ModifyInv ==
  /\ TypeOK /\ Meant
  /\ Threads
  /\ OnlyAsked
  /\ WorkerBytes
  /\ TailBytes
  /\ AllAsAsked

-----------------------------------------------------------------------------
(* Steps                                                                   *)

\* Untouched bytes are given what is asked for.
LEMMA TouchFacts ==
  ASSUME TypeOK, OnlyAsked, NEW p, p.ullOffset \in Int, p.first \in Nat, NEW size \in Nat,
         \A o \in Offset : o \in p.ullOffset..p.ullOffset + size - 1 =>
           touched[o] = Untouched /\ Asked(call, o) = (p.first + (o - p.ullOffset)) % call.fill,
         touched' = Touch(call, p, size), call' = call
  PROVE  /\ touched' \in [Offset -> {Untouched, Twice} \cup (0..call.fill - 1)]
         /\ \A o \in Offset :
              touched'[o] = IF o \in p.ullOffset..p.ullOffset + size - 1 THEN Asked(call, o)
                            ELSE touched[o]
         /\ OnlyAsked'
<1>1. /\ call \in Calls /\ call.fill \in Nat \ {0}
      /\ touched \in [Offset -> {Untouched, Twice} \cup (0..call.fill - 1)]
  BY CallFacts DEF TypeOK
<1> DEFINE In(o) == o \in p.ullOffset..p.ullOffset + size - 1
<1>2. \A o \in Offset : In(o) => (p.first + (o - p.ullOffset)) % call.fill \in 0..call.fill - 1
  <2> SUFFICES ASSUME NEW o \in Offset, In(o)
               PROVE  (p.first + (o - p.ullOffset)) % call.fill \in 0..call.fill - 1
    OBVIOUS
  <2>1. p.first + (o - p.ullOffset) \in Nat
    BY DEF Offset
  <2> QED BY <1>1, <2>1, ModFacts
<1>3. \A o \in Offset :
        touched'[o] = IF In(o) THEN IF touched[o] = Untouched
                                    THEN (p.first + (o - p.ullOffset)) % call.fill ELSE Twice
                      ELSE touched[o]
  BY DEF Touch
<1>4. \A o \in Offset : touched'[o] = IF In(o) THEN Asked(call, o) ELSE touched[o]
  BY <1>3
<1>5. touched' \in [Offset -> {Untouched, Twice} \cup (0..call.fill - 1)]
  <2>1. \A o \in Offset : touched'[o] \in {Untouched, Twice} \cup (0..call.fill - 1)
    BY <1>1, <1>2, <1>4
  <2>2. touched' = [o \in Offset |-> touched'[o]]
    BY DEF Touch
  <2> HIDE DEF In
  <2> QED BY <2>1, <2>2
<1>6. OnlyAsked'
  <2>1. \A o \in Offset : touched'[o] \in {Untouched, Asked(call, o)}
    BY <1>4 DEF OnlyAsked
  <2> QED BY <2>1 DEF OnlyAsked
<1> QED BY <1>4, <1>5, <1>6

\* The piece the worker is at is all untouched, in its span and what the
\* operand's bytes are asked to be.
LEMMA AtPiece ==
  ASSUME ModifyInv, AtSpan, HasPiece(call, curSpan, chunk)
  PROVE  /\ k \in 1..Len(call.spans) /\ ~stopped /\ stage = "worker" /\ call.mode # "ONCE"
         /\ GoodPiece(call, curSpan, chunk, curPiece)
         /\ DoneOf(k) = chunk * Step(call, curSpan)
         /\ curPiece.ullOffset = curSpan.ullOffset + DoneOf(k)
         /\ DoneOf(k) \in Nat /\ curSpan.ullOffset \in Nat
         /\ Modified(call, curPiece) \in Nat \ {0}
         /\ DoneOf(k) + Modified(call, curPiece) <= Whole(call, curSpan)
         /\ \A o \in Offset :
              o \in curPiece.ullOffset..curPiece.ullOffset + Modified(call, curPiece) - 1 =>
                /\ ~Has(o)
                /\ touched[o] = Untouched
                /\ Asked(call, o) = (curPiece.first + (o - curPiece.ullOffset)) % call.fill
<1> DEFINE p == curPiece
           M == Modified(call, p)
           D == chunk * Step(call, curSpan)
           W == Whole(call, curSpan)
<1>1. /\ call \in Calls /\ Held(call) /\ Apart(call) /\ k \in 1..Len(call.spans) /\ chunk \in Nat
      /\ Operand(call) <= curSpan.ullSize /\ stage = "worker" /\ call.mode # "ONCE"
      /\ call.fill \in Nat \ {0}
  BY CallFacts DEF ModifyInv, TypeOK, AtSpan, Threads, Meant
<1>2. ~stopped
  BY DEF ModifyInv, AtSpan, WorkerRuns, Threads
<1>3. GoodPiece(call, curSpan, chunk, p)
  BY <1>1, PieceFacts, SpanFacts DEF curSpan, curPiece
<1>4. /\ W \in Nat /\ curSpan.ullOffset \in Nat /\ curSpan.ullSize \in Nat /\ W <= curSpan.ullSize
      /\ W <= (curSpan.ullSize \div call.fill) * call.fill
  <2> DEFINE w == (curSpan.ullSize \div call.fill) * call.fill
  <2>1. /\ W \in Nat /\ curSpan.ullOffset \in Nat /\ curSpan.ullSize \in Nat /\ w \in Nat
        /\ W <= w /\ w <= curSpan.ullSize
    BY <1>1, SpanFacts DEF curSpan
  <2> HIDE DEF w, W
  <2> QED BY <2>1 DEF w
<1>5. /\ D + M = WalkedTo(call, curSpan, chunk + 1) /\ D < W
      /\ p.ullOffset = curSpan.ullOffset + D /\ p.first \in Nat
      /\ Times(call, p) \in Nat \ {0} /\ Unit(call, p) \in Nat \ {0}
  BY <1>3 DEF GoodPiece
<1>6. M \in Nat \ {0}
  <2>1. \A a, b \in Nat \ {0} : a * b \in Nat \ {0}
    OBVIOUS
  <2> QED BY <1>5, <2>1 DEF Modified
<1>7. Step(call, curSpan) \in Nat /\ D \in Nat
  <2>1. CacheSize \in Nat /\ Operand(call) \in Nat \ {0}
    BY <1>1, ModifyAssumption, OperandFacts
  <2>2. CacheSize % Operand(call) \in Nat /\ CacheSize % Operand(call) <= CacheSize
    BY <2>1, ModFacts
  <2>3. Aligned(call, curSpan) \in Nat
    BY <1>4, <2>1, <2>2 DEF Aligned, Least
  <2> QED BY <1>1, <2>1, <2>3 DEF Step
<1>8. D + M <= W
  <2>1. (chunk + 1) * Step(call, curSpan) \in Nat
    BY <1>1, <1>7
  <2> HIDE DEF D, M, W
  <2> QED BY <1>4, <1>5, <2>1 DEF WalkedTo, Least, W
<1>9. DoneOf(k) = D
  <2>1. WalkedTo(call, curSpan, chunk) = D
    <3> HIDE DEF W
    <3> QED BY <1>4, <1>5, <1>7 DEF WalkedTo, Least, W
  <2>2. ~(k < k)
    BY <1>1
  <2> HIDE DEF D
  <2> QED BY <2>1, <2>2 DEF DoneOf, curSpan
<1>10. ASSUME NEW o \in Offset, o \in p.ullOffset..p.ullOffset + M - 1
       PROVE  /\ ~Has(o) /\ touched[o] = Untouched
              /\ Asked(call, o) = (p.first + (o - p.ullOffset)) % call.fill
  <2>1. /\ o \in Int /\ curSpan.ullOffset + D <= o /\ o < curSpan.ullOffset + D + M
    BY <1>4, <1>5, <1>6, <1>7, <1>10 DEF Offset
  <2>2. \A i \in 1..Len(call.spans) : o \notin Bytes(call.spans[i], DoneOf(i))
    <3> SUFFICES ASSUME NEW i \in 1..Len(call.spans), o \in Bytes(call.spans[i], DoneOf(i))
                 PROVE  FALSE
      OBVIOUS
    <3>1. i = k => FALSE
      <4>1. i = k => o \in Bytes(curSpan, D)
        BY <1>9 DEF curSpan
      <4> HIDE DEF D, M
      <4> QED BY <1>4, <1>7, <2>1, <4>1 DEF Bytes
    <3>2. i > k => FALSE
      <4>1. i > k => DoneOf(i) = 0
        BY <1>1 DEF DoneOf
      <4>2. i > k => o \in call.spans[i].ullOffset..call.spans[i].ullOffset + 0 - 1
        BY <4>1 DEF Bytes
      <4>3. call.spans[i].ullOffset \in Nat
        BY <1>1, SpanFacts
      <4> QED BY <2>1, <4>2, <4>3
    <3>3. i < k => FALSE
      <4> DEFINE a == call.spans[i]
                 wi == Whole(call, a)
      <4>1. i < k => o \in Bytes(a, wi)
        BY DEF DoneOf
      <4>2. a.ullOffset \in Nat /\ a.ullSize \in Nat /\ wi \in Nat /\ wi <= a.ullSize
        <5> DEFINE w == (a.ullSize \div call.fill) * call.fill
        <5>1. /\ a.ullOffset \in Nat /\ a.ullSize \in Nat /\ wi \in Nat /\ w \in Nat /\ wi <= w
              /\ w <= a.ullSize
          BY <1>1, SpanFacts
        <5> HIDE DEF w, wi
        <5> QED BY <5>1
      <4>3. i # k => \/ a.ullOffset + a.ullSize <= curSpan.ullOffset
                      \/ curSpan.ullOffset + curSpan.ullSize <= a.ullOffset
        BY <1>1 DEF Apart, curSpan
      <4>4. i < k => i # k
        BY <1>1
      <4>5. i < k => a.ullOffset <= o /\ o < a.ullOffset + wi
        <5> HIDE DEF a, wi, D, M, W
        <5> QED BY <2>1, <4>1, <4>2 DEF Bytes
      <4>6. o < curSpan.ullOffset + curSpan.ullSize
        <5> HIDE DEF D, M, W, p
        <5> QED BY <1>4, <1>6, <1>7, <1>8, <2>1 DEF W
      <4>7. curSpan.ullOffset <= o
        <5> HIDE DEF D, M, W, p
        <5> QED BY <1>4, <1>7, <2>1
      <4> HIDE DEF a, wi, D, M, W
      <4> QED BY <1>4, <2>1, <4>2, <4>3, <4>4, <4>5, <4>6, <4>7
    <3> QED BY <1>1, <3>1, <3>2, <3>3
  <2>3. ~Has(o)
    BY <2>2 DEF Has
  <2>4. touched[o] = Untouched
    BY <1>1, <1>2, <2>3 DEF ModifyInv, WorkerBytes
  <2>5. Asked(call, o) = (o - curSpan.ullOffset) % call.fill
    <3>1. \A j \in 1..k : call.fill <= call.spans[j].ullSize
      <4>1. \A j \in 1..k : j \in 1..Len(call.spans) /\ Operand(call) <= call.spans[j].ullSize
        <5>1. \A j \in 1..k : j < k \/ j = k
          BY <1>1
        <5>2. \A j \in 1..k : j \in 1..Len(call.spans)
          BY <1>1
        <5> QED BY <1>1, <5>1, <5>2 DEF ModifyInv, WorkerBytes, curSpan
      <4> QED BY <1>1, <4>1, SpanFacts
    <3> DEFINE w == (curSpan.ullSize \div call.fill) * call.fill
    <3>2. w \in Nat
      BY <1>1, SpanFacts DEF curSpan
    <3>3. o \in Bytes(curSpan, w)
      <4> HIDE DEF w, D, M, W
      <4> QED BY <1>4, <1>6, <1>7, <1>8, <2>1, <3>2 DEF Bytes, w
    <3> QED BY <1>1, <3>1, <3>3, AskedInSpan DEF curSpan
  <2>6. PICK m \in Nat : D = m * Operand(call) + p.first
    BY <1>3 DEF GoodPiece
  <2>7. PICK n \in Nat : Operand(call) = n * call.fill
    BY <1>1, OperandFacts
  <2> DEFINE x == p.first + (o - p.ullOffset)
  <2>8. x \in Nat /\ o - curSpan.ullOffset = (m * n) * call.fill + x /\ m * n \in Nat
    <3>1. m * Operand(call) = (m * n) * call.fill
      BY <1>1, <2>7
    <3>2. m * n \in Nat /\ (m * n) * call.fill \in Nat
      BY <1>1
    <3> HIDE DEF D, M, p
    <3> QED BY <1>4, <1>5, <1>6, <1>7, <2>1, <2>6, <3>1, <3>2
  <2>9. ((m * n) * call.fill + x) % call.fill = x % call.fill
    <3> HIDE DEF x
    <3> QED BY <1>1, <2>8, ModAdd
  <2> QED BY <2>3, <2>4, <2>5, <2>8, <2>9
<1> QED BY <1>1, <1>2, <1>3, <1>4, <1>5, <1>6, <1>7, <1>8, <1>9, <1>10

\* After a piece, what is done has grown by the piece.
LEMMA GrownByPiece ==
  ASSUME ModifyInv, AtSpan, HasPiece(call, curSpan, chunk),
         call' = call, k' = k, chunk' = chunk + 1, NEW o \in Offset
  PROVE  Has(o)' <=> \/ Has(o)
                     \/ o \in curPiece.ullOffset..curPiece.ullOffset + Modified(call, curPiece) - 1
<1> DEFINE p == curPiece
           M == Modified(call, p)
           D == chunk * Step(call, curSpan)
<1>1. /\ k \in 1..Len(call.spans) /\ DoneOf(k) = D
      /\ p.ullOffset = curSpan.ullOffset + D
      /\ D \in Nat /\ curSpan.ullOffset \in Nat /\ M \in Nat \ {0}
      /\ GoodPiece(call, curSpan, chunk, p)
  BY AtPiece
<1>2. D + M = WalkedTo(call, curSpan, chunk + 1)
  BY <1>1 DEF GoodPiece
<1>3. DoneOf(k)' = D + M
  <2>1. ~(k < k)
    BY <1>1
  <2> HIDE DEF D, M
  <2> QED BY <1>2, <2>1 DEF DoneOf, curSpan
<1>4. \A i \in 1..Len(call.spans) : i # k => DoneOf(i)' = DoneOf(i)
  BY DEF DoneOf
<1>5. o \in Bytes(curSpan, D + M) <=> o \in Bytes(curSpan, D) \/ o \in p.ullOffset..p.ullOffset + M - 1
  <2>1. o \in Int
    BY DEF Offset
  <2> HIDE DEF D, M, p
  <2> QED BY <1>1, <2>1 DEF Bytes
<1> HIDE DEF D, M, p
<1>6. Has(o)' <=> \E i \in 1..Len(call.spans) : o \in Bytes(call.spans[i], DoneOf(i)')
  BY DEF Has, Bytes
<1>7. (\E i \in 1..Len(call.spans) : o \in Bytes(call.spans[i], DoneOf(i)'))
        <=> \/ o \in Bytes(curSpan, D + M)
            \/ \E i \in 1..Len(call.spans) : i # k /\ o \in Bytes(call.spans[i], DoneOf(i))
  BY <1>1, <1>3, <1>4 DEF curSpan
<1>8. Has(o) <=> \/ o \in Bytes(curSpan, D)
                 \/ \E i \in 1..Len(call.spans) : i # k /\ o \in Bytes(call.spans[i], DoneOf(i))
  BY <1>1 DEF Has, curSpan
<1> QED BY <1>5, <1>6, <1>7, <1>8 DEF p, M

\* A span that has no piece left is done as far as whole operands fit.
LEMMA DoneAtNextSpan ==
  ASSUME ModifyInv, AtSpan, ~HasPiece(call, curSpan, chunk),
         call' = call, k' = k + 1, chunk' = 0, NEW o \in Offset
  PROVE  Has(o)' <=> Has(o)
<1>1. /\ call \in Calls /\ Held(call) /\ k \in 1..Len(call.spans) /\ chunk \in Nat
      /\ Operand(call) <= curSpan.ullSize
  BY DEF ModifyInv, TypeOK, AtSpan, Meant
<1>2. DoneOf(k) = Whole(call, curSpan)
  <2>1. WalkedTo(call, curSpan, chunk) = Whole(call, curSpan)
    BY <1>1, PieceFacts, SpanFacts DEF curSpan
  <2> QED BY <1>1, <2>1 DEF DoneOf, curSpan
<1>3. \A i \in 1..Len(call.spans) : DoneOf(i)' = DoneOf(i)
  <2> SUFFICES ASSUME NEW i \in 1..Len(call.spans) PROVE DoneOf(i)' = DoneOf(i)
    OBVIOUS
  <2>1. DoneOf(i)' = IF i < k + 1 THEN Whole(call, call.spans[i])
                     ELSE IF i = k + 1 THEN WalkedTo(call, call.spans[i], 0) ELSE 0
    BY DEF DoneOf
  <2>2. WalkedTo(call, call.spans[i], 0) = 0
    BY <1>1, SpanFacts
  <2>3. CASE i < k
    BY <1>1, <2>1, <2>3 DEF DoneOf
  <2>4. CASE i = k
    BY <1>1, <1>2, <2>1, <2>4 DEF curSpan
  <2>5. CASE i > k
    <3>1. ~(i < k + 1) /\ ~(i < k) /\ i # k
      BY <1>1, <2>5
    <3> QED BY <2>1, <2>2, <3>1 DEF DoneOf
  <2> QED BY <1>1, <2>3, <2>4, <2>5
<1> QED BY <1>3 DEF Has, Bytes

\* What the worker leaves to the tail is untouched, and all else is done unless
\* it was stopped.
LEMMA ToTail ==
  ASSUME ModifyInv, stage = "worker", stopped \/ Through, call' = call, chunk' = 0,
         touched' = touched, stopped' = stopped
  PROVE  TailBytes'
<1>1. /\ call \in Calls /\ Apart(call) /\ call.mode # "ONCE"
      /\ k \in 1..Len(call.spans) + 1 /\ Len(call.spans) \in Nat
  BY CallFacts DEF ModifyInv, TypeOK, Threads, Meant
<1>2. TailDone(call, 0) = 0
  BY <1>1, TailFacts
<1>3. \A o \in Offset : /\ Has(o) => touched[o] = Asked(call, o)
                        /\ ~Has(o) /\ ~stopped => touched[o] = Untouched
                        /\ touched[o] # Untouched => MayHave(o)
  BY DEF ModifyInv, WorkerBytes
<1>4. ASSUME NEW o \in Offset, o \in TailRest(call, 0)
      PROVE  touched[o] = Untouched
  <2> SUFFICES ASSUME MayHave(o) PROVE FALSE
    BY <1>3, <1>4
  <2>1. PICK i \in 1..Len(call.spans) : o \in Bytes(call.spans[i], Whole(call, call.spans[i]))
    BY DEF MayHave
  <2>2. /\ TailSize(call) \in Nat /\ TailStart(call) \in Nat /\ o \in Int
        /\ TailStart(call) <= o /\ o < TailStart(call) + TailSize(call)
    BY <1>1, <1>4, TailPlace DEF TailRest
  <2>3. Operand(call) # call.fill
    <3>1. TailSize(call) # 0
      BY <2>2
    <3> QED BY <1>1, <3>1, TailPlace
  <2>4. call.spans[i] = Last(call.spans)
    BY <1>1, <2>3, OperandFacts, CallFacts
  <2>5. TailStart(call) = call.spans[i].ullOffset + Whole(call, call.spans[i])
    BY <1>1, <2>4, TailPlace
  <2>6. call.spans[i].ullOffset \in Nat /\ Whole(call, call.spans[i]) \in Nat
    BY <1>1, SpanFacts
  <2> QED BY <2>1, <2>2, <2>5, <2>6 DEF Bytes
<1>5. ASSUME NEW o \in Offset, o \notin TailRest(call, 0), ~stopped
      PROVE  touched[o] = Asked(call, o)
  <2>1. CASE Has(o)
    BY <1>3, <2>1
  <2>2. CASE ~Has(o)
    <3>1. ASSUME NEW i \in 1..Len(call.spans), Filled(call, i, o)
          PROVE  FALSE
      <4>1. /\ o \in Bytes(call.spans[i], Whole(call, call.spans[i]))
            /\ \A j \in 1..i : Operand(call) <= call.spans[j].ullSize
        BY <1>1, <1>5, <3>1, AskedWhere DEF Offset
      <4>2. i < k
        <5>1. ~(i < k) => k \in 1..i /\ k <= Len(call.spans)
          BY <1>1
        <5> QED BY <1>5, <4>1, <5>1 DEF Through
      <4>3. DoneOf(i) = Whole(call, call.spans[i])
        BY <4>2 DEF DoneOf
      <4> QED BY <2>2, <4>1, <4>3 DEF Has
    <3>2. Asked(call, o) = Untouched
      BY <1>1, <3>1 DEF Asked
    <3> QED BY <1>3, <1>5, <2>2, <3>2
  <2> QED BY <2>1, <2>2
<1> QED BY <1>2, <1>4, <1>5 DEF TailBytes, TailRest

-----------------------------------------------------------------------------
(* The actions                                                             *)

\* A call begins with nothing modified.
LEMMA ModifyDataInv ==
  ASSUME ModifyInv, NEW c \in Calls, ModifyData(c)
  PROVE  ModifyInv'
<1>1. /\ c \in Calls /\ call' = c /\ k' = 1 /\ chunk' = 0 /\ ~stopped' /\ redraw' = FALSE
      /\ stopped' = FALSE
      /\ stage' = IF c.mode = "ONCE" THEN "tail" ELSE "worker"
      /\ \A o \in Offset : touched'[o] = Untouched
      /\ touched' = [o \in Offset |-> Untouched]
  BY DEF ModifyData
<1>2. /\ ui' \in {"busy", "modal"} /\ worker' \in {"none", "running"} /\ cancel' = FALSE
      /\ current' = Last(c.spans).ullOffset
      /\ ui' = "modal" => c.mode # "ONCE" /\ worker' = "running"
      /\ ui' = "busy" => worker' = "none"
  BY DEF ModifyData, Launch, RunInline
<1>3. /\ c.fill \in Nat \ {0} /\ Len(c.spans) \in Nat \ {0} /\ Last(c.spans).ullOffset \in Nat
  BY CallFacts, LastFacts
<1>4. TypeOK'
  <2>1. touched' \in [Offset -> {Untouched, Twice} \cup (0..c.fill - 1)]
    BY <1>1
  <2>2. 1 \in 1..Len(c.spans) + 1
    BY <1>3
  <2>3. /\ ui' \in {"free", "busy", "modal", "join"}
        /\ worker' \in {"none", "running", "ended"}
        /\ cancel' \in BOOLEAN /\ current' \in Nat
    BY <1>2, <1>3
  <2>4. stage' \in {"idle", "worker", "tail", "done"} /\ redraw' \in BOOLEAN /\ stopped' \in BOOLEAN
    BY <1>1
  <2> QED BY <1>1, <2>1, <2>2, <2>3, <2>4 DEF TypeOK, ProgressTypeOK
<1>5. Meant' /\ Threads'
  BY <1>1, <1>2 DEF ModifyInv, Meant, Threads
<1>6. OnlyAsked' /\ AllAsAsked'
  BY <1>1 DEF OnlyAsked, AllAsAsked
<1>7. WorkerBytes'
  <2> SUFFICES ASSUME NEW o \in Offset PROVE ~Has(o)'
    BY <1>1, <1>3 DEF WorkerBytes
  <2>1. \A i \in 1..Len(c.spans) : DoneOf(i)' = 0
    <3> SUFFICES ASSUME NEW i \in 1..Len(c.spans) PROVE DoneOf(i)' = 0
      OBVIOUS
    <3>1. ~(i < 1)
      OBVIOUS
    <3> QED BY <1>1, <3>1, SpanFacts DEF DoneOf
  <2>2. \A i \in 1..Len(c.spans) : o \notin c.spans[i].ullOffset..c.spans[i].ullOffset + 0 - 1
    <3> SUFFICES ASSUME NEW i \in 1..Len(c.spans)
                 PROVE  o \notin c.spans[i].ullOffset..c.spans[i].ullOffset + 0 - 1
      OBVIOUS
    <3>1. c.spans[i].ullOffset \in Nat
      BY SpanFacts
    <3> QED BY <3>1
  <2> QED BY <1>1, <2>1, <2>2 DEF Has, Bytes
<1>8. TailBytes'
  <2> SUFFICES ASSUME c.mode = "ONCE", NEW o \in Offset, o \notin TailRest(c, 0)
               PROVE  Asked(c, o) = Untouched
    <3>1. TailDone(c, 0) = 0
      BY TailFacts
    <3> QED BY <1>1, <3>1 DEF TailBytes, TailRest
  <2>1. /\ TailStart(c) = Last(c.spans).ullOffset /\ TailSize(c) = Least(Size(c), c.fill)
        /\ TailStart(c) \in Nat
    BY TailPlace
  <2>2. TailStart(c) + 0 = TailStart(c)
    BY <2>1
  <2> QED BY <2>1, <2>2 DEF Asked, TailRest
<1> QED BY <1>4, <1>5, <1>6, <1>7, <1>8 DEF ModifyInv

\* A piece of the worker's.
LEMMA ModifyChunkInv ==
  ASSUME ModifyInv, ModifyChunk
  PROVE  ModifyInv'
<1> DEFINE p == curPiece
           M == Modified(call, p)
<1>1. /\ AtSpan /\ HasPiece(call, curSpan, chunk) /\ chunk' = chunk + 1
      /\ touched' = Touch(call, p, M)
      /\ UNCHANGED <<stage, call, k, stopped, redraw, ui, worker, cancel>>
  BY DEF ModifyChunk, Modified
<1>2. /\ k \in 1..Len(call.spans) /\ ~stopped /\ stage = "worker"
      /\ GoodPiece(call, curSpan, chunk, p)
      /\ p.ullOffset = curSpan.ullOffset + DoneOf(k)
      /\ DoneOf(k) \in Nat /\ curSpan.ullOffset \in Nat /\ M \in Nat \ {0}
      /\ DoneOf(k) + M <= Whole(call, curSpan)
      /\ \A o \in Offset : o \in p.ullOffset..p.ullOffset + M - 1 =>
           /\ touched[o] = Untouched
           /\ Asked(call, o) = (p.first + (o - p.ullOffset)) % call.fill
  BY <1>1, AtPiece
<1>3. /\ TypeOK /\ Meant /\ Threads /\ OnlyAsked /\ WorkerBytes /\ call \in Calls
  BY DEF ModifyInv, TypeOK
<1>4. p.ullOffset \in Nat /\ p.first \in Nat
  BY <1>2 DEF GoodPiece
<1>5. /\ touched' \in [Offset -> {Untouched, Twice} \cup (0..call.fill - 1)]
      /\ \A o \in Offset :
           touched'[o] = IF o \in p.ullOffset..p.ullOffset + M - 1 THEN Asked(call, o)
                         ELSE touched[o]
      /\ OnlyAsked'
  <2> HIDE DEF p, M
  <2> QED BY <1>1, <1>2, <1>3, <1>4, TouchFacts
<1>6. current' \in Nat
  <2>1. /\ Times(call, p) \in Nat \ {0} /\ p.ullSize \in Nat /\ Operand(call) \in Nat
    BY <1>2, <1>3, OperandFacts DEF GoodPiece
  <2>2. (Times(call, p) - 1) * Operand(call) \in Nat
    BY <2>1
  <2>3. current' = IF CacheHoldsOperand(call)
                   THEN p.ullOffset + (Times(call, p) - 1) * Operand(call)
                   ELSE p.ullOffset + p.ullSize
    BY DEF ModifyChunk, Report
  <2> HIDE DEF p
  <2> QED BY <1>4, <2>1, <2>2, <2>3
<1>7. TypeOK'
  BY <1>1, <1>3, <1>5, <1>6 DEF TypeOK, ProgressTypeOK
<1>8. Meant' /\ Threads'
  BY <1>1, <1>2, <1>3 DEF Meant, Threads, AtSpan, WorkerRuns
<1>9. AllAsAsked' /\ TailBytes'
  BY <1>1, <1>2 DEF AllAsAsked, TailBytes
<1>10. WorkerBytes'
  <2>1. \A i \in 1..Len(call.spans) : i < k => Operand(call) <= call.spans[i].ullSize
    BY <1>2, <1>3 DEF WorkerBytes
  <2>2. ASSUME NEW o \in Offset
        PROVE  /\ Has(o)' => touched'[o] = Asked(call, o)
               /\ ~Has(o)' => touched'[o] = Untouched
               /\ touched'[o] # Untouched => MayHave(o)
    <3>1. Has(o)' <=> Has(o) \/ o \in p.ullOffset..p.ullOffset + M - 1
      BY <1>1, GrownByPiece
    <3>2. /\ Has(o) => touched[o] = Asked(call, o)
          /\ ~Has(o) => touched[o] = Untouched
          /\ touched[o] # Untouched => MayHave(o)
      BY <1>2, <1>3 DEF WorkerBytes
    <3>3. o \in p.ullOffset..p.ullOffset + M - 1 => MayHave(o)
      <4> DEFINE W == Whole(call, curSpan)
      <4>1. W \in Nat
        BY <1>2, <1>3, SpanFacts DEF curSpan
      <4>2. o \in p.ullOffset..p.ullOffset + M - 1 => o \in Bytes(curSpan, W)
        <5> HIDE DEF p, M, W
        <5> QED BY <1>2, <4>1 DEF Bytes, Offset, W
      <4> HIDE DEF p, M
      <4> QED BY <1>2, <4>2 DEF MayHave, curSpan
    <3> HIDE DEF p, M
    <3> QED BY <1>5, <3>1, <3>2, <3>3
  <2>3. \A o \in Offset : MayHave(o)' <=> MayHave(o)
    BY <1>1 DEF MayHave
  <2> QED BY <1>1, <2>1, <2>2, <2>3 DEF WorkerBytes
<1> QED BY <1>5, <1>7, <1>8, <1>9, <1>10 DEF ModifyInv

\* The operands of a piece before the worker sees that it is cancelled.
LEMMA CancelChunkInv ==
  ASSUME ModifyInv, NEW n, CancelChunk(n)
  PROVE  ModifyInv'
<1> DEFINE p == curPiece
           M == Modified(call, p)
           some == n * Unit(call, p)
<1>1. /\ AtSpan /\ HasPiece(call, curSpan, chunk) /\ worker = "running"
      /\ n \in 1..Times(call, p)
      /\ touched' = Touch(call, p, some) /\ stopped' = TRUE
      /\ worker' = "ended" /\ cancel' = TRUE
      /\ UNCHANGED <<stage, call, k, chunk, redraw, ui, current>>
  BY DEF CancelChunk, WorkerEnds
<1>2. /\ k \in 1..Len(call.spans) /\ ~stopped /\ stage = "worker"
      /\ GoodPiece(call, curSpan, chunk, p)
      /\ p.ullOffset = curSpan.ullOffset + DoneOf(k)
      /\ DoneOf(k) \in Nat /\ curSpan.ullOffset \in Nat /\ M \in Nat \ {0}
      /\ DoneOf(k) + M <= Whole(call, curSpan)
      /\ \A o \in Offset : o \in p.ullOffset..p.ullOffset + M - 1 =>
           /\ ~Has(o)
           /\ touched[o] = Untouched
           /\ Asked(call, o) = (p.first + (o - p.ullOffset)) % call.fill
  BY <1>1, AtPiece
<1>3. /\ TypeOK /\ Meant /\ Threads /\ OnlyAsked /\ WorkerBytes /\ call \in Calls
  BY DEF ModifyInv, TypeOK
<1>4. p.ullOffset \in Nat /\ p.first \in Nat
  BY <1>2 DEF GoodPiece
<1>5. some \in Nat /\ some <= M
  <2> DEFINE t == Times(call, p)
             u == Unit(call, p)
  <2>1. t \in Nat /\ u \in Nat /\ n \in Nat /\ n <= t /\ M = t * u
    BY <1>1, <1>2 DEF GoodPiece, Modified
  <2> HIDE DEF t, u
  <2>2. u * n <= u * t
    BY <2>1, MulMono
  <2>3. u * n = n * u /\ u * t = t * u /\ n * u \in Nat
    BY <2>1
  <2> HIDE DEF M
  <2> QED BY <2>1, <2>2, <2>3 DEF u
<1> HIDE DEF some
<1>6. \A o \in Offset : o \in p.ullOffset..p.ullOffset + some - 1 => o \in p.ullOffset..p.ullOffset + M - 1
  <2>1. p.ullOffset \in Nat /\ some \in Nat /\ M \in Nat /\ some <= M
    BY <1>2, <1>4, <1>5
  <2> HIDE DEF p, M
  <2> QED BY <2>1 DEF Offset
<1>7. /\ touched' \in [Offset -> {Untouched, Twice} \cup (0..call.fill - 1)]
      /\ \A o \in Offset :
           touched'[o] = IF o \in p.ullOffset..p.ullOffset + some - 1 THEN Asked(call, o)
                         ELSE touched[o]
      /\ OnlyAsked'
  <2> HIDE DEF p, M
  <2>1. \A o \in Offset : o \in p.ullOffset..p.ullOffset + some - 1 =>
          touched[o] = Untouched /\ Asked(call, o) = (p.first + (o - p.ullOffset)) % call.fill
    BY <1>2, <1>6, Zenon
  <2>2. TypeOK /\ OnlyAsked /\ touched' = Touch(call, p, some) /\ call' = call
    BY <1>1, <1>3
  <2>3. p.ullOffset \in Int /\ p.first \in Nat /\ some \in Nat
    BY <1>4, <1>5
  <2> QED BY <2>1, <2>2, <2>3, TouchFacts, Zenon
<1>8. TypeOK'
  BY <1>1, <1>3, <1>7 DEF TypeOK, ProgressTypeOK
<1>9. Meant' /\ Threads'
  BY <1>1, <1>2, <1>3 DEF Meant, Threads
<1>10. AllAsAsked' /\ TailBytes'
  BY <1>1, <1>2 DEF AllAsAsked, TailBytes
<1>11. WorkerBytes'
  <2>1. \A i \in 1..Len(call.spans) : i < k => Operand(call) <= call.spans[i].ullSize
    BY <1>2, <1>3 DEF WorkerBytes
  <2>2. ASSUME NEW o \in Offset
        PROVE  /\ Has(o) => touched'[o] = Asked(call, o)
               /\ touched'[o] # Untouched => MayHave(o)
    <3>1. /\ Has(o) => touched[o] = Asked(call, o)
          /\ touched[o] # Untouched => MayHave(o)
      BY <1>2, <1>3 DEF WorkerBytes
    <3>2. o \in p.ullOffset..p.ullOffset + M - 1 => MayHave(o)
      <4> DEFINE W == Whole(call, curSpan)
      <4>1. W \in Nat
        BY <1>2, <1>3, SpanFacts DEF curSpan
      <4>2. o \in p.ullOffset..p.ullOffset + M - 1 => o \in Bytes(curSpan, W)
        <5> HIDE DEF p, M, W
        <5> QED BY <1>2, <4>1 DEF Bytes, Offset, W
      <4> HIDE DEF p, M
      <4> QED BY <1>2, <4>2 DEF MayHave, curSpan
    <3> HIDE DEF p, M
    <3> QED BY <1>2, <1>6, <1>7, <3>1, <3>2
  <2>3. \A o \in Offset : (MayHave(o)' <=> MayHave(o)) /\ (Has(o)' <=> Has(o))
    BY <1>1 DEF MayHave, Has, DoneOf, Bytes
  <2> QED BY <1>1, <2>1, <2>2, <2>3 DEF WorkerBytes
<1> QED BY <1>7, <1>8, <1>9, <1>10, <1>11 DEF ModifyInv

\* The worker goes on to the next span.
LEMMA NextSpanInv ==
  ASSUME ModifyInv, NextSpan
  PROVE  ModifyInv'
<1>1. /\ AtSpan /\ ~HasPiece(call, curSpan, chunk) /\ k' = k + 1 /\ chunk' = 0
      /\ UNCHANGED <<stage, call, touched, stopped, redraw, ui, worker, cancel, current>>
      /\ stage = "worker" /\ WorkerRuns /\ k <= Len(call.spans) /\ Operand(call) <= call.spans[k].ullSize
  BY DEF NextSpan, AtSpan, curSpan, progressVars
<1>2. /\ TypeOK /\ Meant /\ Threads /\ OnlyAsked /\ WorkerBytes /\ call \in Calls
      /\ k \in 1..Len(call.spans) + 1 /\ Len(call.spans) \in Nat
  BY CallFacts DEF ModifyInv, TypeOK
<1>3. ~stopped /\ worker # "ended"
  BY <1>1, <1>2 DEF Threads, WorkerRuns
<1>4. TypeOK'
  <2>1. k + 1 \in 1..Len(call.spans) + 1
    BY <1>1, <1>2
  <2> QED BY <1>1, <1>2, <2>1 DEF TypeOK, ProgressTypeOK
<1>5. Meant' /\ Threads'
  BY <1>1, <1>2, <1>3 DEF Meant, Threads
<1>6. OnlyAsked' /\ AllAsAsked' /\ TailBytes'
  BY <1>1, <1>2 DEF OnlyAsked, AllAsAsked, TailBytes
<1>7. WorkerBytes'
  <2>1. \A i \in 1..Len(call.spans) : i < k + 1 => Operand(call) <= call.spans[i].ullSize
    <3>1. \A i \in 1..Len(call.spans) : i < k + 1 => i < k \/ i = k
      BY <1>2
    <3> QED BY <1>1, <1>2, <3>1 DEF WorkerBytes
  <2>2. \A o \in Offset : (MayHave(o)' <=> MayHave(o)) /\ (Has(o)' <=> Has(o))
    BY <1>1, DoneAtNextSpan DEF MayHave
  <2> QED BY <1>1, <1>2, <1>3, <2>1, <2>2 DEF WorkerBytes
<1> QED BY <1>4, <1>5, <1>6, <1>7 DEF ModifyInv

\* The worker's end: its thread's, or inline the way to the tail.
LEMMA EndWorkerInv ==
  ASSUME ModifyInv, EndWorker
  PROVE  ModifyInv'
<1>1. /\ stage = "worker" /\ WorkerRuns /\ Through
      /\ UNCHANGED <<call, k, touched, stopped, redraw, ui, current>>
  BY DEF EndWorker, Through, WorkerEnds, progressVars, curSpan
<1>2. /\ TypeOK /\ Meant /\ Threads /\ OnlyAsked /\ WorkerBytes
  BY DEF ModifyInv
<1>3. CASE worker = "running"
  <2>1. worker' = "ended" /\ cancel' = TRUE /\ UNCHANGED <<stage, chunk>>
    BY <1>3 DEF EndWorker, WorkerEnds
  <2>2. TypeOK'
    BY <1>1, <1>2, <2>1 DEF TypeOK, ProgressTypeOK
  <2>3. Meant' /\ Threads'
    BY <1>1, <1>2, <1>3, <2>1 DEF Meant, Threads, Through
  <2>4. OnlyAsked' /\ AllAsAsked' /\ TailBytes'
    BY <1>1, <1>2, <2>1 DEF OnlyAsked, AllAsAsked, TailBytes
  <2>5. WorkerBytes'
    <3>1. \A o \in Offset : (MayHave(o)' <=> MayHave(o)) /\ (Has(o)' <=> Has(o))
      BY <1>1, <2>1 DEF MayHave, Has, DoneOf, Bytes
    <3> QED BY <1>1, <1>2, <2>1, <3>1 DEF WorkerBytes
  <2> QED BY <2>2, <2>3, <2>4, <2>5 DEF ModifyInv
<1>4. CASE worker # "running"
  <2>1. stage' = "tail" /\ chunk' = 0 /\ UNCHANGED <<worker, cancel>> /\ ui = "busy"
    BY <1>1, <1>4 DEF EndWorker, progressVars, WorkerRuns
  <2>2. TypeOK'
    BY <1>1, <1>2, <2>1 DEF TypeOK, ProgressTypeOK
  <2>3. Meant' /\ Threads'
    BY <1>1, <1>2, <1>4, <2>1 DEF Meant, Threads
  <2>4. OnlyAsked' /\ AllAsAsked' /\ WorkerBytes'
    BY <1>1, <1>2, <2>1 DEF OnlyAsked, AllAsAsked, WorkerBytes
  <2>5. TailBytes'
    BY <1>1, <2>1, ToTail
  <2> QED BY <2>2, <2>3, <2>4, <2>5 DEF ModifyInv
<1> QED BY <1>3, <1>4

\* The call goes on once the worker is joined, stopped or at its end.
LEMMA JoinWorkerInv ==
  ASSUME ModifyInv, JoinWorker
  PROVE  ModifyInv'
<1>1. /\ ui = "join" /\ worker = "ended" /\ ui' = "busy" /\ worker' = "none"
      /\ stage' = "tail" /\ chunk' = 0
      /\ UNCHANGED <<call, k, touched, stopped, redraw, cancel, current>>
  BY DEF JoinWorker, Join
<1>2. /\ TypeOK /\ Meant /\ Threads /\ OnlyAsked /\ WorkerBytes
  BY DEF ModifyInv
<1>3. TypeOK'
  BY <1>1, <1>2 DEF TypeOK, ProgressTypeOK
<1>4. Meant' /\ Threads'
  BY <1>1, <1>2 DEF Meant, Threads
<1>5. OnlyAsked' /\ AllAsAsked' /\ WorkerBytes'
  BY <1>1, <1>2 DEF OnlyAsked, AllAsAsked, WorkerBytes
<1>6. TailBytes'
  BY <1>1, <1>2, ToTail DEF Threads
<1> QED BY <1>3, <1>4, <1>5, <1>6 DEF ModifyInv

\* A piece of the tail.
LEMMA ModifyTailInv ==
  ASSUME ModifyInv, ModifyTail
  PROVE  ModifyInv'
<1> DEFINE p == TailPiece(call, chunk)
           D == TailDone(call, chunk)
           E == TailDone(call, chunk + 1)
           T == TailSize(call)
<1>1. /\ stage = "tail" /\ chunk < TailPieces(call) /\ chunk' = chunk + 1
      /\ touched' = Touch(call, p, p.ullSize)
      /\ UNCHANGED <<stage, call, k, stopped, redraw, ui, worker, cancel, current>>
  BY DEF ModifyTail, progressVars
<1>2. /\ TypeOK /\ Meant /\ Threads /\ OnlyAsked /\ TailBytes /\ call \in Calls /\ chunk \in Nat
      /\ chunk + 1 \in Nat /\ Apart(call)
  BY DEF ModifyInv, TypeOK, Meant
<1>3. /\ p.ullOffset = TailStart(call) + D /\ p.first = D /\ p.ullSize \in Nat \ {0}
      /\ D + p.ullSize = E /\ E <= T
      /\ D \in Nat /\ E \in Nat /\ T \in Nat /\ TailStart(call) \in Nat
  BY <1>1, <1>2, TailFacts, TailPlace
<1> HIDE DEF p, D, E, T
<1>4. \A o \in Offset : /\ o \in p.ullOffset..p.ullOffset + p.ullSize - 1 =>
                             /\ o \in TailRest(call, D) /\ o \in TailRest(call, 0)
                             /\ o \notin TailRest(call, E)
                             /\ p.first + (o - p.ullOffset) = o - TailStart(call)
                        /\ o \notin p.ullOffset..p.ullOffset + p.ullSize - 1 =>
                             (o \in TailRest(call, D) <=> o \in TailRest(call, E))
  <2> SUFFICES ASSUME NEW o \in Offset
               PROVE  /\ o \in p.ullOffset..p.ullOffset + p.ullSize - 1 =>
                             /\ o \in TailRest(call, D) /\ o \in TailRest(call, 0)
                             /\ o \notin TailRest(call, E)
                             /\ p.first + (o - p.ullOffset) = o - TailStart(call)
                      /\ o \notin p.ullOffset..p.ullOffset + p.ullSize - 1 =>
                             (o \in TailRest(call, D) <=> o \in TailRest(call, E))
    OBVIOUS
  <2>1. o \in Int
    BY DEF Offset
  <2> DEFINE S == TailStart(call)
  <2>2. /\ TailRest(call, D) = S + D..S + T - 1
        /\ TailRest(call, E) = S + E..S + T - 1
        /\ TailRest(call, 0) = S + 0..S + T - 1
    BY DEF TailRest, T
  <2>3. \A d \in Nat : o \in S + d..S + T - 1 <=> S + d <= o /\ o < S + T
    BY <1>3, <2>1
  <2>4. o \in p.ullOffset..p.ullOffset + p.ullSize - 1 <=> S + D <= o /\ o < S + E
    BY <1>3, <2>1
  <2>5. /\ o \in TailRest(call, D) <=> S + D <= o /\ o < S + T
        /\ o \in TailRest(call, E) <=> S + E <= o /\ o < S + T
        /\ o \in TailRest(call, 0) <=> S + 0 <= o /\ o < S + T
    BY <1>3, <2>2, <2>3
  <2>6. p.first + (o - p.ullOffset) = o - S
    BY <1>3, <2>1
  <2> HIDE DEF S
  <2> QED BY <1>3, <2>1, <2>4, <2>5, <2>6 DEF S
<1>5. \A o \in Offset : IF o \in TailRest(call, D) THEN touched[o] = Untouched
                        ELSE ~stopped => touched[o] = Asked(call, o)
  BY <1>1, <1>2 DEF TailBytes, D
<1>6. /\ touched' \in [Offset -> {Untouched, Twice} \cup (0..call.fill - 1)]
      /\ \A o \in Offset :
           touched'[o] = IF o \in p.ullOffset..p.ullOffset + p.ullSize - 1 THEN Asked(call, o)
                         ELSE touched[o]
      /\ OnlyAsked'
  <2>1. \A o \in Offset : o \in p.ullOffset..p.ullOffset + p.ullSize - 1 =>
          touched[o] = Untouched /\ Asked(call, o) = (p.first + (o - p.ullOffset)) % call.fill
    BY <1>2, <1>4, <1>5, AskedInTail
  <2>2. p.ullOffset \in Int /\ p.first \in Nat /\ p.ullSize \in Nat
    BY <1>3
  <2> QED BY <1>1, <1>2, <2>1, <2>2, TouchFacts
<1>7. TypeOK'
  BY <1>1, <1>2, <1>6 DEF TypeOK, ProgressTypeOK
<1>8. Meant' /\ Threads'
  BY <1>1, <1>2 DEF Meant, Threads
<1>9. AllAsAsked' /\ WorkerBytes'
  BY <1>1 DEF AllAsAsked, WorkerBytes
<1>10. TailBytes'
  <2>1. TailBytes' <=> \A o \in Offset : IF o \in TailRest(call, E) THEN touched'[o] = Untouched
                                         ELSE ~stopped => touched'[o] = Asked(call, o)
    BY <1>1 DEF TailBytes, TailRest, E
  <2> QED BY <1>4, <1>5, <1>6, <2>1
<1> QED BY <1>6, <1>7, <1>8, <1>9, <1>10 DEF ModifyInv

\* The call's end.
LEMMA EndModifyInv ==
  ASSUME ModifyInv, EndModify
  PROVE  ModifyInv'
<1>1. /\ stage = "tail" /\ chunk >= TailPieces(call) /\ stage' = "done" /\ redraw' = TRUE
      /\ ui' = "free"
      /\ UNCHANGED <<call, k, chunk, touched, stopped, worker, cancel, current>>
  BY DEF EndModify
<1>2. /\ TypeOK /\ Meant /\ Threads /\ OnlyAsked /\ TailBytes /\ call \in Calls /\ chunk \in Nat
  BY DEF ModifyInv, TypeOK
<1>3. TypeOK'
  BY <1>1, <1>2 DEF TypeOK, ProgressTypeOK
<1>4. Meant' /\ Threads'
  BY <1>1, <1>2 DEF Meant, Threads
<1>5. OnlyAsked' /\ WorkerBytes' /\ TailBytes'
  BY <1>1, <1>2 DEF OnlyAsked, WorkerBytes, TailBytes
<1>6. AllAsAsked'
  <2>1. TailDone(call, chunk) = TailSize(call) /\ TailSize(call) \in Nat /\ TailStart(call) \in Nat
    BY <1>1, <1>2, TailFacts, TailPlace
  <2>2. \A o : o \notin TailRest(call, TailDone(call, chunk))
    BY <2>1 DEF TailRest
  <2> QED BY <1>1, <1>2, <2>2 DEF AllAsAsked, TailBytes
<1> QED BY <1>3, <1>4, <1>5, <1>6 DEF ModifyInv

\* What the dialog does, and what changes nothing.
LEMMA DialogInv ==
  ASSUME ModifyInv, CancelDialog \/ CloseDialog \/ UNCHANGED modifyVars
  PROVE  ModifyInv'
<1>1. /\ UNCHANGED <<stage, call, k, chunk, touched, stopped, redraw, worker, current>>
      /\ cancel \in BOOLEAN => cancel' \in BOOLEAN
      /\ ui' = ui \/ (ui = "modal" /\ ui' = "join")
  <2>1. CASE CancelDialog
    BY <2>1 DEF CancelDialog, OnCancel, modifyElse
  <2>2. CASE CloseDialog
    BY <2>2 DEF CloseDialog, OnTimer, modifyElse
  <2>3. CASE UNCHANGED modifyVars
    BY <2>3 DEF modifyVars, progressVars
  <2> QED BY <2>1, <2>2, <2>3
<1>2. /\ TypeOK /\ Meant /\ Threads /\ OnlyAsked /\ WorkerBytes /\ TailBytes /\ AllAsAsked
  BY DEF ModifyInv
<1>3. TypeOK'
  BY <1>1, <1>2 DEF TypeOK, ProgressTypeOK
<1>4. Meant' /\ Threads'
  BY <1>1, <1>2 DEF Meant, Threads, Through
<1>5. OnlyAsked' /\ AllAsAsked' /\ TailBytes'
  BY <1>1, <1>2 DEF OnlyAsked, AllAsAsked, TailBytes
<1>6. WorkerBytes'
  <2>1. \A o \in Offset : (MayHave(o)' <=> MayHave(o)) /\ (Has(o)' <=> Has(o))
    BY <1>1 DEF MayHave, Has, DoneOf, Bytes
  <2> QED BY <1>1, <1>2, <2>1 DEF WorkerBytes
<1> QED BY <1>3, <1>4, <1>5, <1>6 DEF ModifyInv

-----------------------------------------------------------------------------
(* The theorems                                                            *)

\* It holds at the start, where no call has been made.
LEMMA InitInv ==
  ASSUME Meant, Init
  PROVE  ModifyInv
<1>1. call \in Calls /\ Len(call.spans) \in Nat /\ call.fill \in Nat
  BY CallFacts DEF Init
<1>2. TypeOK
  <2>1. 1 \in 1..Len(call.spans) + 1
    BY <1>1
  <2> QED BY <1>1, <2>1 DEF Init, ProgressInit, TypeOK, ProgressTypeOK
<1>3. Threads /\ OnlyAsked /\ WorkerBytes /\ TailBytes /\ AllAsAsked
  BY DEF Init, ProgressInit, Threads, OnlyAsked, WorkerBytes, TailBytes, AllAsAsked
<1> QED BY <1>2, <1>3 DEF ModifyInv

\* Each step preserves it.
LEMMA StepInv == ModifyInv /\ [Next]_modifyVars => ModifyInv'
<1> SUFFICES ASSUME ModifyInv, [Next]_modifyVars PROVE ModifyInv'
  OBVIOUS
<1>1. ASSUME NEW c \in Calls, ModifyData(c) PROVE ModifyInv'
  BY <1>1, ModifyDataInv
<1>2. CASE ModifyChunk
  BY <1>2, ModifyChunkInv
<1>3. ASSUME NEW n \in 1..Times(call, curPiece), CancelChunk(n) PROVE ModifyInv'
  BY <1>3, CancelChunkInv
<1>4. CASE NextSpan
  BY <1>4, NextSpanInv
<1>5. CASE EndWorker
  BY <1>5, EndWorkerInv
<1>6. CASE JoinWorker
  BY <1>6, JoinWorkerInv
<1>7. CASE ModifyTail
  BY <1>7, ModifyTailInv
<1>8. CASE EndModify
  BY <1>8, EndModifyInv
<1>9. CASE CancelDialog \/ CloseDialog \/ UNCHANGED modifyVars
  BY <1>9, DialogInv
<1> QED BY <1>1, <1>2, <1>3, <1>4, <1>5, <1>6, <1>7, <1>8, <1>9 DEF Next, ModifyStep

\* Every piece that GetData is asked for lies in the data and in the cache.
LEMMA InvPieces == ModifyInv => PiecesAllowed
<1> SUFFICES ASSUME ModifyInv PROVE PiecesAllowed
  OBVIOUS
<1>1. call \in Calls /\ chunk \in Nat /\ DataSize \in Nat
  BY ModifyAssumption DEF ModifyInv, TypeOK
<1>2. ASSUME AtSpan, HasPiece(call, curSpan, chunk)
      PROVE  PieceAllowed(curPiece)
  <2>1. k \in 1..Len(call.spans) /\ GoodPiece(call, curSpan, chunk, curPiece)
        /\ curPiece.ullOffset = curSpan.ullOffset + DoneOf(k) /\ DoneOf(k) \in Nat
    BY <1>2, AtPiece
  <2>2. InData(curSpan)
    BY <1>1, <2>1, SpanFacts DEF curSpan
  <2>3. /\ curPiece.ullSize \in Nat \ {0}
        /\ curPiece.ullOffset + curPiece.ullSize <= curSpan.ullOffset + curSpan.ullSize
        /\ call.virtual => curPiece.ullSize <= CacheSize
    BY <2>1 DEF GoodPiece
  <2> HIDE DEF curSpan, curPiece
  <2> QED BY <1>1, <2>1, <2>2, <2>3 DEF InData, Spans, PieceAllowed
<1>3. ASSUME stage = "tail", chunk < TailPieces(call)
      PROVE  PieceAllowed(TailPiece(call, chunk))
  <2> DEFINE p == TailPiece(call, chunk)
  <2>1. /\ p.ullOffset = TailStart(call) + TailDone(call, chunk) /\ p.ullSize \in Nat \ {0}
        /\ TailDone(call, chunk) + p.ullSize <= TailSize(call)
        /\ call.virtual => p.ullSize <= CacheSize
        /\ TailDone(call, chunk) \in Nat
    BY <1>1, <1>3, TailFacts
  <2>2. /\ TailStart(call) + TailSize(call) <= Last(call.spans).ullOffset + Last(call.spans).ullSize
        /\ TailStart(call) \in Nat /\ TailSize(call) \in Nat
    BY <1>1, TailPlace DEF Size
  <2>3. /\ Last(call.spans).ullOffset + Last(call.spans).ullSize <= DataSize
        /\ Last(call.spans).ullOffset \in Nat /\ Last(call.spans).ullSize \in Nat
    BY <1>1, LastFacts
  <2> HIDE DEF p
  <2>4. p.ullOffset + p.ullSize <= DataSize
    BY <1>1, <2>1, <2>2, <2>3
  <2> QED BY <2>1, <2>4 DEF PieceAllowed, p
<1> QED BY <1>2, <1>3 DEF PiecesAllowed

\* The invariant of ModifyData and its worker, for every data size, cache, size
\* of the fast operands and set of calls that are meant.
THEOREM ModifyInvariant == Meant /\ Spec => []ModifyInv
<1>1. Meant /\ Init => ModifyInv
  BY InitInv
<1> QED BY <1>1, StepInv, PTL DEF Spec

\* However a call is cut into fast operands, their remainder, pieces of the cache and
\* a Cancel, no byte is modified twice, wrongly or outside the spans
\* (ModifyData, ModifyWorker).
THEOREM ModifiesOnlyAsAsked == Meant /\ Spec => []OnlyAsAsked
<1>1. ModifyInv => OnlyAsAsked
  BY DEF ModifyInv, OnlyAsked, OnlyAsAsked
<1> QED BY <1>1, ModifyInvariant, PTL

\* A call that was not cancelled has modified all that it was asked to, and turned
\* drawing on again.
THEOREM ModifiesAllAsAsked == Meant /\ Spec => []AllAsAsked
<1>1. ModifyInv => AllAsAsked
  BY DEF ModifyInv
<1> QED BY <1>1, ModifyInvariant, PTL

\* ModifyData and its worker keep to what GetData asserts of every request.
THEOREM AsksForPiecesInData == Meant /\ Spec => []PiecesAllowed
BY InvPieces, ModifyInvariant, PTL

\* The pieces a call is cut into are of the bytes asked for, each byte once, and
\* each of them is one that GetData allows.
THEOREM PiecesStayAsAsked == Meant /\ Spec => []PiecesAsAsked
BY ModifiesOnlyAsAsked, AsksForPiecesInData, PTL DEF PiecesAsAsked

=============================================================================
