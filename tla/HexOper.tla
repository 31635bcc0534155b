------------------------------ MODULE HexOper -------------------------------
(***************************************************************************)
(* What a MODIFY_OPERATION makes of the bytes: element by element          *)
(* (ModifyOper), and a vector of 128 or 256 bits at a time                 *)
(* (ModifyOperVec128, ModifyOperVec256), where some operations are         *)
(* instructions on whole vectors and others are written out for each       *)
(* element.  An element is the sequence of its bytes in memory, least      *)
(* significant first; a byte has ByteBits bits.  Floating-point numbers    *)
(* have a sign, a magnitude, two zeros, infinities and values that are no  *)
(* numbers; they are as far apart from one another as whole numbers are.   *)
(***************************************************************************)
EXTENDS Integers, Sequences, SequencesExt, FiniteSetsExt, Bitwise

CONSTANTS
  ByteBits,  \* 8: the bits of a byte
  LaneBytes  \* 16: the bytes of a 128-bit lane

ASSUME OperAssumption ==
  /\ ByteBits \in Nat \ {0}
  /\ LaneBytes \in {8, 16}

Opers == {"assign", "add", "sub", "mul", "div", "min", "max", "or", "xor", "and",
          "not", "shl", "shr", "rotl", "rotr", "swap", "bitrev"}

IntTypes == {"int8", "uint8", "int16", "uint16", "int32", "uint32", "int64", "uint64"}
SizeOf(type) ==
  CASE type \in {"int8", "uint8"} -> 1 [] type \in {"int16", "uint16"} -> 2
    [] type \in {"int32", "uint32", "float"} -> 4 [] OTHER -> 8
Floats == {"float", "double"}
IsSigned(type) == type \in {"int8", "int16", "int32", "int64"}
BitsOf(type) == SizeOf(type) * ByteBits

\* The number of a pattern of a type's bits, and the number the bytes are.
ToSigned(type, p) ==
  IF IsSigned(type) /\ p >= 2^(BitsOf(type) - 1) THEN p - 2^BitsOf(type) ELSE p
Pattern(bytes) == FoldRight(LAMBDA byte, p : byte + (2^ByteBits * p), bytes, 0)
ToNumber(type, bytes) == ToSigned(type, Pattern(bytes))
ToPattern(type, n) == n % 2^BitsOf(type)
ToBytes(type, n) ==
  [i \in 1..SizeOf(type) |-> (ToPattern(type, n) \div 2^(ByteBits * (i - 1))) % 2^ByteBits]

\* Floating-point numbers: those of larger magnitude than Infinity are NaNs.
SignBit(type) == 2^(BitsOf(type) - 1)
Infinity(type) == 7 * 2^(BitsOf(type) - 4)
Magnitude(type, p) == p % SignBit(type)
IsNaN(type, p) == Magnitude(type, p) > Infinity(type)
FloatOf(type, p) == IF p >= SignBit(type) THEN -Magnitude(type, p) ELSE p
FloatPattern(type, n) ==
  IF n < -Infinity(type) THEN SignBit(type) + Infinity(type) ELSE IF n > Infinity(type) THEN Infinity(type)
  ELSE IF n < 0 THEN SignBit(type) - n ELSE n
IsLess(type, p, q) ==
  ~IsNaN(type, p) /\ ~IsNaN(type, q) /\ FloatOf(type, p) < FloatOf(type, q)

-----------------------------------------------------------------------------
(* One element                                                             *)

ByteSwap(elem) == Reverse(elem)

\* The lowest bit of the data goes below those already reversed.
BitReverse(bits, p) ==
  FoldLeft(LAMBDA r, i : (2 * r) + ((p \div 2^i) % 2), 0, [i \in 1..bits |-> i - 1])

Rotl(bits, p, n) == LET k == n % bits IN ((p * 2^k) % 2^bits) + (p \div 2^(bits - k))
Rotr(bits, p, n) == Rotl(bits, p, -n)

Quotient(d, o) == IF d < 0 THEN -((-d) \div o) ELSE d \div o  \* towards zero
Larger(d, o) == IF d < o THEN o ELSE d
Smaller(d, o) == IF o < d THEN o ELSE d

\* C++'s operators on numbers of a type; narrow types are promoted to int.
Operated(type, oper, d, o) ==
  CASE oper = "add" -> d + o
    [] oper = "sub" -> d - o
    [] oper = "mul" -> d * o
    [] oper = "div" -> Quotient(d, o)
    [] oper = "min" -> Larger(d, o)
    [] oper = "max" -> Smaller(d, o)
    [] oper = "or"  -> ToPattern(type, d) | ToPattern(type, o)
    [] oper = "xor" -> ToPattern(type, d) ^^ ToPattern(type, o)
    [] oper = "and" -> ToPattern(type, d) & ToPattern(type, o)
    [] oper = "not" -> -1 - d
    [] oper = "shl" -> d * 2^o
    [] oper = "shr" -> d \div 2^o
    [] oper = "rotl" -> Rotl(BitsOf(type), ToPattern(type, d), o)
    [] oper = "rotr" -> Rotr(BitsOf(type), ToPattern(type, d), o)
    [] oper = "bitrev" -> BitReverse(BitsOf(type), ToPattern(type, d))
    [] OTHER -> d

\* The processor's arithmetic on the patterns of floating-point numbers, the same
\* for one and for vectors: a NaN of the two is the result.
FloatArithmetic(type, oper, p, o) ==
  IF IsNaN(type, p) THEN p ELSE IF IsNaN(type, o) THEN o
  ELSE FloatPattern(type, Operated(type, oper, FloatOf(type, p), FloatOf(type, o)))

\* std::max and std::min keep the data unless it is the lesser, the greater.
FloatOperated(type, oper, p, o) ==
  CASE oper \in {"add", "sub", "mul", "div"} -> FloatArithmetic(type, oper, p, o)
    [] oper = "min" -> IF IsLess(type, p, o) THEN o ELSE p
    [] oper = "max" -> IF IsLess(type, o, p) THEN o ELSE p
    [] OTHER -> p

\* An operator on patterns of any of the types.
OperatedPattern(type, oper, p, o) ==
  IF type \in Floats THEN FloatOperated(type, oper, p, o)
  ELSE Operated(type, oper, ToSigned(type, p), ToSigned(type, o))

\* lmbOperT: in the byte order asked for, and back.
ModifyOper(hms, elem) ==
  LET Order(bytes) == IF hms.bigEndian THEN ByteSwap(bytes) ELSE bytes
      data == Order(elem)
  IN Order(IF hms.oper = "swap" THEN ByteSwap(data)
           ELSE ToBytes(hms.type, OperatedPattern(hms.type, hms.oper, Pattern(data),
                                                  Pattern(hms.operand))))

\* A shift by less than none, or by all the bits there are, has no meaning in C++,
\* and a division asserts that its operand is positive.
Meaningful(hms) ==
  \E o \in {IF hms.type \in Floats THEN FloatOf(hms.type, Pattern(hms.operand))
            ELSE ToNumber(hms.type, hms.operand)} :
    /\ hms.oper \in {"shl", "shr"} =>
         o \in 0..(IF SizeOf(hms.type) = 8 THEN BitsOf(hms.type) ELSE 4 * ByteBits) - 1
    /\ hms.oper = "div" => o > 0

-----------------------------------------------------------------------------
(* Vectors: sequences of bytes                                             *)

\* Elements and vectors; the number after the last of a byte stands for a random one.
Pieces == Seq(0..2^ByteBits)

\* The i-th element, and a vector of what a function makes of each.
Element(size, v, i) == SubSeq(v, ((i - 1) * size) + 1, i * size)
Each(size, v, result) ==
  FlattenSeq([i \in 1..Len(v) \div size |-> result[Element(size, v, i)]])

\* _mm_shuffle_epi8, in a 256-bit vector within each lane.
Shuffle(v, mask) ==
  [i \in DOMAIN v |->
     v[(((i - 1) \div LaneBytes) * LaneBytes) + (mask[i] % LaneBytes) + 1]]

\* The masks name the bytes of each element backwards.
ByteSwapVec(size, v) ==
  Shuffle(v, [i \in DOMAIN v |->
                ((((i - 1) \div size) + 1) * size) - 1 - ((i - 1) % size)])

\* Each element by C++'s operators, as _mm_setr_* are given them.
SetR(type, oper, v, operand) ==
  Each(SizeOf(type), v,
       [elem \in Pieces |-> ToBytes(type, Operated(type, oper, ToNumber(type, elem),
                                                   ToNumber(type, operand)))])

\* Shift counts are taken without a sign, and one too wide shifts out everything.
ShiftLeft(bits, p, count) ==
  IF count \in 0..bits - 1 THEN (p * 2^count) % 2^bits ELSE 0

\* Mutant: shifts to the right do not keep the sign.
ShiftRightLogical(type, p, count) ==
  p \div 2^(IF count \in 0..BitsOf(type) - 1 THEN count ELSE BitsOf(type))

ShiftRight(type, p, count) ==
  ToSigned(type, p) \div 2^(IF count \in 0..BitsOf(type) - 1 THEN count ELSE BitsOf(type))

\* Instructions on patterns: signed and unsigned differ in comparisons and in
\* shifts to the right only.
Instruction(type, oper, p, o) ==
  CASE oper = "add" -> p + o
    [] oper = "sub" -> p - o
    [] oper = "mul" -> p * o
    [] oper = "min" -> Larger(ToSigned(type, p), ToSigned(type, o))
    [] oper = "max" -> Smaller(ToSigned(type, p), ToSigned(type, o))
    [] oper = "or"  -> p | o
    [] oper = "xor" -> p ^^ o
    [] oper = "and" -> p & o
    [] oper = "not" -> p ^^ (2^BitsOf(type) - 1)
    [] oper = "shl" -> ShiftLeft(BitsOf(type), p, ToSigned(type, o))
    [] oper = "shr" -> ShiftRight(type, p, ToSigned(type, o))

Epi(type, oper, v, operand) ==
  Each(SizeOf(type), v,
       [elem \in Pieces |->
          ToBytes(type, Instruction(type, oper, Pattern(elem), Pattern(operand)))])

\* Products of bytes, for which there is no instruction: those of the even and of
\* the odd bytes by instructions for elements of two.
MulEvenOdd(v, operand) ==
  LET base == 2^ByteBits
      Product(d, o) ==
        LET even == (d * o) % base^2
            odd  == ((d \div base) * (o \div base)) % base^2
        IN ((odd * base) % base^2) + (((even * base) % base^2) \div base)
  IN Each(2, v, [elem \in Pieces |->
                   ToBytes("uint16", Product(Pattern(elem), operand[1] * (1 + base)))])

Zeros(v) == [i \in DOMAIN v |-> 0]

ByCpp == {"div", "rotl", "rotr", "bitrev"}   \* for which there is no instruction

\* A lambda for elements of one byte: they are not swapped, and OPER_SWAP leaves the
\* result as it was initialised.
OfBytes(type, hms, v, byCpp) ==
  CASE hms.oper \in byCpp -> SetR(type, hms.oper, v, hms.operand)
    [] hms.oper = "swap"  -> Zeros(v)
    [] hms.oper = "mul"   -> MulEvenOdd(v, hms.operand)
    [] OTHER              -> Epi(type, hms.oper, v, hms.operand)

\* A lambda for larger elements: in the byte order asked for, and back.
OfElements(type, hms, v, byCpp) ==
  LET size == SizeOf(type)
      Order(w) == IF hms.bigEndian THEN ByteSwapVec(size, w) ELSE w
  IN Order(CASE hms.oper \in byCpp -> SetR(type, hms.oper, Order(v), hms.operand)
             [] hms.oper = "swap"  -> ByteSwapVec(size, Order(v))
             [] OTHER              -> Epi(type, hms.oper, Order(v), hms.operand))

\* The instructions for the greater and the lesser keep the data only if it is,
\* and take the operand of two that have no order.
FloatInstruction(type, oper, p, o) ==
  CASE oper = "min" -> IF IsLess(type, o, p) THEN p ELSE o
    [] oper = "max" -> IF IsLess(type, p, o) THEN p ELSE o
    [] OTHER -> FloatArithmetic(type, oper, p, o)

\* A lambda for floating-point elements; bitwise operations leave the data.
OfFloats(type, hms, v) ==
  LET size == SizeOf(type)
      Order(w) == IF hms.bigEndian THEN ByteSwapVec(size, w) ELSE w
  IN CASE hms.oper = "swap" -> Order(ByteSwapVec(size, Order(v)))
       [] hms.oper \in {"add", "sub", "mul", "div", "min", "max"} ->
            Order(Each(size, Order(v),
                       [elem \in Pieces |->
                          ToBytes(type, FloatInstruction(type, hms.oper, Pattern(elem),
                                                         Pattern(hms.operand)))]))
       [] OTHER -> v

\* The lambdas of each vector function: which of the operations are written with
\* C++'s operators.
Vec128Int8(hms, v)   == OfBytes("int8", hms, v, ByCpp \cup {"shl", "shr"})
Vec128UInt8(hms, v)  == OfBytes("uint8", hms, v, ByCpp \cup {"mul", "shl", "shr"})
Vec128Int16(hms, v)  == OfElements("int16", hms, v, ByCpp)
Vec128UInt16(hms, v) == OfElements("uint16", hms, v, ByCpp \cup {"mul"})
Vec128Int32(hms, v)  == OfElements("int32", hms, v, ByCpp)
Vec128UInt32(hms, v) == OfElements("uint32", hms, v, ByCpp \cup {"mul"})
Vec128Int64(hms, v)  == OfElements("int64", hms, v, ByCpp \cup {"mul", "min", "max", "shr"})
Vec128UInt64(hms, v) == OfElements("uint64", hms, v, ByCpp \cup {"mul", "min", "max"})
Vec128Float(hms, v)  == OfFloats("float", hms, v)
Vec128Double(hms, v) == OfFloats("double", hms, v)

ModifyOperVec128(hms, v) ==
  CASE hms.type = "int8"  -> Vec128Int8(hms, v)  [] hms.type = "uint8"  -> Vec128UInt8(hms, v)
    [] hms.type = "int16" -> Vec128Int16(hms, v) [] hms.type = "uint16" -> Vec128UInt16(hms, v)
    [] hms.type = "int32" -> Vec128Int32(hms, v) [] hms.type = "uint32" -> Vec128UInt32(hms, v)
    [] hms.type = "int64" -> Vec128Int64(hms, v) [] hms.type = "uint64" -> Vec128UInt64(hms, v)
    [] hms.type = "float" -> Vec128Float(hms, v) [] hms.type = "double" -> Vec128Double(hms, v)

Vec256Int8(hms, v)   == OfBytes("int8", hms, v, ByCpp \cup {"shl", "shr"})
Vec256UInt8(hms, v)  == OfBytes("uint8", hms, v, ByCpp \cup {"mul", "shl", "shr"})
Vec256Int16(hms, v)  == OfElements("int16", hms, v, ByCpp)
Vec256UInt16(hms, v) == OfElements("uint16", hms, v, ByCpp \cup {"mul"})
Vec256Int32(hms, v)  == OfElements("int32", hms, v, ByCpp)
Vec256UInt32(hms, v) == OfElements("uint32", hms, v, ByCpp \cup {"mul"})
Vec256Int64(hms, v)  == OfElements("int64", hms, v, ByCpp \cup {"mul", "min", "max", "shr"})
Vec256UInt64(hms, v) == OfElements("uint64", hms, v, ByCpp \cup {"mul", "min", "max"})
Vec256Float(hms, v)  == OfFloats("float", hms, v)
Vec256Double(hms, v) == OfFloats("double", hms, v)

ModifyOperVec256(hms, v) ==
  CASE hms.type = "int8"  -> Vec256Int8(hms, v)  [] hms.type = "uint8"  -> Vec256UInt8(hms, v)
    [] hms.type = "int16" -> Vec256Int16(hms, v) [] hms.type = "uint16" -> Vec256UInt16(hms, v)
    [] hms.type = "int32" -> Vec256Int32(hms, v) [] hms.type = "uint32" -> Vec256UInt32(hms, v)
    [] hms.type = "int64" -> Vec256Int64(hms, v) [] hms.type = "uint64" -> Vec256UInt64(hms, v)
    [] hms.type = "float" -> Vec256Float(hms, v) [] hms.type = "double" -> Vec256Double(hms, v)

-----------------------------------------------------------------------------
(* The data.  A span is <<offset, size>>.                                  *)

\* ModifyWorker: the function on each whole piece of the span, the rest as it was.
Worked(data, span, size, result) ==
  LET whole == (span[2] \div size) * size
  IN SubSeq(data, 1, span[1])
       \o Each(size, SubSeq(data, span[1] + 1, span[1] + whole), result)
       \o SubSeq(data, span[1] + whole + 1, Len(data))

\* It ends at the first span that is shorter than a piece.
WorkedSpans(data, spans, size, result) ==
  LET short == SelectInSeq(spans, LAMBDA span : span[2] < size)
  IN FoldLeft(LAMBDA d, span : Worked(d, span, size, result), data,
              IF short = 0 THEN spans ELSE SubSeq(spans, 1, short - 1))

\* The vectors of a single span, and its remainder by elements, if it holds one.
Vectors(data, span, hms, size, result) ==
  LET done == Worked(data, span, size, result)
      rem  == span[2] % size
      at   == span[1] + span[2] - rem
  IN IF rem >= Len(hms.operand)
     THEN Worked(done, <<at, rem>>, Len(hms.operand),
                 [elem \in Pieces |-> ModifyOper(hms, elem)])
     ELSE done

\* ModifyData: an assignment is a MODIFY_REPEAT of the operand.
Operation(data, hms, hasAVX2) ==
  LET size == Len(hms.operand)
      span == Head(hms.spans)
  IN IF hms.oper = "assign"
     THEN WorkedSpans(data, hms.spans, size, [elem \in Pieces |-> hms.operand])
     ELSE IF Len(hms.spans) = 1 /\ span[2] >= (IF hasAVX2 THEN 2 ELSE 1) * LaneBytes
     THEN IF hasAVX2
          THEN Vectors(data, span, hms, 2 * LaneBytes, [v \in Pieces |-> ModifyOperVec256(hms, v)])
          ELSE Vectors(data, span, hms, LaneBytes, [v \in Pieces |-> ModifyOperVec128(hms, v)])
     ELSE WorkedSpans(data, hms.spans, size, [elem \in Pieces |-> ModifyOper(hms, elem)])

=============================================================================
