------------------------------ MODULE Arithmetic ------------------------------
(***************************************************************************)
(* What the arithmetic commands of the VM compute.  An operator is given   *)
(* the name of the command and its operands, the one on top of the stack   *)
(* first, and is the set of its possible results: empty where the command  *)
(* fails, all values of the type where C++ leaves the result undefined.    *)
(*                                                                         *)
(* A signed integer that leaves its range is undefined: any integer may    *)
(* come of it.  Bytes are computed as integers and cut to their width.  Of *)
(* a float only the sign is kept.                                          *)
(***************************************************************************)
EXTENDS Integers

CONSTANTS
    IntBits,      \* width of int64_t
    ByteBits,     \* width of uint8_t and char
    PromotedBits  \* width of int, to which C++ promotes a byte operand

ASSUME WidthAssumption ==
    /\ IntBits \in Nat /\ PromotedBits \in Nat /\ ByteBits \in Nat \ {0}
    /\ IntBits > ByteBits /\ PromotedBits > ByteBits

MinInt == -(2^(IntBits - 1))
MaxInt == 2^(IntBits - 1) - 1
Ints == MinInt..MaxInt
Bytes == 0..(2^ByteBits - 1)

Signed(n, bits) == ((n + 2^(bits - 1)) % 2^bits) - 2^(bits - 1)
Chars == {Signed(b, ByteBits) : b \in Bytes}
WrapInt(n) == Signed(n, IntBits)
WrapByte(n) == n % 2^ByteBits

NaN == 2
Signs == {-1, 0, 1}
Floats == Signs \cup {NaN}

AbsOf(n) == IF n < 0 THEN -n ELSE n
SignOf(n) == IF n < 0 THEN -1 ELSE IF n > 0 THEN 1 ELSE 0
-----------------------------------------------------------------------------
(* Division rounds towards zero; the remainder has the dividend's sign.    *)
Quotient_Floor(a, b) == IF b > 0 THEN a \div b ELSE (-a) \div (-b)
Quotient(a, b) == SignOf(a) * SignOf(b) * (AbsOf(a) \div AbsOf(b))
Remainder(a, b) == a - b * Quotient(a, b)

(* The processor refuses the one quotient that has no representation.      *)
DivisionTraps(a, b) == a = MinInt /\ b = -1

(* The sum, the product or another number that int64_t may not hold.       *)
Computed(n) == IF n \in Ints THEN {n} ELSE Ints

IntArithmetic(op, a, b) ==
    CASE op = "IntAdd" -> Computed(a + b)
      [] op = "IntSubtract" -> Computed(a - b)
      [] op = "IntMultiply" -> Computed(a * b)
      [] op = "IntDivide" -> IF b = 0 THEN {} ELSE Computed(Quotient(a, b))
      [] op = "IntModulo" -> IF b = 0 THEN {} ELSE {Remainder(a, b)}

IntUnary(op, a) ==
    CASE op = "IntNegate" -> Computed(-a)
      [] op = "IntIncrement" -> Computed(a + 1)
      [] op = "IntDecrement" -> Computed(a - 1)
      [] op = "IntNot" -> {-a - 1}

ByteArithmetic_Wide(op, a, b) ==
    CASE op = "ByteAdd" -> {a + b}
      [] op = "ByteSubtract" -> {WrapByte(a - b)}
      [] op = "ByteMultiply" -> {WrapByte(a * b)}
      [] op = "ByteDivide" -> IF b = 0 THEN {} ELSE {a \div b}
      [] op = "ByteModulo" -> IF b = 0 THEN {} ELSE {a % b}

ByteArithmetic(op, a, b) ==
    CASE op = "ByteAdd" -> {WrapByte(a + b)}
      [] op = "ByteSubtract" -> {WrapByte(a - b)}
      [] op = "ByteMultiply" -> {WrapByte(a * b)}
      [] op = "ByteDivide" -> IF b = 0 THEN {} ELSE {a \div b}
      [] op = "ByteModulo" -> IF b = 0 THEN {} ELSE {a % b}

ByteUnary(op, a) ==
    CASE op = "ByteNegate" -> {WrapByte(-a)}
      [] op = "ByteIncrement" -> {WrapByte(a + 1)}
      [] op = "ByteDecrement" -> {WrapByte(a - 1)}
      [] op = "ByteNot" -> {WrapByte(-a - 1)}
-----------------------------------------------------------------------------
(* Signs of sums, products and quotients of floats, infinities included.   *)
FloatArithmetic(op, a, b) ==
    LET Sum(x, y) == CASE x = 0 -> {y}
                       [] y = 0 \/ x = y -> {x}
                       [] OTHER -> Floats
    IN CASE op = "FloatDivide" /\ b = 0 -> {}
         [] NaN \in {a, b} /\ ~(op = "FloatDivide" /\ b = 0) -> {NaN}
         [] NaN \notin {a, b} /\ op = "FloatAdd" -> Sum(a, b)
         [] NaN \notin {a, b} /\ op = "FloatSubtract" -> Sum(a, -b)
         [] NaN \notin {a, b} /\ op = "FloatMultiply" ->
                {0, a * b} \cup (IF a * b = 0 THEN {NaN} ELSE {})
         [] NaN \notin {a, b} /\ op = "FloatDivide" /\ b # 0 ->
                {0, a * b} \cup (IF a = 0 THEN {} ELSE {NaN})

FloatUnary(op, a) ==
    CASE a = NaN -> {NaN}
      [] a # NaN /\ op = "FloatNegate" -> {-a}
      [] a # NaN /\ op = "FloatSqrt" -> IF a < 0 THEN {} ELSE {a}
-----------------------------------------------------------------------------
(* Integers and bytes are compared exactly, floats of one sign either way. *)
Compares(relation, a, b) ==
    CASE relation = "Equal" -> a = b
      [] relation = "NotEqual" -> a # b
      [] relation = "LessThan" -> a < b
      [] relation = "LessEqual" -> a <= b
      [] relation = "GreaterThan" -> a > b
      [] relation = "GreaterEqual" -> a >= b

FloatCompares(relation, a, b) ==
    IF NaN \in {a, b} THEN {relation = "NotEqual"}
    ELSE IF a = b /\ a # 0 THEN BOOLEAN
    ELSE {Compares(relation, a, b)}

BoolBinary(op, a, b) ==
    CASE op = "BoolAnd" -> {a /\ b} [] op = "BoolOr" -> {a \/ b} [] op = "BoolXor" -> {a # b}
-----------------------------------------------------------------------------
(* A word is the set of the places of its bits.                            *)
BitsOf(n, bits) == {i \in 0..(bits - 1) : ((n % 2^bits) \div 2^i) % 2 = 1}
Word(places, bits) == CHOOSE n \in 0..(2^bits - 1) : BitsOf(n, bits) = places

(* The provers know nothing of powers: proofs take this from here.         *)
ASSUME PowersOfTwo ==
    2^0 = 1 /\ \A n \in 0..(IntBits + PromotedBits) : 2^(n + 1) = 2 * 2^n

BitwiseOn(op, x, y) ==
    CASE op = "And" -> x \cap y
      [] op = "Or" -> x \cup y
      [] op = "Xor" -> (x \ y) \cup (y \ x)

IntBitwise(op, a, b) ==
    {WrapInt(Word(BitwiseOn(op, BitsOf(a, IntBits), BitsOf(b, IntBits)), IntBits))}

ByteBitwise(op, a, b) ==
    {Word(BitwiseOn(op, BitsOf(a, ByteBits), BitsOf(b, ByteBits)), ByteBits)}

(* A shift by a negative count or by the width is undefined.               *)
IntShift(op, a, count) ==
    CASE count \notin 0..(IntBits - 1) -> Ints
      [] count \in 0..(IntBits - 1) /\ op = "LeftShift" -> {WrapInt(a * 2^count)}
      [] count \in 0..(IntBits - 1) /\ op = "RightShift" -> {a \div 2^count}

ByteShift(op, a, count) ==
    CASE count >= PromotedBits -> Bytes
      [] count < PromotedBits /\ op = "LeftShift" -> {WrapByte(a * 2^count)}
      [] count < PromotedBits /\ op = "RightShift" -> {a \div 2^count}
-----------------------------------------------------------------------------
(* A float out of the range of int64_t is converted to any integer.        *)
FloatToInt(a) == CASE a = 0 -> {0}
                   [] a = NaN -> Ints
                   [] a \in {-1, 1} -> {n \in Ints : n * a >= 0} \cup {MinInt}
=============================================================================
