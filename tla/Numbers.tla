------------------------------- MODULE Numbers ------------------------------
(***************************************************************************)
(* The numbers of leo3: Nat and Int, which are a boxed machine word when   *)
(* small and a heap object when big, the fixed-width UIntN and IntN with   *)
(* two's complement words, Fin and BitVec, which wrap a Nat below a bound, *)
(* and the conversions between them.                                       *)
(*                                                                         *)
(* A calculator holds one number and applies one operation after the other *)
(* to it, so that every operation is fed with what the others return: a    *)
(* comparison of small numbers compares words, which is right only as long *)
(* as no operation returns a heap object for a small value.                *)
(*                                                                         *)
(* The big-number functions (lean_nat_big_add and the like) are Lean's own *)
(* and external: they take either form and return the normal form.         *)
(***************************************************************************)
EXTENDS Integers, SequencesExt

CONSTANTS
  P,         \* bits of a machine word (64 in the code)
  Widths,    \* bits of the fixed-width types (8 to 64 in the code)
  Bounds,    \* bounds of Fin
  Operands,  \* the integers that numbers are made from, of up to 2 * P bits
  Radix, ChunkWidth,    \* digits of a printed Nat: radix and digits per chunk (10 and 9 in the code)
  Surrogates, MaxChar,  \* the gap in and the end of the Unicode scalar values
  MaxShift,  \* bound: exponents and shift amounts of Nats
  Further    \* bound: the numbers that are computed with further

(* Powers, multiplied up. *)
Power(x, n) == LET power[k \in 0..n] == IF k = 0 THEN 1 ELSE x * power[k - 1] IN power[n]
Pow2(n) == Power(2, n)

ASSUME NumbersAssumption ==
  /\ P \in Nat /\ P > 3 /\ P % 2 = 0
  /\ \A b \in Widths \cup {P} : Pow2(b) % b = 0    \* widths are powers of two
  /\ Widths \subseteq 2..P /\ Bounds \subseteq Nat \ {0}
  /\ Operands \cup Further \subseteq {x \in Int : -Pow2(2 * P) < x /\ x < Pow2(2 * P)} /\ MaxShift \in Nat
  /\ Radix \in Nat \ {0, 1} /\ ChunkWidth \in Nat \ {0}
  /\ Power(Radix, ChunkWidth) < Pow2(P - 1)
  /\ MaxChar \in Nat /\ Surrogates \subseteq 0..MaxChar

VARIABLES
  acc,   \* the number held: its type and its representation
  last   \* the operation that produced it and the values it was given

vars == <<acc, last>>

-----------------------------------------------------------------------------
(* Words and truncated division, as the machine and Rust have them.        *)

AbsV(x) == IF x < 0 THEN -x ELSE x
Wrap(x, bits) == x % Pow2(bits)
Signed(w, bits) == IF w < Pow2(bits - 1) THEN w ELSE w - Pow2(bits)
Quot(x, y) == IF (x < 0) = (y < 0) THEN AbsV(x) \div AbsV(y) ELSE -(AbsV(x) \div AbsV(y))
Rem(x, y) == x - y * Quot(x, y)

\* The positions of the one bits of x (below 2^(2 * P), which bounds Further).
Bits(x) == {i \in 0..2 * P : (x \div Pow2(i)) % 2 = 1}
OfBits(S) ==
  LET below[i \in 0..2 * P + 1] ==
        IF i = 0 THEN 0 ELSE below[i - 1] + (IF i - 1 \in S THEN Pow2(i - 1) ELSE 0)
  IN below[2 * P + 1]

MaxSmallNat == Pow2(P - 1) - 1
MaxSmallInt == Pow2(P \div 2 - 1) - 1
MinSmallInt == -(Pow2(P \div 2 - 1))
I64 == -(Pow2(P - 1)) .. Pow2(P - 1) - 1

\* A boxed word has one bit less than a word: lean_box shifts the top one out.
Box(x) == [small |-> TRUE, w |-> Wrap(x, P - 1)]
Big(x) == [small |-> FALSE, w |-> x]
BothSmall(a, b) == a.small /\ b.small

-----------------------------------------------------------------------------
(* Nat                                                                     *)

NatValue(o) == o.w
BigNatResult(v) == IF v <= MaxSmallNat THEN Box(v) ELSE Big(v)
lean_usize_to_nat(n) == IF n <= MaxSmallNat THEN Box(n) ELSE Big(n)

NatOps == {"add", "sub", "mul", "div", "mod"}
NatBitOps == {"land", "lor", "xor"}
NatShifts == {"pow", "shiftLeft", "shiftRight"}
NatOtherOps == {"gcd", "lcm", "min", "max", "log2", "pred", "nextPowerOfTwo"}

Divisors(x) == {d \in 1..x : x % d = 0}
Gcd(x, y) == IF x = 0 THEN y ELSE IF y = 0 THEN x ELSE Max(Divisors(x) \cap Divisors(y))
log2(w) == IF w = 0 THEN 0 ELSE CHOOSE k \in 0..2 * P : Pow2(k) <= w /\ w < Pow2(k + 1)

RefNat(op, x, y) ==
  CASE op = "add" -> x + y
    [] op = "sub" -> IF x >= y THEN x - y ELSE 0
    [] op = "mul" -> x * y
    [] op = "div" -> IF y = 0 THEN 0 ELSE x \div y
    [] op = "mod" -> IF y = 0 THEN x ELSE x % y
    [] op = "land" -> OfBits(Bits(x) \cap Bits(y))
    [] op = "lor" -> OfBits(Bits(x) \cup Bits(y))
    [] op = "xor" -> OfBits(SymDiff(Bits(x), Bits(y)))
    [] op = "pow" -> Power(x, y)
    [] op = "shiftLeft" -> x * Pow2(y)
    [] op = "shiftRight" -> x \div Pow2(y)
    [] op = "gcd" -> Gcd(x, y)
    [] op = "lcm" -> IF x * y = 0 THEN 0 ELSE (x * y) \div Gcd(x, y)
    [] op = "min" -> Min({x, y})
    [] op = "max" -> Max({x, y})
    [] op = "log2" -> log2(x)
    [] op = "pred" -> IF x = 0 THEN 0 ELSE x - 1
    [] op = "nextPowerOfTwo" -> IF x <= 1 THEN 1 ELSE Pow2(log2(x - 1) + 1)

NatBig(op, a, b) == BigNatResult(RefNat(op, NatValue(a), NatValue(b)))

lean_nat_add(a, b) ==
  IF BothSmall(a, b) /\ a.w + b.w <= MaxSmallNat THEN Box(a.w + b.w) ELSE NatBig("add", a, b)

lean_nat_sub(a, b) ==
  IF BothSmall(a, b) /\ a.w >= b.w THEN Box(a.w - b.w) ELSE NatBig("sub", a, b)

\* Faulty variant: the product is only checked for overflow of the word.
lean_nat_mul_unchecked(a, b) ==
  IF BothSmall(a, b) /\ a.w * b.w < Pow2(P) THEN Box(a.w * b.w) ELSE NatBig("mul", a, b)

lean_nat_mul(a, b) ==
  IF BothSmall(a, b) /\ a.w * b.w < Pow2(P) /\ a.w * b.w <= MaxSmallNat
  THEN Box(a.w * b.w) ELSE NatBig("mul", a, b)

lean_nat_div(a, b) ==
  IF BothSmall(a, b) /\ b.w # 0 THEN Box(a.w \div b.w) ELSE NatBig("div", a, b)

lean_nat_mod(a, b) ==
  IF BothSmall(a, b) /\ b.w # 0 THEN Box(a.w % b.w) ELSE NatBig("mod", a, b)

NatOp(op, a, b) ==
  CASE op = "add" -> lean_nat_add(a, b)
    [] op = "sub" -> lean_nat_sub(a, b)
    [] op = "mul" -> lean_nat_mul(a, b)
    [] op = "div" -> lean_nat_div(a, b)
    [] op = "mod" -> lean_nat_mod(a, b)
    [] OTHER -> NatBig(op, a, b)

succ(a) == lean_nat_add(a, lean_usize_to_nat(1))

lean_nat_dec_eq(a, b) == IF BothSmall(a, b) THEN a = b ELSE NatValue(a) = NatValue(b)
lean_nat_dec_lt(a, b) == IF BothSmall(a, b) THEN a.w < b.w ELSE NatValue(a) < NatValue(b)
lean_nat_dec_le(a, b) == IF BothSmall(a, b) THEN a.w <= b.w ELSE NatValue(a) <= NatValue(b)

isPowerOfTwo(o) ==
  /\ ~lean_nat_dec_eq(o, Box(0))
  /\ lean_nat_dec_eq(NatOp("land", o, lean_nat_sub(o, Box(1))), Box(0))

\* LeanNat::any and all with the predicate i = k, fold with addition: a big Nat
\* is not counted up to at all.
NatAny(o, k) == o.small /\ k \in 0..o.w - 1
NatAll(o, k) == o.small => \A i \in 0..o.w - 1 : i = k
NatFold(o) ==
  LET sum[i \in 0..o.w] == IF i = 0 THEN 0 ELSE sum[i - 1] + (i - 1)
  IN IF o.small THEN sum[o.w] ELSE 0

\* A Nat in digits: the most significant first, without leading zeros unless
\* padded to a width.
Padded(v, width) == [i \in 1..width |-> (v \div Power(Radix, width - i)) % Radix]
Digits(v) == Padded(v, IF v = 0 THEN 1 ELSE CHOOSE n \in 1..2 * P : Power(Radix, n - 1) <= v /\ v < Power(Radix, n))
DigitsValue(s) ==
  LET value[i \in 0..Len(s)] == IF i = 0 THEN 0 ELSE value[i - 1] * Radix + s[i]
  IN value[Len(s)]

\* A big Nat is divided by the chunk base until nothing is left, and the chunks
\* are put together from the last.
to_decimal_string(o) ==
  LET base == lean_usize_to_nat(Power(Radix, ChunkWidth))
      current[k \in 0..2 * P] == IF k = 0 THEN o ELSE lean_nat_div(current[k - 1], base)
      n == CHOOSE k \in 1..2 * P :
             lean_nat_dec_eq(current[k], Box(0)) /\ ~lean_nat_dec_eq(current[k - 1], Box(0))
      Chunk(k) == lean_nat_mod(current[k], base).w
      out[i \in 0..n - 1] ==
        IF i = 0 THEN Digits(Chunk(n - 1)) ELSE out[i - 1] \o Padded(Chunk(n - 1 - i), ChunkWidth)
  IN IF o.small THEN Digits(o.w) ELSE out[n - 1]

-----------------------------------------------------------------------------
(* Int                                                                     *)

lean_scalar_to_int64(o) == Signed(Wrap(o.w, P \div 2), P \div 2)
IntValue(o) == IF o.small THEN lean_scalar_to_int64(o) ELSE o.w
lean_int64_to_int(n) == IF n \in MinSmallInt..MaxSmallInt THEN Box(n) ELSE Big(n)
BigIntResult(v) == IF v \in MinSmallInt..MaxSmallInt THEN Box(v) ELSE Big(v)

lean_nat_to_int(o) == IF o.small /\ o.w > MaxSmallInt THEN Big(o.w) ELSE o

IntOps == {"add", "sub", "mul", "div", "mod", "ediv", "emod"}

\* What Lean's Int.ediv and Int.emod are.
EuclideanRem(x, y) == x % AbsV(y)
EuclideanQuot(x, y) == LET q == (x - EuclideanRem(x, y)) \div AbsV(y) IN IF y < 0 THEN -q ELSE q

RefInt(op, x, y) ==
  CASE op = "add" -> x + y
    [] op = "sub" -> x - y
    [] op = "mul" -> x * y
    [] op = "div" -> IF y = 0 THEN 0 ELSE Quot(x, y)
    [] op = "mod" -> IF y = 0 THEN x ELSE Rem(x, y)
    [] op = "ediv" -> IF y = 0 THEN 0 ELSE EuclideanQuot(x, y)
    [] op = "emod" -> IF y = 0 THEN x ELSE EuclideanRem(x, y)

\* lean_int_ediv on two small numbers
lean_int_ediv(x, y) ==
  IF y = 0 THEN 0
  ELSE IF (Rem(x, y) > 0 /\ y < 0) \/ (Rem(x, y) < 0 /\ y > 0) THEN Quot(x, y) - 1
  ELSE Quot(x, y)

\* lean_int_emod on two small numbers
lean_int_emod(x, y) ==
  IF y = 0 THEN x
  ELSE LET r == Rem(x, y) IN
    IF r < 0 THEN (IF y > 0 THEN r + y ELSE r - y)
    ELSE IF r = 0 THEN 0
    ELSE IF y < 0 THEN r + y
    ELSE r

SmallIntOp(op, x, y) ==
  CASE op = "ediv" -> lean_int_ediv(x, y)
    [] op = "emod" -> lean_int_emod(x, y)
    [] OTHER -> RefInt(op, x, y)

IntOp(op, a, b) ==
  IF BothSmall(a, b)
  THEN lean_int64_to_int(SmallIntOp(op, lean_scalar_to_int64(a), lean_scalar_to_int64(b)))
  ELSE BigIntResult(RefInt(op, IntValue(a), IntValue(b)))

lean_int_neg(a) ==
  IF a.small THEN lean_int64_to_int(-lean_scalar_to_int64(a)) ELSE BigIntResult(-a.w)

lean_int_eq(a, b) == IF BothSmall(a, b) THEN a = b ELSE IntValue(a) = IntValue(b)
lean_int_lt(a, b) == IntValue(a) < IntValue(b)

lean_int_le(a, b) == IntValue(a) <= IntValue(b)
isNonNeg(o) == IntValue(o) >= 0

\* LeanInt::to_i64: a big number is truncated and compared with the original.
FitsI64(o) ==
  o.small \/ lean_int_eq(o, lean_int64_to_int(Signed(Wrap(o.w, P), P)))

\* LeanInt::natAbs
natAbs(o) ==
  IF FitsI64(o) THEN lean_usize_to_nat(AbsV(IntValue(o)))
  ELSE IF isNonNeg(o) THEN o
  ELSE lean_int_neg(o)

\* LeanInt::toNat
toNat(o) == IF isNonNeg(o) THEN natAbs(o) ELSE lean_usize_to_nat(0)

\* LeanInt::sign: beyond i64 the form of the object decides.
IntSign(o) ==
  IF FitsI64(o) THEN (IF IntValue(o) > 0 THEN 1 ELSE IF IntValue(o) < 0 THEN -1 ELSE 0)
  ELSE IF isNonNeg(o) THEN 1 ELSE -1

-----------------------------------------------------------------------------
(* UIntN and IntN: words of `bits` bits                                    *)

\* A word narrower than a machine word is boxed; one as wide, which a boxed
\* word cannot hold, is stored in a constructor object.
Boxed(bits) == bits < P

\* Faulty variant: every word is boxed.
mk_boxed(w, bits) == Box(w)

mk(w, bits) == IF Boxed(bits) THEN Box(w) ELSE Big(w)

UIntOps ==
  {"add", "sub", "mul", "div", "mod", "neg", "complement", "land", "lor", "xor",
   "shiftLeft", "shiftRight", "log2"}

UIntOp(op, a, b, bits) ==
  CASE op = "add" -> Wrap(a + b, bits)
    [] op = "sub" -> Wrap(a - b, bits)
    [] op = "mul" -> Wrap(a * b, bits)
    [] op = "div" -> IF b = 0 THEN 0 ELSE a \div b
    [] op = "mod" -> IF b = 0 THEN a ELSE a % b
    [] op = "neg" -> Wrap(-a, bits)
    [] op = "complement" -> Pow2(bits) - 1 - a
    [] op \in NatBitOps -> RefNat(op, a, b)
    [] op = "shiftLeft" -> Wrap(a * Pow2(b % bits), bits)
    [] op = "shiftRight" -> a \div Pow2(b % bits)
    [] op = "log2" -> log2(a)

SIntOps == (UIntOps \ {"log2"}) \cup {"abs"}

\* Rust's / and % on iN panic on the one overflowing pair.
SIntPanics(op, a, b, bits) ==
  op \in {"div", "mod"} /\ Signed(a, bits) = -(Pow2(bits - 1)) /\ Signed(b, bits) = -1

SIntOp(op, a, b, bits) ==
  LET x == Signed(a, bits)  y == Signed(b, bits) IN
  CASE op \in {"add", "sub", "mul", "neg", "complement", "land", "lor", "xor"} -> UIntOp(op, a, b, bits)
    [] op = "div" -> IF y = 0 THEN 0 ELSE Wrap(Quot(x, y), bits)
    [] op = "mod" -> IF y = 0 THEN a ELSE Wrap(Rem(x, y), bits)
    [] op = "abs" -> IF x < 0 THEN Wrap(-x, bits) ELSE a
    [] op = "shiftLeft" -> Wrap(x * Pow2(y % bits), bits)
    [] op = "shiftRight" -> Wrap(x \div Pow2(y % bits), bits)

Comparisons == {"decEq", "decLt", "decLe"}
Compare(op, x, y) ==
  CASE op = "decEq" -> x = y [] op = "decLt" -> x < y [] op = "decLe" -> x <= y

\* A signed word is read as a signed number before it is compared or cut to
\* another width; `as` keeps the low bits.
WordValue(w, type, bits) == IF type \in {"sint", "isize"} THEN Signed(w, bits) ELSE w
WordCompare(op, a, b, type, bits) ==
  Compare(op, WordValue(a, type, bits), WordValue(b, type, bits))
Cast(w, type, from, to) == Wrap(WordValue(w, type, from), to)

\* isValidChar and toChar: values beyond u32 are refused first.
char_from_u32(v) == v <= MaxChar /\ v \notin Surrogates
isValidChar(v) == 0 <= v /\ v < Pow2(P \div 2) /\ char_from_u32(v)

\* UIntN.toNat, ofNat, toInt, ofInt; IntN.toInt, toNat, ofNat, ofInt
UIntToNat(a) == lean_usize_to_nat(a)

UIntOfNat(o, bits) == Wrap(o.w, bits)
UIntToInt(a) == lean_nat_to_int(UIntToNat(a))
OfInt(o, bits) == Wrap(IF FitsI64(o) THEN IntValue(o) ELSE 0, bits)
SIntToInt(a, bits) == lean_int64_to_int(Signed(a, bits))

-----------------------------------------------------------------------------
(* Fin and BitVec: a Nat below a bound                                     *)

FinOps == {"add", "sub", "mul", "div", "mod", "land", "lor", "xor", "shiftLeft", "shiftRight"}

FinOp(op, a, b, n) ==
  CASE op = "sub" -> lean_nat_mod(lean_nat_add(lean_nat_sub(n, b), a), n)
    [] op \in {"div", "mod", "shiftRight"} -> NatOp(op, a, b)
    [] OTHER -> lean_nat_mod(NatOp(op, a, b), n)

FinOfNat(o, n) == lean_nat_mod(o, n)

BitVecOps == {"add", "sub", "mul", "not", "land", "lor", "xor", "shiftLeft", "shiftRight"}

BitVecOfNat(o, bits) == lean_nat_mod(o, BigNatResult(Pow2(bits)))
BitVecAllOnes(bits) == BitVecOfNat(lean_nat_sub(BigNatResult(Pow2(bits)), Box(1)), bits)

BitVecOp(op, a, b, bits) ==
  CASE op = "sub" -> BitVecOfNat(lean_nat_sub(lean_nat_add(BigNatResult(Pow2(bits)), a), b), bits)
    [] op = "not" -> BitVecOfNat(NatOp("xor", BitVecAllOnes(bits), a), bits)
    [] op = "shiftRight" -> NatOp(op, a, b)
    [] OTHER -> BitVecOfNat(NatOp(op, a, b), bits)

\* LeanRange::size
RangeSize(start, stop, step) ==
  lean_nat_div(lean_nat_sub(lean_nat_add(lean_nat_sub(stop, start), step), Box(1)), step)

-----------------------------------------------------------------------------
(* The calculator.  Operands are made by the constructors from_usize,      *)
(* from_i64 and mk.  `bits` is the width of a word or BitVec, the bound of *)
(* a Fin.                                                                  *)

WordTypes == {"uint", "usize", "sint", "isize"}
IsSigned(type) == type \in {"sint", "isize"}
WidthsOf(type) == IF type \in {"usize", "isize"} THEN {P} ELSE Widths

Number(type, rep, bits) == [type |-> type, rep |-> rep, bits |-> bits]
Result(type, rep) == acc' = Number(type, rep, acc.bits)
Record(op, x, y) == last' = [type |-> acc.type, op |-> op, x |-> x, y |-> y, bits |-> acc.bits]
Fresh == [type |-> "none", op |-> "new", x |-> 0, y |-> 0, bits |-> 0]

NatOperands == {n \in Operands : n >= 0}
Shifts == {n \in NatOperands : n <= MaxShift}
NatOperandsOf(op) == IF op \in NatShifts THEN Shifts ELSE NatOperands
WordOperands(bits) == {Wrap(n, bits) : n \in Operands}

Value(a) ==
  CASE a.type \in {"nat", "fin", "bitvec"} -> NatValue(a.rep)
    [] a.type = "int" -> IntValue(a.rep)
    [] a.type \in WordTypes -> WordValue(a.rep.w, a.type, a.bits)
    [] OTHER -> 0

\* A computation begins with a number from the outside.
New ==
  /\ \/ \E n \in NatOperands : acc' = Number("nat", BigNatResult(n), 0)
     \/ \E n \in Operands : acc' = Number("int", BigIntResult(n), 0)
     \/ \E type \in WordTypes : \E bits \in WidthsOf(type) : \E w \in WordOperands(bits) :
          acc' = Number(type, mk(w, bits), bits)
     \/ \E bits \in Widths : \E n \in NatOperands :
          acc' = Number("bitvec", BitVecOfNat(BigNatResult(n), bits), bits)
     \/ \E n \in Bounds : \E v \in NatOperands :
          acc' = Number("fin", FinOfNat(BigNatResult(v), BigNatResult(n)), n)
  /\ UNCHANGED last

Init == acc = Number("nat", Box(0), 0) /\ last = Fresh

NatStep ==
  /\ acc.type = "nat"
  /\ \E op \in NatOps, y \in NatOperands :
       /\ Result("nat", NatOp(op, acc.rep, BigNatResult(y)))
       /\ Record(op, Value(acc), y)

NatBitStep ==
  /\ acc.type = "nat"
  /\ \E op \in NatBitOps \cup {"shiftLeft", "shiftRight"} : \E y \in NatOperandsOf(op) :
       /\ Result("nat", NatOp(op, acc.rep, BigNatResult(y)))
       /\ Record(op, Value(acc), y)

NatOtherStep ==
  /\ acc.type = "nat"
  /\ \/ \E op \in NatOtherOps \cup {"pow"} : \E y \in NatOperandsOf(op) :
          /\ Result("nat", NatOp(op, acc.rep, BigNatResult(y)))
          /\ Record(op, Value(acc), y)
     \/ Result("nat", succ(acc.rep)) /\ Record("succ", Value(acc), 0)

NatQuery ==
  /\ acc.type = "nat"
  /\ \/ \E y \in NatOperands :
          /\ \/ Result("bool", lean_nat_dec_eq(acc.rep, BigNatResult(y))) /\ Record("decEq", Value(acc), y)
             \/ Result("bool", lean_nat_dec_lt(acc.rep, BigNatResult(y))) /\ Record("decLt", Value(acc), y)
             \/ Result("bool", lean_nat_dec_le(acc.rep, BigNatResult(y))) /\ Record("decLe", Value(acc), y)
     \/ Result("bool", isPowerOfTwo(acc.rep)) /\ Record("isPowerOfTwo", Value(acc), 0)
     \/ Result("text", to_decimal_string(acc.rep)) /\ Record("repr", Value(acc), 0)

NatLoop ==
  /\ acc.type = "nat"
  /\ \/ \E k \in NatOperands :
          \/ Result("bool", NatAny(acc.rep, k)) /\ Record("any", Value(acc), k)
          \/ Result("bool", NatAll(acc.rep, k)) /\ Record("all", Value(acc), k)
     \/ Result("nat", lean_usize_to_nat(NatFold(acc.rep))) /\ Record("fold", Value(acc), 0)

IntStep ==
  /\ acc.type = "int"
  /\ \E op \in IntOps \cup {"neg"}, y \in Operands :
       /\ Result("int", IF op = "neg" THEN lean_int_neg(acc.rep)
                        ELSE IntOp(op, acc.rep, BigIntResult(y)))
       /\ Record(op, Value(acc), y)

IntQuery ==
  /\ acc.type = "int"
  /\ \/ \E y \in Operands :
          \/ Result("bool", lean_int_eq(acc.rep, BigIntResult(y))) /\ Record("decEq", Value(acc), y)
          \/ Result("bool", lean_int_lt(acc.rep, BigIntResult(y))) /\ Record("decLt", Value(acc), y)
          \/ Result("bool", lean_int_le(acc.rep, BigIntResult(y))) /\ Record("decLe", Value(acc), y)
     \/ Result("sign", IntSign(acc.rep)) /\ Record("sign", Value(acc), 0)

\* One operation of a word type, whose macros differ in how a word is stored.
WordStep(type, boxed) ==
  /\ acc.type = type /\ Boxed(acc.bits) = boxed
  /\ \E op \in IF IsSigned(type) THEN SIntOps ELSE UIntOps, w \in WordOperands(acc.bits) :
       /\ \/ /\ IsSigned(type) /\ SIntPanics(op, acc.rep.w, w, acc.bits)
             /\ Result("panic", 0)
          \/ /\ IsSigned(type) /\ ~SIntPanics(op, acc.rep.w, w, acc.bits)
             /\ Result(type, mk(SIntOp(op, acc.rep.w, w, acc.bits), acc.bits))
          \/ ~IsSigned(type) /\ Result(type, mk(UIntOp(op, acc.rep.w, w, acc.bits), acc.bits))
       /\ Record(op, Value(acc), WordValue(w, type, acc.bits))

UIntStep == WordStep("uint", TRUE)
UInt64Step == WordStep("uint", FALSE)
USizeStep == WordStep("usize", FALSE)
SIntStep == WordStep("sint", TRUE)
Int64Step == WordStep("sint", FALSE)
ISizeStep == WordStep("isize", FALSE)

WordQuery ==
  /\ acc.type \in WordTypes
  /\ \/ \E op \in Comparisons, w \in WordOperands(acc.bits) :
          /\ Result("bool", WordCompare(op, acc.rep.w, w, acc.type, acc.bits))
          /\ Record(op, Value(acc), WordValue(w, acc.type, acc.bits))
     \/ /\ IF isValidChar(Value(acc)) THEN Result("char", Value(acc)) ELSE Result("error", 0)
        /\ Record("toChar", Value(acc), 0)

\* toUInt8 .. toUSize and toInt8 .. toISize: to another width of the same kind
WordCast ==
  /\ acc.type \in WordTypes
  /\ \E type \in {t \in WordTypes : IsSigned(t) = IsSigned(acc.type)} : \E bits \in WidthsOf(type) :
       /\ <<type, bits>> # <<acc.type, acc.bits>>
       /\ acc' = Number(type, mk(Cast(acc.rep.w, acc.type, acc.bits, bits), bits), bits)
  /\ Record("cast", Value(acc), 0)

FinStep ==
  /\ acc.type = "fin"
  /\ \E op \in FinOps, y \in 0..acc.bits - 1 :
       /\ op \in NatShifts => y \in Shifts
       /\ Result("fin", FinOp(op, acc.rep, BigNatResult(y), BigNatResult(acc.bits)))
       /\ Record(op, Value(acc), y)

BitVecStep ==
  /\ acc.type = "bitvec"
  /\ \E op \in BitVecOps, y \in WordOperands(acc.bits) \cup Shifts :
       /\ y \in IF op \in NatShifts THEN Shifts ELSE WordOperands(acc.bits)
       /\ Result("bitvec", BitVecOp(op, acc.rep, BigNatResult(y), acc.bits))
       /\ Record(op, Value(acc), y)

\* LeanFin::toNat and LeanBitVec::toNat take the Nat out of its wrapper.
BoundedToNat == acc.type \in {"fin", "bitvec"} /\ Result("nat", acc.rep) /\ Record("toNat", Value(acc), 0)

NatToInt == acc.type = "nat" /\ Result("int", lean_nat_to_int(acc.rep)) /\ Record("toInt", Value(acc), 0)

IntToNat ==
  /\ acc.type = "int"
  /\ \/ Result("nat", natAbs(acc.rep)) /\ Record("natAbs", Value(acc), 0)
     \/ Result("nat", toNat(acc.rep)) /\ Record("toNat", Value(acc), 0)
     \/ /\ IF isNonNeg(acc.rep) THEN Result("nat", natAbs(acc.rep)) ELSE Result("error", 0)
        /\ Record("toNatOption", Value(acc), 0)

WordToNatOrInt ==
  /\ acc.type \in WordTypes
  /\ \/ ~IsSigned(acc.type) /\ Result("nat", UIntToNat(acc.rep.w)) /\ Record("toNat", Value(acc), 0)
     \/ ~IsSigned(acc.type) /\ Result("int", UIntToInt(acc.rep.w)) /\ Record("toInt", Value(acc), 0)
     \/ IsSigned(acc.type) /\ Result("int", SIntToInt(acc.rep.w, acc.bits)) /\ Record("toInt", Value(acc), 0)
     \/ /\ IsSigned(acc.type)
        /\ IF Value(acc) < 0 THEN Result("error", 0) ELSE Result("nat", UIntToNat(acc.rep.w))
        /\ Record("toNat", Value(acc), 0)

\* IntN.ofNat and ofInt go through the unsigned word of the same width.
NatOrIntToWord ==
  \E type \in WordTypes : \E bits \in WidthsOf(type) :
    /\ \/ acc.type = "nat" /\ acc' = Number(type, mk(UIntOfNat(acc.rep, bits), bits), bits)
       \/ acc.type = "int" /\ acc' = Number(type, mk(OfInt(acc.rep, bits), bits), bits)
    /\ Record("truncate", Value(acc), 0)

\* LeanNat::toUInt8 and the like look at the width only when the Nat is small.
NatToUIntChecked ==
  /\ acc.type = "nat"
  /\ \E bits \in Widths :
       acc' = IF acc.rep.small /\ acc.rep.w >= Pow2(bits)
              THEN Number("error", 0, bits) ELSE Number("uint", mk(Wrap(acc.rep.w, bits), bits), bits)
  /\ Record("toUInt", Value(acc), 0)

RangeStep ==
  /\ acc.type = "nat"
  /\ \E stop \in NatOperands, step \in 1..3 :
       /\ acc' = Number("nat", RangeSize(acc.rep, BigNatResult(stop), BigNatResult(step)), step)
       /\ last' = [type |-> "range", op |-> "size", x |-> Value(acc), y |-> stop, bits |-> step]

Compute ==
  \/ NatStep \/ NatBitStep \/ NatOtherStep \/ NatQuery \/ NatLoop \/ IntStep \/ IntQuery
  \/ UIntStep \/ UInt64Step \/ USizeStep \/ SIntStep \/ Int64Step \/ ISizeStep
  \/ WordQuery \/ WordCast \/ FinStep \/ BitVecStep \/ BoundedToNat
  \/ NatToInt \/ IntToNat \/ WordToNatOrInt \/ NatOrIntToWord \/ NatToUIntChecked \/ RangeStep

\* What was computed is computed with further.
Continue == acc.type # "panic" /\ Value(acc) \in Further /\ last' = Fresh /\ UNCHANGED acc

Next ==
  \/ last = Fresh /\ (New \/ Compute)
  \/ last # Fresh /\ Continue

Spec == Init /\ [][Next]_vars

-----------------------------------------------------------------------------
Objects == [small : BOOLEAN, w : Int]

TypeOK ==
  /\ acc.type \in WordTypes \cup
       {"nat", "int", "fin", "bitvec", "bool", "sign", "text", "char", "panic", "error"}
  /\ acc.type \in {"nat", "fin", "bitvec"} => acc.rep \in Objects /\ acc.rep.w >= 0
  /\ acc.type = "int" => acc.rep \in Objects
  /\ acc.type \in WordTypes => acc.rep \in Objects /\ acc.rep.w \in 0..Pow2(acc.bits) - 1
  /\ acc.type = "bool" => acc.rep \in BOOLEAN
  /\ acc.type = "text" => acc.rep \in Seq(0..Radix - 1)

\* Every operation returns the normal form: a boxed word exactly for a small
\* value, also across the conversions between Nat and Int, whose small ranges
\* differ.  The comparisons of small numbers compare words and rely on it
\* (inline/nat.rs:155-179, inline/numeric.rs:345-377).
Canonical ==
  /\ acc.type \in {"nat", "fin", "bitvec"} => acc.rep = BigNatResult(NatValue(acc.rep))
  /\ acc.type = "int" =>
       /\ acc.rep = BigIntResult(IntValue(acc.rep))
       /\ \A y \in Operands : lean_int_eq(acc.rep, BigIntResult(y)) = (IntValue(acc.rep) = y)

\* The integer a word of `bits` bits stands for after arithmetic modulo 2^bits.
Modular(x, type, bits) == IF IsSigned(type) THEN Signed(Wrap(x, bits), bits) ELSE Wrap(x, bits)

RefWord(op, x, y, type, bits) ==
  CASE op \in {"add", "sub", "mul"} -> Modular(RefInt(op, x, y), type, bits)
    [] op \in {"div", "mod"} -> RefInt(op, x, y)
    [] op = "neg" -> Modular(-x, type, bits)
    [] op = "complement" -> Modular(-1 - x, type, bits)
    [] op \in NatBitOps -> Modular(RefNat(op, Wrap(x, bits), Wrap(y, bits)), type, bits)
    [] op = "abs" -> Modular(AbsV(x), type, bits)
    [] op = "shiftLeft" -> Modular(x * Pow2(y % bits), type, bits)
    [] op = "shiftRight" -> x \div Pow2(y % bits)
    [] op = "log2" -> log2(x)

\* Euclidean division: a = b * ediv + emod with 0 <= emod < |b|.
EuclideanDivision ==
  last.type = "int" /\ last.y # 0 =>
    /\ last.op = "ediv" => Value(acc) = EuclideanQuot(last.x, last.y)
    /\ last.op = "emod" => Value(acc) = EuclideanRem(last.x, last.y)

\* Arithmetic is that of the mathematical numbers, for fixed widths modulo
\* 2^bits, through every carry from a word to a heap object and back: nothing
\* is lost at the border of the small range, of the word or of the width.  The
\* one pair of operands that ends in a panic is the minimum of a signed type
\* divided by -1 (inline/numeric.rs:1533-1545 and its copies).  Comparisons,
\* which look at the words of small numbers only, are those of the numbers.
\* Euclidean division is that as long as the divisor is positive, the case the
\* tests of the repository have (leo3/tests/int_ops_comprehensive.rs:261-283).  It
\* says nothing of an Int divided by zero, for which types/int.rs:211-212, 229-230
\* promise a panic and inline/numeric.rs:186, 216 a result.
ExactArithmetic ==
  /\ last.type = "nat" /\ last.op \in NatOps => Value(acc) = RefNat(last.op, last.x, last.y)
  /\ last.op = "succ" => Value(acc) = last.x + 1
  /\ last.op \in Comparisons => acc.rep = Compare(last.op, last.x, last.y)
  /\ last.op = "isPowerOfTwo" => acc.rep = (Cardinality(Bits(last.x)) = 1)
  /\ last.op = "sign" => acc.rep * AbsV(last.x) = last.x /\ acc.rep \in {-1, 0, 1}
  /\ last.type = "int" /\ (last.op \in {"add", "sub", "mul"} \/ (last.op \in {"div", "mod"} /\ last.y # 0)) =>
       Value(acc) = RefInt(last.op, last.x, last.y)
  /\ last.type = "int" /\ last.op = "neg" => Value(acc) = -last.x
  /\ last.y > 0 => EuclideanDivision
  /\ last.type \in WordTypes /\ acc.type = last.type /\ last.op # "cast" =>
       Value(acc) = RefWord(last.op, last.x, last.y, acc.type, acc.bits)
  /\ acc.type = "panic" =>
       last.op \in {"div", "mod"} /\ last.x = -(Pow2(acc.bits - 1)) /\ last.y = -1

\* Fin and BitVec stay below their bound and compute modulo it, and a range has
\* as many elements as its size says (types/fin.rs, bitvec.rs, range.rs).
BoundedArithmetic ==
  /\ acc.type = "fin" => Value(acc) < acc.bits
  /\ acc.type = "bitvec" => Value(acc) < Pow2(acc.bits)
  /\ last.type = "fin" /\ last.op \in {"add", "sub", "mul"} =>
       Value(acc) = RefInt(last.op, last.x, last.y) % acc.bits
  /\ last.type = "bitvec" /\ last.op \in {"add", "sub", "mul"} =>
       Value(acc) = Wrap(RefInt(last.op, last.x, last.y), acc.bits)
  /\ last.type \in {"fin", "bitvec"} /\ last.op \in NatBitOps \cup NatShifts =>
       Value(acc) = RefNat(last.op, last.x, last.y)
                      % (IF acc.type = "fin" THEN acc.bits ELSE Pow2(acc.bits))
  /\ last.type = "bitvec" /\ last.op = "not" => Value(acc) + last.x = Pow2(acc.bits) - 1
  /\ last.type = "range" =>
       \A i \in 0..Value(acc) : (i < Value(acc)) = (last.x + i * acc.bits < last.y)

\* What the three have in common: at no border between two representations is
\* anything lost, and none of two numbers is left in the wrong one.
ArithmeticIsExact == Canonical /\ ExactArithmetic /\ BoundedArithmetic

\* The conversions keep the value where it fits the target; an Int beyond the
\* i64 range truncates to 0, not modulo 2^bits, and a small Nat too large for the
\* width is an error; a word becomes a character exactly if it is a scalar value,
\* and the digits printed for a Nat are its digits, also across the chunks of a
\* big one (types/int.rs:98-115, 332-392, uint.rs:188-262, nat.rs:606-690,
\* 930-965).  It says nothing of a big Nat that does not fit, for which
\* nat.rs:604, 626 and 648 promise an error and toUInt8 .. toUInt32 truncate.
ConversionsKeepValues ==
  /\ last.op \in {"toInt", "natAbs"} => Value(acc) = IF last.op = "natAbs" THEN AbsV(last.x) ELSE last.x
  /\ last.op = "toNat" /\ acc.type = "nat" => Value(acc) = IF last.x < 0 THEN 0 ELSE last.x
  /\ last.op = "toNatOption" => IF last.x < 0 THEN acc.type = "error" ELSE Value(acc) = last.x
  /\ last.op = "cast" => Value(acc) = Modular(last.x, acc.type, acc.bits)
  /\ last.op = "toChar" =>
       (acc.type = "char") = (last.x \in (0..Min({MaxChar, Pow2(P \div 2) - 1})) \ Surrogates)
  /\ last.op = "repr" =>
       DigitsValue(acc.rep) = last.x /\ (acc.rep[1] = 0 => last.x = 0 /\ Len(acc.rep) = 1)
  /\ last.op = "truncate" =>
       Value(acc) = IF last.type = "int" /\ last.x \notin I64 THEN 0
                    ELSE Modular(last.x, acc.type, acc.bits)
  /\ last.op = "toUInt" =>
       IF last.x < Pow2(acc.bits) THEN acc.type = "uint" /\ Value(acc) = last.x
       ELSE last.x <= MaxSmallNat => acc.type = "error"
=============================================================================
