------------------------------ MODULE FValues ------------------------------
(***************************************************************************)
(* interp5/fvalues.py: IEEE operations on bit patterns, in two formats     *)
(* that stand for binary32 and binary64.  A format has p bits of           *)
(* significand, the leading one included, and e bits of exponent.          *)
(*                                                                         *)
(* A Python float is [kind, neg, m, q], the number m * 2^q or zero with a  *)
(* sign, an infinity or a NaN.  What CPython does with floats is external: *)
(* its operations are exact results rounded once to the wide format.  Two  *)
(* functions of fvalues.py that differ in their format only are one here.  *)
(***************************************************************************)
EXTENDS Integers, Sequences

CONSTANTS P1, E1,      \* the format of an f32
          P2, E2,      \* the format of an f64, and of a Python float
          W32, W64     \* bits of an i32 and an i64

(* The double-rounding bound the module's comment rests on, an f32 range   *)
(* that holds every i64, i32 values that an f64 holds, and i64 ones that   *)
(* it does not.                                                            *)
FormatAssumption ==
  /\ P1 \in Nat /\ P1 > 1 /\ E1 \in Nat \ {0} /\ P2 \in Nat /\ E2 \in Nat
  /\ W32 \in Nat \ {0} /\ W64 \in Nat
  /\ P2 >= 2 * P1 + 2 /\ E2 > E1
  /\ W64 < 2^(E1 - 1) /\ W32 <= P2 /\ W64 > P2

VARIABLES input, answer
vars == <<input, answer>>

F32 == [p |-> P1, e |-> E1]
F64 == [p |-> P2, e |-> E2]
Format(t) == IF t = "f32" THEN F32 ELSE F64
Width(t) == IF t = "i32" THEN W32 ELSE W64

SIGN(F) == 2^(F.p - 1 + F.e)
EXP(F) == (2^F.e - 1) * 2^(F.p - 1)
QUIET(F) == 2^(F.p - 2)
CANON_NAN(F) == EXP(F) + QUIET(F)
Abs(F, bits) == bits % SIGN(F)                    \* bits & ABS
Sign(F, bits) == bits - Abs(F, bits)              \* bits & SIGN

----------------------------------------------------------------------------
(* Python floats.                                                          *)
Nan == [kind |-> "nan", neg |-> FALSE, m |-> 0, q |-> 0]
Inf(neg) == [kind |-> "inf", neg |-> neg, m |-> 0, q |-> 0]
Num(neg, m, q) == [kind |-> "num", neg |-> neg, m |-> m, q |-> q]
isnan(x) == x.kind = "nan"
isinf(x) == x.kind = "inf"
iszero(x) == x.kind = "num" /\ x.m = 0
bit_length(m) == LET Length[n \in Nat] == IF n = 0 THEN 0 ELSE Length[n \div 2] + 1
                 IN  Length[m]

(* struct.unpack, one format's bits as a float.                            *)
b2f(F, bits) ==
  LET a == Abs(F, bits)
      neg == a # bits
      exp == a \div 2^(F.p - 1)
      frac == a % 2^(F.p - 1)
      bias == 2^(F.e - 1) - 1
  IN  IF exp = 2^F.e - 1 THEN IF frac = 0 THEN Inf(neg) ELSE Nan
      ELSE IF exp = 0 THEN Num(neg, frac, 2 - bias - F.p)
      ELSE Num(neg, frac + 2^(F.p - 1), exp + 1 - bias - F.p)

(* m / 2^n to the nearest integer, to the even one of two.                 *)
HalfEven(m, n) ==
  IF n > bit_length(m) + 1 THEN 0
  ELSE LET keep == m \div 2^n
           rem == 2 * (m % 2^n)
       IN  IF rem > 2^n \/ (rem = 2^n /\ keep % 2 = 1) THEN keep + 1 ELSE keep

(* struct.pack, and the infinity that f2b32 returns where it raises        *)
(* OverflowError.                                                          *)
Pack(F, x) ==
  LET low == 3 - 2^(F.e - 1) - F.p                \* the exponent of the last place
      top == bit_length(x.m) + x.q - F.p
      t == IF top > low THEN top ELSE low
      keep == IF t <= x.q THEN x.m * 2^(x.q - t) ELSE HalfEven(x.m, t - x.q)
      bits == (t - low) * 2^(F.p - 1) + keep
  IN  IF x.m = 0 THEN 0 ELSE IF bits > EXP(F) THEN EXP(F) ELSE bits

f2b(F, x) ==
  IF isnan(x) THEN CANON_NAN(F)
  ELSE (IF x.neg THEN SIGN(F) ELSE 0) + (IF isinf(x) THEN EXP(F) ELSE Pack(F, x))

(* An exact result, as a Python float.                                     *)
PyFloat(x) == b2f(F64, f2b(F64, x))

(* m1 * 2^q1 compared with m2 * 2^q2.                                      *)
Cmp(m1, q1, m2, q2) ==
  LET d1 == bit_length(m1) + q1
      d2 == bit_length(m2) + q2
      n1 == IF q1 > q2 THEN m1 * 2^(q1 - q2) ELSE m1
      n2 == IF q2 > q1 THEN m2 * 2^(q2 - q1) ELSE m2
  IN  IF m1 = 0 \/ m2 = 0 THEN (IF m1 = m2 THEN 0 ELSE IF m1 = 0 THEN -1 ELSE 1)
      ELSE IF d1 # d2 THEN IF d1 < d2 THEN -1 ELSE 1
      ELSE IF n1 = n2 THEN 0 ELSE IF n1 < n2 THEN -1 ELSE 1

Magnitude(x, y) ==
  IF isinf(x) \/ isinf(y) THEN (IF isinf(x) = isinf(y) THEN 0 ELSE IF isinf(y) THEN -1 ELSE 1)
  ELSE Cmp(x.m, x.q, y.m, y.q)
Less(x, y) ==
  /\ ~isnan(x) /\ ~isnan(y) /\ ~(iszero(x) /\ iszero(y))
  /\ IF x.neg # y.neg THEN x.neg
     ELSE IF x.neg THEN Magnitude(x, y) > 0 ELSE Magnitude(x, y) < 0
Equal(x, y) ==
  /\ ~isnan(x) /\ ~isnan(y)
  /\ (iszero(x) /\ iszero(y)) \/ (x.neg = y.neg /\ Magnitude(x, y) = 0)

(* Exact sums, products, quotients and roots.  What is far below the last  *)
(* place that can matter is a sticky bit.                                  *)
Far == 2 * P2 + 4
SignedSum(x, y, d) ==
  LET s == (IF x.neg THEN -x.m ELSE x.m) * 2^d + (IF y.neg THEN -y.m ELSE y.m)
  IN  IF s = 0 THEN Num(x.neg /\ y.neg, 0, 0)
      ELSE Num(s < 0, IF s < 0 THEN -s ELSE s, x.q - d)
Sum(x, y) ==
  IF isinf(x) THEN IF isinf(y) /\ x.neg # y.neg THEN Nan ELSE x
  ELSE IF isinf(y) THEN y
  ELSE IF x.m = 0 /\ y.m = 0 THEN Num(x.neg /\ y.neg, 0, 0)
  ELSE IF x.m = 0 THEN y ELSE IF y.m = 0 THEN x
  ELSE LET big == IF x.q >= y.q THEN x ELSE y
           small == IF x.q >= y.q THEN y ELSE x
       IN  IF big.q - small.q <= Far THEN SignedSum(big, small, big.q - small.q)
           ELSE SignedSum(big, [small EXCEPT !.m = 1], Far \div 2 + 2)
Product(x, y) ==
  LET neg == x.neg # y.neg
  IN  IF isinf(x) \/ isinf(y) THEN IF iszero(x) \/ iszero(y) THEN Nan ELSE Inf(neg)
      ELSE Num(neg, x.m * y.m, x.q + y.q)
Quotient(x, y) ==                                 \* y is not zero
  LET neg == x.neg # y.neg
      n == x.m * 2^(Far - 2)
  IN  IF isinf(x) THEN IF isinf(y) THEN Nan ELSE Inf(neg)
      ELSE IF isinf(y) THEN Num(neg, 0, 0)
      ELSE Num(neg, 2 * (n \div y.m) + (IF n % y.m = 0 THEN 0 ELSE 1), x.q - y.q - Far + 1)
Root(x) ==                                        \* x is not below zero
  LET odd == x.q % 2
      n == x.m * 2^(Far - 2 + odd)
      r == CHOOSE i \in 0..2^((P2 + Far) \div 2) : i * i <= n /\ n < (i + 1) * (i + 1)
  IN  IF isinf(x) \/ iszero(x) THEN x
      ELSE Num(FALSE, 2 * r + (IF r * r = n THEN 0 ELSE 1),
               (x.q - odd) \div 2 - (Far - 2) \div 2 - 1)
Exact(op, x, y) ==
  CASE op = "add" -> Sum(x, y)
    [] op = "sub" -> Sum(x, [y EXCEPT !.neg = ~y.neg])
    [] op = "mul" -> Product(x, y)
    [] op = "div" -> Quotient(x, y)

----------------------------------------------------------------------------
(* fvalues.py                                                              *)
is_nan(F, bits) == Abs(F, bits) > EXP(F)
is_canonical_nan(F, bits) == Abs(F, bits) = CANON_NAN(F)
is_arithmetic_nan(F, bits) == Abs(F, bits) >= CANON_NAN(F)     \* its top bits

(* Python raises where IEEE has an infinity or a NaN.                      *)
_div(a, b) ==
  IF iszero(b) THEN IF iszero(a) THEN Nan ELSE Inf(a.neg # b.neg)
  ELSE PyFloat(Quotient(a, b))

_binop_f(op, a, b) == IF op = "div" THEN _div(a, b) ELSE PyFloat(Exact(op, a, b))

(* f32_binop, f64_binop                                                    *)
binop(F, op, ab, bb) ==
  LET a == b2f(F, ab)
      b == b2f(F, bb)
  IN  IF isnan(a) \/ isnan(b) THEN CANON_NAN(F) ELSE f2b(F, _binop_f(op, a, b))

\* Mutant: no case for two zeros.
minmax_zeros(F, op, ab, bb) ==
  LET a == b2f(F, ab)
      b == b2f(F, bb)
  IN  IF isnan(a) \/ isnan(b) THEN CANON_NAN(F)
      ELSE IF (op = "min" /\ Less(a, b)) \/ (op = "max" /\ Less(b, a)) THEN ab ELSE bb

(* f32_min, f32_max, f64_min, f64_max                                      *)
minmax(F, op, ab, bb) ==
  LET a == b2f(F, ab)
      b == b2f(F, bb)
      negative(bits) == Sign(F, bits) # 0
  IN  IF isnan(a) \/ isnan(b) THEN CANON_NAN(F)
      ELSE IF iszero(a) /\ iszero(b)
      THEN IF (op = "min" /\ (negative(ab) \/ negative(bb))) \/ (negative(ab) /\ negative(bb))
           THEN SIGN(F) ELSE 0
      ELSE IF (op = "min" /\ Less(a, b)) \/ (op = "max" /\ Less(b, a)) THEN ab ELSE bb

copysign(F, ab, bb) == Abs(F, ab) + Sign(F, bb)
abs(F, bits) == Abs(F, bits)
neg(F, bits) == (bits + SIGN(F)) % (2 * SIGN(F))

sqrt(F, bits) ==
  LET x == b2f(F, bits)
  IN  IF isnan(x) \/ Less(x, Num(FALSE, 0, 0)) THEN CANON_NAN(F) ELSE f2b(F, PyFloat(Root(x)))

(* math.ceil, floor, trunc and round of a number: an integer's magnitude.  *)
ToInteger(op, x) ==
  LET n == -x.q
      down == IF n > bit_length(x.m) THEN 0 ELSE x.m \div 2^n
      exact == n <= bit_length(x.m) /\ x.m % 2^n = 0
  IN  IF op = "nearest" THEN HalfEven(x.m, n)
      ELSE IF ~exact /\ ((op = "ceil" /\ ~x.neg) \/ (op = "floor" /\ x.neg)) THEN down + 1
      ELSE down

(* A float with no fraction is the integer; a zero has its argument's sign. *)
_round_int(op, x) == IF x.q >= 0 THEN x ELSE Num(x.neg, ToInteger(op, x), 0)

round(F, op, bits) ==
  LET x == b2f(F, bits)
  IN  IF isnan(x) THEN CANON_NAN(F)
      ELSE IF isinf(x) \/ iszero(x) THEN bits
      ELSE f2b(F, PyFloat(_round_int(op, x)))

cmp(F, op, ab, bb) ==
  LET a == b2f(F, ab)
      b == b2f(F, bb)
  IN  CASE op = "eq" -> Equal(a, b) [] op = "ne" -> ~Equal(a, b)
        [] op = "lt" -> Less(a, b)  [] op = "ge" -> Less(b, a) \/ Equal(a, b)
        [] op = "gt" -> Less(b, a)  [] op = "le" -> Less(a, b) \/ Equal(a, b)

(* f64_promote_f32 and f32_demote_f64.                                     *)
recode(from, to, bits) == IF is_nan(from, bits) THEN CANON_NAN(to) ELSE f2b(to, b2f(from, bits))

Signed(bits, v) == IF v >= 2^(bits - 1) THEN v - 2^bits ELSE v
Integer(v) == Num(v < 0, IF v < 0 THEN -v ELSE v, 0)

\* Mutant: rounded to an f64 first, the mistake the comment warns of.
_int_to_f32_bits_twice(v) == f2b(F32, PyFloat(Integer(v)))

(* Rounded half-even in integers, with a carry out of the significand.     *)
_int_to_f32_bits(v) ==
  LET a == IF v < 0 THEN -v ELSE v
      n == bit_length(a)
      shift == n - P1
      keep == a \div 2^shift
      rem == a % 2^shift
      half == 2^(shift - 1)
      up == rem > half \/ (rem = half /\ keep % 2 = 1)
      carry == up /\ keep + 1 = 2^P1
  IN  IF v = 0 THEN 0
      ELSE (IF v < 0 THEN SIGN(F32) ELSE 0) +
           IF n <= P1 THEN f2b(F32, PyFloat(Integer(a)))
           ELSE IF carry THEN f2b(F32, Product(Num(FALSE, (keep + 1) \div 2, 0), Num(FALSE, 1, shift + 1)))
           ELSE f2b(F32, Product(Num(FALSE, IF up THEN keep + 1 ELSE keep, 0), Num(FALSE, 1, shift)))

(* f32_convert_*, f64_convert_*                                            *)
convert(t, from, signed, v) ==
  LET n == IF signed THEN Signed(Width(from), v) ELSE v
  IN  IF t = "f32" THEN _int_to_f32_bits(n) ELSE f2b(F64, PyFloat(Integer(n)))

(* _TRUNC_BOUNDS                                                           *)
Low(target, signed) == IF signed THEN -(2^(Width(target) - 1)) ELSE 0
High(target, signed) == 2^(Width(target) - (IF signed THEN 1 ELSE 0)) - 1

Value(n) == [trap |-> "none", value |-> n]
FTrap(kind) == [trap |-> kind, value |-> 0]
INVALID_CONVERSION == FTrap("invalid conversion to integer")
INTEGER_OVERFLOW == FTrap("integer overflow")

(* math.trunc.  A number beyond every integer type is Huge.                *)
Huge == 2^(W64 + 2)
trunc(x) ==
  LET size == IF x.q < 0 THEN ToInteger("trunc", x)
              ELSE IF bit_length(x.m) + x.q > W64 + 2 THEN Huge ELSE x.m * 2^x.q
  IN  IF x.neg THEN -size ELSE size

\* Mutant: the float, not the integer, is compared with the bounds.
_trunc_float(target, signed, x, sat) ==
  LET lo == Low(target, signed)
      hi == High(target, signed)
  IN  IF isnan(x) THEN IF sat THEN Value(0) ELSE INVALID_CONVERSION
      ELSE IF Less(x, Integer(lo)) \/ Less(Integer(hi), x)
      THEN IF sat THEN Value((IF x.neg THEN lo ELSE hi) % 2^Width(target)) ELSE INTEGER_OVERFLOW
      ELSE Value(trunc(x) % 2^Width(target))

_trunc(target, signed, x, sat) ==
  LET lo == Low(target, signed)
      hi == High(target, signed)
      t == trunc(x)
      Masked(n) == Value(n % 2^Width(target))
  IN  IF isnan(x) THEN IF sat THEN Value(0) ELSE INVALID_CONVERSION
      ELSE IF isinf(x)
      THEN IF sat THEN Masked(IF x.neg THEN lo ELSE hi) ELSE INTEGER_OVERFLOW
      ELSE IF t < lo \/ t > hi
      THEN IF sat THEN Masked(IF t > hi THEN hi ELSE lo) ELSE INTEGER_OVERFLOW
      ELSE Masked(t)

----------------------------------------------------------------------------
(* machine.py, _exec_instr, the float instructions: [t, op], with the type *)
(* and the signedness of the other operand in "from" and "signed".         *)
Arithmetic == {"add", "sub", "mul", "div"}
Rounding == {"ceil", "floor", "trunc", "nearest"}
Comparison == {"eq", "ne", "lt", "gt", "le", "ge"}

_exec_instr(ins, stack) ==
  LET F == Format(ins.t)
      x == stack[1]
      y == stack[2]
  IN  CASE ins.op \in Arithmetic -> Value(binop(F, ins.op, x, y))
        [] ins.op \in {"min", "max"} -> Value(minmax(F, ins.op, x, y))
        [] ins.op \in Comparison -> Value(IF cmp(F, ins.op, x, y) THEN 1 ELSE 0)
        [] ins.op = "copysign" -> Value(copysign(F, x, y))
        [] ins.op = "abs" -> Value(abs(F, x))
        [] ins.op = "neg" -> Value(neg(F, x))
        [] ins.op = "sqrt" -> Value(sqrt(F, x))
        [] ins.op \in Rounding -> Value(round(F, ins.op, x))
        [] ins.op = "promote" -> Value(recode(F32, F64, x))
        [] ins.op = "demote" -> Value(recode(F64, F32, x))
        [] ins.op = "convert" -> Value(convert(ins.t, ins.from, ins.signed, x))
        [] ins.op = "truncate" -> _trunc(ins.t, ins.signed, b2f(Format(ins.from), x), ins.sat)

Start(ins, stack) ==
  input = [ins |-> ins, stack |-> stack] /\ answer = FTrap("not yet")

Execute ==
  /\ answer = FTrap("not yet")
  /\ answer' = _exec_instr(input.ins, input.stack)
  /\ UNCHANGED input
=============================================================================
