------------------------------- MODULE IntOps -------------------------------
(***************************************************************************)
(* The integer instructions of interp5/machine.py, and those of            *)
(* interp/machine.py with interp/values.py, which M5 promises to repeat.   *)
(* Values are unsigned, of I32Bits bits for an i32 and of twice as many    *)
(* for an i64; the widths of the sign extensions shrink in proportion.     *)
(* Python's masks are remainders, its shifts divisions by powers of two,   *)
(* which for a negative number round down as >> does.                      *)
(***************************************************************************)
EXTENDS Integers, Sequences, FiniteSets

CONSTANT I32Bits      \* bits of an i32

(* The narrowest sign extension is of a quarter of an i32.                 *)
ASSUME WidthAssumption == I32Bits \in Nat \ {0} /\ I32Bits % 4 = 0

VARIABLES input,    \* [ins, stack]: t.rest as [t, rest]; the stack's top is last
          answer,   \* what the M5 machine leaves: a value or a trap
          frozen    \* what the frozen machine leaves

vars == <<input, answer, frozen>>

Value(n) == [trap |-> "none", value |-> n]
Trap(kind) == [trap |-> kind, value |-> 0]
DIV_ZERO == Trap("integer divide by zero")
OVERFLOW == Trap("integer overflow")

Bits(t) == IF t = "i32" THEN I32Bits ELSE 2 * I32Bits
SubWidth(rest) == CASE rest = "extend8_s" -> I32Bits \div 4
                    [] rest = "extend16_s" -> I32Bits \div 2
                    [] rest = "extend32_s" -> I32Bits
Magnitude(n) == IF n < 0 THEN -n ELSE n
Flag(cond) == IF cond THEN 1 ELSE 0
Mask(bits, v) == v % 2^bits
bit_length(v) == CHOOSE n \in 0..(2 * I32Bits) : v < 2^n /\ (n = 0 \/ v >= 2^(n - 1))
Bit(v, i) == (v \div 2^i) % 2
bit_count(v) == Cardinality({i \in 0..(2 * I32Bits - 1) : Bit(v, i) = 1})

(* Python's &, | and ^ of two numbers below 2^n: which of 0, 1 and 2 ones  *)
(* at a position make a one.                                               *)
Combined(n, ones, a, b) ==
  LET low[k \in 0..n] ==
        IF k = 0 THEN 0
        ELSE low[k - 1] + 2^(k - 1) * Flag(Bit(a, k - 1) + Bit(b, k - 1) \in ones)
  IN  low[n]
And == {2}
Or == {1, 2}
Xor == {1}

----------------------------------------------------------------------------
(* interp5/machine.py                                                      *)
_to_signed(bits, v) == IF (v \div 2^(bits - 1)) % 2 = 1 THEN v - 2^bits ELSE v
_to_unsigned(bits, v) == Mask(bits, v)

_IBINOPS == {"add", "sub", "mul", "div_s", "div_u", "rem_s", "rem_u", "and", "or", "xor",
             "shl", "shr_s", "shr_u", "rotl", "rotr"}
_ICMPS == {"eq", "ne", "lt_s", "lt_u", "gt_s", "gt_u", "le_s", "le_u", "ge_s", "ge_u"}

\* Mutant: the quotient rounds down, as Python's does.
div_s_floor(bits, a, b) ==
  LET sa == _to_signed(bits, a)
      sb == _to_signed(bits, b)
  IN  IF sb = 0 THEN DIV_ZERO
      ELSE IF sa = -(2^(bits - 1)) /\ sb = -1 THEN OVERFLOW
      ELSE Value(_to_unsigned(bits, IF sb < 0 THEN (-sa) \div (-sb) ELSE sa \div sb))

div_s(bits, a, b) ==
  LET sa == _to_signed(bits, a)
      sb == _to_signed(bits, b)
      q == Magnitude(sa) \div Magnitude(sb)
  IN  IF sb = 0 THEN DIV_ZERO
      ELSE IF sa = -(2^(bits - 1)) /\ sb = -1 THEN OVERFLOW
      ELSE Value(_to_unsigned(bits, IF (sa < 0) # (sb < 0) THEN -q ELSE q))

rem_s(bits, a, b) ==
  LET sa == _to_signed(bits, a)
      sb == _to_signed(bits, b)
      r == Magnitude(sa) % Magnitude(sb)
  IN  IF sb = 0 THEN DIV_ZERO ELSE Value(_to_unsigned(bits, IF sa < 0 THEN -r ELSE r))

rotate(bits, a, left, right) ==
  IF left % bits = 0 THEN a ELSE Mask(bits, Combined(2 * bits, Or, a * 2^left, a \div 2^right))

ShiftCount(bits, b) == b % bits

_ibinop(bits, op, a, b) ==
  LET k == ShiftCount(bits, b)
  IN  CASE op = "add" -> Value(Mask(bits, a + b))
        [] op = "sub" -> Value(Mask(bits, a - b))
        [] op = "mul" -> Value(Mask(bits, a * b))
        [] op = "and" -> Value(Combined(bits, And, a, b))
        [] op = "or" -> Value(Combined(bits, Or, a, b))
        [] op = "xor" -> Value(Combined(bits, Xor, a, b))
        [] op = "shl" -> Value(Mask(bits, a * 2^k))
        [] op = "shr_u" -> Value(a \div 2^k)
        [] op = "shr_s" -> Value(_to_unsigned(bits, _to_signed(bits, a) \div 2^k))
        [] op = "rotl" -> Value(rotate(bits, a, k, bits - k))
        [] op = "rotr" -> Value(rotate(bits, a, bits - k, k))
        [] op = "div_u" -> IF b = 0 THEN DIV_ZERO ELSE Value(Mask(bits, a \div b))
        [] op = "rem_u" -> IF b = 0 THEN DIV_ZERO ELSE Value(a % b)
        [] op = "div_s" -> div_s(bits, a, b)
        [] op = "rem_s" -> rem_s(bits, a, b)

SignedOrder(bits, op, a, b) ==
  LET sa == _to_signed(bits, a)
      sb == _to_signed(bits, b)
  IN  Flag([lt_s |-> sa < sb, gt_s |-> sa > sb, le_s |-> sa <= sb, ge_s |-> sa >= sb][op])

_icompare(bits, op, a, b) ==
  CASE op \in {"eq", "ne"} -> Flag((a = b) <=> (op = "eq"))
    [] op \in {"lt_u", "gt_u", "le_u", "ge_u"} ->
         Flag([lt_u |-> a < b, gt_u |-> a > b, le_u |-> a <= b, ge_u |-> a >= b][op])
    [] OTHER -> SignedOrder(bits, op, a, b)

clz(bits, v) == IF v = 0 THEN bits ELSE bits - bit_length(v)

(* v & -v, of v's low bits, is its lowest bit.                             *)
ctz(bits, v) == IF v = 0 THEN bits ELSE bit_length(Combined(bits, And, v, Mask(bits, -v))) - 1

extend_s(bits, narrow, v) == _to_unsigned(bits, _to_signed(narrow, Mask(narrow, v)))

Converted(t, rest, v) ==
  CASE rest = "wrap_i64" -> Mask(I32Bits, v)
    [] rest = "extend_i32_s" -> extend_s(2 * I32Bits, I32Bits, v)
    [] rest = "extend_i32_u" -> Mask(I32Bits, v)
    [] OTHER -> extend_s(Bits(t), SubWidth(rest), v)

(* _exec_instr, its integer part: the second operand is on top.            *)
_exec_instr(ins, stack) ==
  LET bits == Bits(ins.t)
      top == stack[Len(stack)]
      v == Mask(bits, top)
  IN  CASE ins.rest \in _IBINOPS -> _ibinop(bits, ins.rest, Mask(bits, stack[1]), v)
        [] ins.rest \in _ICMPS -> Value(_icompare(bits, ins.rest, Mask(bits, stack[1]), v))
        [] ins.rest = "eqz" -> Value(Flag(v = 0))
        [] ins.rest = "clz" -> Value(clz(bits, v))
        [] ins.rest = "ctz" -> Value(ctz(bits, v))
        [] ins.rest = "popcnt" -> Value(bit_count(v))
        [] OTHER -> Value(Converted(ins.t, ins.rest, top))

----------------------------------------------------------------------------
(* interp/values.py, interp/machine.py.  What is written alike in both     *)
(* machines is one definition here.                                        *)
to_signed(bits, v) ==
  LET low == Mask(bits, v) IN IF (low \div 2^(bits - 1)) % 2 = 1 THEN low - 2^bits ELSE low

\* Mutant: the correction is made whatever the signs.
trunc_div_signs(a, b) ==
  LET q == IF b < 0 THEN (-a) \div (-b) ELSE a \div b
  IN  IF q * b # a THEN q + 1 ELSE q

(* Python's floor quotient, corrected when it is inexact and negative.     *)
trunc_div(a, b) ==
  LET q == IF b < 0 THEN (-a) \div (-b) ELSE a \div b
  IN  IF q * b # a /\ ((a < 0) # (b < 0)) THEN q + 1 ELSE q

frozen_div_s(bits, a, b) ==
  LET sa == to_signed(bits, a)
      sb == to_signed(bits, b)
  IN  IF sb = 0 THEN DIV_ZERO
      ELSE IF sa = -(2^(bits - 1)) /\ sb = -1 THEN OVERFLOW
      ELSE Value(Mask(bits, trunc_div(sa, sb)))

_binop(bits, op, a, b) ==
  CASE op = "div_s" -> frozen_div_s(bits, a, b)
    [] op = "shr_s" -> Value(Mask(bits, to_signed(bits, a) \div 2^(b % bits)))
    [] OTHER -> _ibinop(bits, op, a, b)

(* All ten comparisons are computed, one is taken.                         *)
_compare(bits, op, a, b) ==
  LET sa == to_signed(bits, a)
      sb == to_signed(bits, b)
  IN  Flag([eq |-> a = b, ne |-> a # b,
            lt_u |-> a < b, gt_u |-> a > b, le_u |-> a <= b, ge_u |-> a >= b,
            lt_s |-> sa < sb, gt_s |-> sa > sb, le_s |-> sa <= sb, ge_s |-> sa >= sb][op])

_convert(t, rest, v) ==
  CASE rest \in {"wrap_i64", "extend_i32_u"} -> Mask(I32Bits, v)
    [] rest = "extend_i32_s" -> Mask(2 * I32Bits, to_signed(I32Bits, v))
    [] OTHER -> Mask(Bits(t), to_signed(SubWidth(rest), v))

frozen_instr(ins, stack) ==
  LET bits == Bits(ins.t)
      top == stack[Len(stack)]
  IN  CASE ins.rest \in _IBINOPS ->
             _binop(bits, ins.rest, Mask(bits, stack[1]), Mask(bits, top))
        [] ins.rest \in _ICMPS ->
             Value(_compare(bits, ins.rest, Mask(bits, stack[1]), Mask(bits, top)))
        [] ins.rest = "eqz" -> Value(Flag(Mask(bits, top) = 0))
        [] ins.rest = "clz" -> Value(clz(bits, Mask(bits, top)))
        [] ins.rest = "ctz" -> Value(ctz(bits, Mask(bits, top)))
        [] ins.rest = "popcnt" -> Value(bit_count(Mask(bits, top)))
        [] OTHER -> Value(_convert(ins.t, ins.rest, top))

----------------------------------------------------------------------------
Start(ins, stack) ==
  /\ input = [ins |-> ins, stack |-> stack]
  /\ answer = Trap("not yet") /\ frozen = Trap("not yet")

Execute ==
  /\ answer = Trap("not yet")
  /\ answer' = _exec_instr(input.ins, input.stack)
  /\ frozen' = frozen_instr(input.ins, input.stack)
  /\ UNCHANGED input
=============================================================================
