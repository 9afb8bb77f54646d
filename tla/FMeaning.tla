----------------------------- MODULE FMeaning -----------------------------
(* What the float instructions mean on the extended reals, without the     *)
(* wide format they are computed in.                                       *)
EXTENDS FValues

Types == {"f32", "f64"}
Ins(t, op) == [t |-> t, op |-> op]
AllInstrs ==
  {Ins(t, op) : t \in Types, op \in Arithmetic \cup Comparison \cup Rounding
                                    \cup {"min", "max", "copysign", "abs", "neg", "sqrt"}}
  \cup {Ins("f64", "promote"), Ins("f32", "demote")}
  \cup [t : Types, op : {"convert"}, from : {"i32", "i64"}, signed : BOOLEAN]
  \cup [t : {"i32", "i64"}, op : {"truncate"}, from : Types, signed : BOOLEAN, sat : BOOLEAN]

\* Every operand an instruction can find, of its own type or of the one it converts.
Patterns(fmt) == 0..(2 * SIGN(fmt) - 1)
Operands(t) == IF t \in Types THEN Patterns(Format(t)) ELSE 0..(2^Width(t) - 1)
OperandsOf(ins) ==
  IF ins.op \in Arithmetic \cup Comparison \cup {"min", "max", "copysign"}
  THEN Operands(ins.t) \X Operands(ins.t)
  ELSE {<<b>> : b \in Operands(CASE ins.op = "promote" -> "f32" [] ins.op = "demote" -> "f64"
                                 [] ins.op \in {"convert", "truncate"} -> ins.from
                                 [] OTHER -> ins.t)}

Init == \E ins \in AllInstrs : \E stack \in OperandsOf(ins) : Start(ins, stack)
Spec == Init /\ [][Execute]_vars

----------------------------------------------------------------------------
Done == answer # FTrap("not yet")
Is(ops) == Done /\ input.ins.op \in ops
F == Format(input.ins.t)
From == IF input.ins.op = "promote" THEN F32 ELSE IF input.ins.op = "demote" THEN F64
        ELSE IF input.ins.op = "truncate" THEN Format(input.ins.from) ELSE F
x1 == b2f(From, input.stack[1])
y1 == b2f(From, input.stack[2])
r == answer.value
Result == b2f(F, r)

\* A bit pattern of the result's format, a truth value, an integer or a trap.
TypeOK ==
  Done => \/ /\ answer.trap = "none" /\ ~Is(Comparison \cup {"truncate"})
             /\ r \in Patterns(F)
          \/ answer.trap = "none" /\ Is(Comparison) /\ r \in {0, 1}
          \/ answer.trap = "none" /\ Is({"truncate"}) /\ r \in 0..(2^Width(input.ins.t) - 1)
          \/ Is({"truncate"}) /\ answer \in {INVALID_CONVERSION, INTEGER_OVERFLOW}

Bias(fmt) == 2^(fmt.e - 1) - 1

(* bits has the magnitude nearest to m * 2^q, of two the even one: it is   *)
(* between the middles to its neighbours.                                  *)
Middle(fmt, bits) ==
  LET exp == bits \div 2^(fmt.p - 1)
      frac == bits % 2^(fmt.p - 1)
      m == IF exp = 0 THEN frac ELSE frac + 2^(fmt.p - 1)
  IN  [m |-> 2 * m + 1, q |-> (IF exp = 0 THEN 1 ELSE exp) - Bias(fmt) - fmt.p]
NearestTo(fmt, x, bits) ==
  LET Against(b) == Cmp(x.m, x.q, Middle(fmt, b).m, Middle(fmt, b).q)
      even == bits % 2 = 0
  IN  /\ bits # 0 => Against(bits - 1) > 0 \/ (Against(bits - 1) = 0 /\ even)
      /\ bits # EXP(fmt) => Against(bits) < 0 \/ (Against(bits) = 0 /\ even)

Division == Is({"div"}) /\ iszero(y1)
Operand == Integer(IF input.ins.signed THEN Signed(Width(input.ins.from), input.stack[1])
               ELSE input.stack[1])
Mathematical ==
  CASE Is(Arithmetic) -> Exact(input.ins.op, x1, y1)
    [] Is({"sqrt"}) -> Root(x1)
    [] Is({"promote", "demote"}) -> x1
    [] Is({"convert"}) -> Operand
Undefined ==
  \/ Is(Arithmetic \cup {"min", "max"}) /\ (isnan(x1) \/ isnan(y1))
  \/ Is(Arithmetic) /\ ~Division /\ isnan(Exact(input.ins.op, x1, y1))
  \/ Division /\ iszero(x1)
  \/ Is(Rounding \cup {"sqrt", "promote", "demote"}) /\ isnan(x1)
  \/ Is({"sqrt"}) /\ x1.neg /\ ~iszero(x1)

(* Every operation is its exact result rounded once to the format of the   *)
(* result, although an f32 operation is rounded to an f64 before, and an   *)
(* i64 does not fit one.                                                   *)
RoundsOnce ==
  Is(Arithmetic \cup {"sqrt", "promote", "demote", "convert"}) /\ ~Undefined /\ ~Division =>
    LET x == Mathematical
    IN  /\ (r >= SIGN(F)) = x.neg
        /\ IF isinf(x) THEN Abs(F, r) = EXP(F) ELSE NearestTo(F, x, Abs(F, r))

(* A NaN comes out exactly where there is no result, and is the canonical  *)
(* one whatever came in, so that it also passes for an arithmetic one.     *)
CanonicalNaNs ==
  Is(Arithmetic \cup Rounding \cup {"min", "max", "sqrt", "promote", "demote"}) =>
    /\ is_nan(F, r) = Undefined
    /\ Undefined => r = CANON_NAN(F) /\ is_canonical_nan(F, r) /\ is_arithmetic_nan(F, r)

(* A number divided by a zero is an infinity with the sign of the product. *)
DividesByZero ==
  Division /\ ~Undefined =>
    Result = Inf((input.stack[1] >= SIGN(F)) # (input.stack[2] >= SIGN(F)))

(* min and max pick the operand that is first or last where -0 is before   *)
(* +0, whichever side it is on.                                            *)
MinMaxOrderZeros ==
  LET Key(bits) == IF bits >= SIGN(F) THEN -(Abs(F, bits)) - 1 ELSE bits
      k == Key(input.stack[1])
      l == Key(input.stack[2])
  IN  Is({"min", "max"}) /\ ~Undefined =>
        /\ r \in {input.stack[1], input.stack[2]}
        /\ Key(r) = IF input.ins.op = "min" THEN (IF k < l THEN k ELSE l)
                    ELSE (IF k > l THEN k ELSE l)

(* abs, neg and copysign change the sign bit and nothing else, of a NaN    *)
(* as of a number.                                                         *)
SignOpsKeepPayloads ==
  LET s == r >= SIGN(F)
      s1 == input.stack[1] >= SIGN(F)
  IN  Is({"abs", "neg", "copysign"}) =>
        /\ Abs(F, r) = Abs(F, input.stack[1])
        /\ s = CASE input.ins.op = "abs" -> FALSE [] input.ins.op = "neg" -> ~s1
                 [] input.ins.op = "copysign" -> input.stack[2] >= SIGN(F)

(* Rounding to an integer gives an integer in this format, on the side of  *)
(* the argument it should be, at most a half from it for nearest, and of   *)
(* the argument's sign, down to the sign of zero.                          *)
RoundsToIntegers ==
  LET res == Result
      diff == Sum(x1, [res EXCEPT !.neg = ~res.neg])
      op == input.ins.op
  IN  Is(Rounding) /\ x1.kind = "num" =>
        /\ res.kind = "num" /\ res.neg = x1.neg
        /\ res.m # 0 /\ res.q < 0 => res.m % 2^(-res.q) = 0
        /\ Cmp(diff.m, diff.q, 1, 0) < 0
        /\ diff.m # 0 => /\ op = "ceil" => diff.neg
                         /\ op = "floor" => ~diff.neg
                         /\ op = "trunc" => diff.neg = x1.neg
                         /\ op = "nearest" => Cmp(diff.m, diff.q, 1, -1) <= 0

(* With a NaN every comparison is false but ne; without, exactly one of    *)
(* lt, eq, gt holds, as the bit patterns are ordered, both zeros alike.    *)
ComparisonsOrder ==
  LET Key(bits) == IF bits >= SIGN(F) THEN -(Abs(F, bits)) ELSE bits
      k == Key(input.stack[1])
      l == Key(input.stack[2])
      op == input.ins.op
  IN  Is(Comparison) =>
        (r = 1) = IF isnan(x1) \/ isnan(y1) THEN op = "ne"
                  ELSE \/ k < l /\ op \in {"lt", "le", "ne"}
                       \/ k = l /\ op \in {"eq", "le", "ge"}
                       \/ k > l /\ op \in {"gt", "ge", "ne"}

(* A truncation gives the integer part when the type has it: a fraction    *)
(* beyond the last integer still fits.  Otherwise it traps, for a NaN with *)
(* a text of its own, or saturates at the end of the type's range.         *)
TruncatesOrTraps ==
  LET lo == Low(input.ins.t, input.ins.signed)
      hi == High(input.ins.t, input.ins.signed)
      bits == 2^Width(input.ins.t)
      fits == ~isinf(x1) /\ Less(x1, Integer(hi + 1)) /\ Less(Integer(lo - 1), x1)
  IN  Is({"truncate"}) =>
        IF isnan(x1) THEN answer = IF input.ins.sat THEN Value(0) ELSE INVALID_CONVERSION
        ELSE IF fits
        THEN /\ answer.trap = "none"
             /\ \E n \in lo..hi :
                  /\ r = n % bits
                  /\ IF x1.neg THEN ~Less(x1, Integer(n - 1)) /\ ~Equal(x1, Integer(n - 1)) /\ ~Less(Integer(n), x1)
                     ELSE ~Less(x1, Integer(n)) /\ Less(x1, Integer(n + 1))
        ELSE answer = IF input.ins.sat THEN Value((IF x1.neg THEN lo ELSE hi) % bits)
                      ELSE INTEGER_OVERFLOW

(* What is not a matter of rounding: NaNs, infinities, the sign of zero,   *)
(* and the order of bit patterns.                                          *)
SpecialValues ==
  /\ TypeOK /\ CanonicalNaNs /\ DividesByZero /\ MinMaxOrderZeros
  /\ SignOpsKeepPayloads /\ ComparisonsOrder

(* From floats to integers: rounding in the format, and truncating out of  *)
(* it.                                                                     *)
ToIntegers == RoundsToIntegers /\ TruncatesOrTraps
=============================================================================
