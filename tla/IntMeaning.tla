------------------------------ MODULE IntMeaning ------------------------------
(* What the integer instructions mean, bit by bit or on the integers they  *)
(* stand for.                                                              *)
EXTENDS IntOps

Unary == {"eqz", "clz", "ctz", "popcnt", "extend8_s", "extend16_s"}
AllInstrs ==
  [t : {"i32", "i64"}, rest : _IBINOPS \cup _ICMPS \cup Unary]
  \cup [t : {"i64"}, rest : {"extend32_s", "extend_i32_s", "extend_i32_u"}]
  \cup [t : {"i32"}, rest : {"wrap_i64"}]

\* Every operand an instruction can find, of its own type or of the one it converts.
Operand(t) == 0..(2^Bits(t) - 1)
OperandsOf(ins) ==
  IF ins.rest \in _IBINOPS \cup _ICMPS THEN Operand(ins.t) \X Operand(ins.t)
  ELSE {<<v>> : v \in Operand(CASE ins.rest \in {"extend_i32_s", "extend_i32_u"} -> "i32"
                                [] ins.rest = "wrap_i64" -> "i64"
                                [] OTHER -> ins.t)}

Init == \E ins \in AllInstrs : \E stack \in OperandsOf(ins) : Start(ins, stack)
Spec == Init /\ [][Execute]_vars

----------------------------------------------------------------------------
Done == answer.trap # "not yet"
Is(ops) == Done /\ input.ins.rest \in ops
W == Bits(input.ins.t)
a1 == input.stack[1]
b1 == input.stack[2]
r == answer.value

Meant(bits, v) == IF v >= 2^(bits - 1) THEN v - 2^bits ELSE v

\* A value of the result's width, or a trap of a division.
TypeOK ==
  Done => \/ answer.trap = "none" /\ r \in 0..(2^W - 1)
          \/ Is({"div_s", "div_u", "rem_s", "rem_u"}) /\ answer \in {DIV_ZERO, OVERFLOW}

(* add, sub and mul leave the sum, the difference and the product but for  *)
(* a multiple of 2^W, whether the bits are read without or with a sign.    *)
Congruent(x, y) == (x - y) % 2^W = 0
Wraps(x, y, z) == /\ Is({"add"}) => Congruent(x + y, z)
                  /\ Is({"sub"}) => Congruent(x - y, z)
                  /\ Is({"mul"}) => Congruent(x * y, z)
ArithmeticWraps == Wraps(a1, b1, r) /\ Wraps(Meant(W, a1), Meant(W, b1), Meant(W, r))

(* and, or and xor are those of the bits at each position.                 *)
LogicIsBitwise ==
  \A i \in 0..(W - 1) :
    LET x == Bit(a1, i) = 1
        y == Bit(b1, i) = 1
        z == Bit(r, i) = 1
    IN  /\ Is({"and"}) => (z <=> x /\ y)
        /\ Is({"or"}) => (z <=> x \/ y)
        /\ Is({"xor"}) => (z <=> ~(x <=> y))

(* A signed division traps exactly when its quotient does not exist or     *)
(* does not fit, a remainder only for a zero divisor; otherwise quotient   *)
(* and remainder are those of division toward zero.                        *)
DivisionTruncates ==
  /\ Is({"div_s", "rem_s", "div_u", "rem_u"}) /\ b1 = 0 => answer = DIV_ZERO
  /\ LET x == Meant(W, a1)
         y == Meant(W, b1)
     IN  /\ Is({"div_s"}) /\ b1 # 0 =>
              IF x = -(2^(W - 1)) /\ y = -1 THEN answer = OVERFLOW
              ELSE LET rest == x - Meant(W, r) * y
                   IN  /\ answer.trap = "none" /\ Magnitude(rest) < Magnitude(y)
                       /\ rest # 0 => (rest < 0 <=> x < 0)
         /\ Is({"rem_s"}) /\ b1 # 0 =>
              /\ answer.trap = "none" /\ Magnitude(Meant(W, r)) < Magnitude(y)
              /\ \E q \in -(2^W)..(2^W) : x = q * y + Meant(W, r)
              /\ r # 0 => (Meant(W, r) < 0 <=> x < 0)
  /\ Is({"div_u"}) /\ b1 # 0 => a1 - r * b1 \in 0..(b1 - 1)
  /\ Is({"rem_u"}) /\ b1 # 0 => r < b1 /\ \E q \in 0..a1 : a1 = q * b1 + r

(* Shifts and rotations move each bit by the count modulo the width, and   *)
(* fill with zeros, with the sign, or with the bits that fall out.         *)
ShiftsMoveBits ==
  LET k == b1 % W
      From(i) == CASE input.ins.rest = "shl" -> IF i < k THEN 0 ELSE Bit(a1, i - k)
                   [] input.ins.rest = "shr_u" -> IF i + k >= W THEN 0 ELSE Bit(a1, i + k)
                   [] input.ins.rest = "shr_s" -> Bit(a1, IF i + k >= W THEN W - 1 ELSE i + k)
                   [] input.ins.rest = "rotl" -> Bit(a1, (i - k) % W)
                   [] input.ins.rest = "rotr" -> Bit(a1, (i + k) % W)
  IN  Is({"shl", "shr_u", "shr_s", "rotl", "rotr"}) => \A i \in 0..(W - 1) : Bit(r, i) = From(i)

(* clz, ctz and popcnt count the bits they say, of zero as of any value.   *)
CountsTheBits ==
  /\ Is({"clz"}) => /\ r \in 0..W /\ \A i \in (W - r)..(W - 1) : Bit(a1, i) = 0
                    /\ r < W => Bit(a1, W - 1 - r) = 1
  /\ Is({"ctz"}) => /\ r \in 0..W /\ \A i \in 0..(r - 1) : Bit(a1, i) = 0
                    /\ r < W => Bit(a1, r) = 1
  /\ Is({"popcnt"}) => r = Cardinality({i \in 0..(W - 1) : Bit(a1, i) = 1})

(* A signed comparison orders the integers the bits stand for, an unsigned *)
(* one the bits.                                                           *)
Ordered(op, x, y) == \/ op \in {"lt_s", "lt_u", "le_s", "le_u", "ne"} /\ x < y
                     \/ op \in {"gt_s", "gt_u", "ge_s", "ge_u", "ne"} /\ x > y
                     \/ op \in {"eq", "le_s", "le_u", "ge_s", "ge_u"} /\ x = y
ComparisonsOrder ==
  LET op == input.ins.rest
  IN  Is(_ICMPS) => (r = 1 <=> IF op \in {"lt_s", "gt_s", "le_s", "ge_s"}
                               THEN Ordered(op, Meant(W, a1), Meant(W, b1))
                               ELSE Ordered(op, a1, b1))

(* A signed extension keeps the integer its low bits stand for.            *)
ExtensionsKeepTheValue ==
  LET from == IF input.ins.rest = "extend_i32_s" THEN I32Bits ELSE SubWidth(input.ins.rest)
  IN  Is({"extend_i32_s", "extend8_s", "extend16_s", "extend32_s"}) =>
        Meant(W, r) = Meant(from, a1 % 2^from)

(* eqz tells zero; a zero extension keeps the number, and a wrap the bits  *)
(* it has room for.                                                        *)
BitsAreKept ==
  /\ Is({"eqz"}) => (r = 1 <=> a1 = 0)
  /\ Is({"extend_i32_u"}) => r = a1
  /\ Is({"wrap_i64"}) => \A i \in 0..(W - 1) : Bit(r, i) = Bit(a1, i)

(* Every instruction is the mathematics it stands for: each is in one of   *)
(* these parts, and TypeOK says that an answer is a value unless a division*)
(* traps.                                                                  *)
IntegersExact ==
  /\ TypeOK /\ ArithmeticWraps /\ LogicIsBitwise /\ DivisionTruncates /\ ShiftsMoveBits
  /\ CountsTheBits /\ ComparisonsOrder /\ ExtensionsKeepTheValue /\ BitsAreKept

(* The M5 instructions are the frozen ones, trap for trap.                 *)
FrozenSame == answer = frozen
=============================================================================
