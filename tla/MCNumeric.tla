----------------------------- MODULE MCNumeric -----------------------------
(***************************************************************************)
(* One numeric instruction: an integer instruction on both machines, or a  *)
(* float instruction, on operands that reach every edge of its types.      *)
(***************************************************************************)
EXTENDS Numeric

VARIABLE core                    \* which core executes: "int" or "float"

\* Every i32 operand, and every i64 one beside the edges of the width.
Edges == LET n == 2 * I32Bits
         IN  {0, 1, 2, 3, n - 1, n, n + 1, 2^(n - 1) - 1, 2^(n - 1), 2^(n - 1) + 1,
              2^n - 3, 2^n - 2, 2^n - 1}
Reached(ins) == IF ins.t = "i64" /\ ins.rest \in _IBINOPS \cup _ICMPS
                THEN Operand("i64") \X Edges
                ELSE OperandsOf(ins)

F32 == FP!F32
F64 == FP!F64
\* Every f32; of the f64s every significand with the exponents around one, of
\* the integer types' edges, of the subnormals and of the largest numbers.
EdgesF64 ==
  LET one == FP!Bias(F64)
  IN  {s + e * 2^(P2 - 1) + f :
         s \in {0, FP!SIGN(F64)}, f \in 0..(2^(P2 - 1) - 1),
         e \in {0, one - 2, one - 1, one, one + W32 - 1, one + W64 - 1, one + W64, 2^E2 - 1}}
\* An operand beside those: both signs of zero, the smallest number, one and
\* its neighbours, the largest number, the infinity, a signalling and a quiet NaN.
Special(fmt) ==
  LET one == FP!Bias(fmt) * 2^(fmt.p - 1)
      canonical == FP!CANON_NAN(fmt)
      inf == FP!EXP(fmt)
  IN  {s + b : s \in {0, FP!SIGN(fmt)},
               b \in {0, 1, one - 1, one, one + 1, one + 3 * 2^(fmt.p - 2), inf - 1, inf,
                      inf + 1, canonical, canonical + 1}}
Some == Special(F32) \cup {b \in FP!Patterns(F32) : b % 7 = 3}

FloatReached(ins) ==
  LET Own(t) == IF t = "f64" THEN EdgesF64 ELSE FP!Operands(t)
      First  == IF ins.t = "f64" THEN Special(F64) ELSE FP!Patterns(F32)
      Second == IF ins.t = "f64" THEN Special(F64)
                ELSE IF ins.op \in FP!Arithmetic THEN First ELSE Some
  IN  IF ins.op \in FP!Arithmetic \cup FP!Comparison \cup {"min", "max", "copysign"}
      THEN First \X Second
      ELSE {<<b>> : b \in Own(CASE ins.op = "promote" -> "f32" [] ins.op = "demote" -> "f64"
                                [] ins.op \in {"convert", "truncate"} -> ins.from
                                [] OTHER -> ins.t)}

Idle == [ins |-> [t |-> "none"], stack |-> <<>>]

IntInit == /\ core = "int" /\ finput = Idle /\ fanswer = FP!FTrap("not yet")
           /\ \E ins \in AllInstrs : \E stack \in Reached(ins) : Start(ins, stack)
FloatInit == /\ core = "float" /\ input = Idle
             /\ answer = Trap("not yet") /\ frozen = Trap("not yet")
             /\ \E ins \in FP!AllInstrs : \E stack \in FloatReached(ins) :
                  FP!Start(ins, stack)

IntStep   == core = "int" /\ Execute /\ UNCHANGED <<core, fvars>>
FloatStep == core = "float" /\ FP!Execute /\ UNCHANGED <<core, vars>>

NumericSpec == (IntInit \/ FloatInit) /\ [][IntStep \/ FloatStep]_<<core, vars, fvars>>
=============================================================================
