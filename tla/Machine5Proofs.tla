--------------------------- MODULE Machine5Proofs ---------------------------
(***************************************************************************)
(* The stack discipline of module Validator5, for every set of             *)
(* instructions, block types and value types; then, for every set of       *)
(* instructions of the frozen surface, that the two validators of module   *)
(* Validator1 agree.  On it rests the second half: the machine runs a body *)
(* as it was validated; whatever way it goes, the operand stack before     *)
(* each instruction has the types the validator had there, so no operand   *)
(* is ever missing or of another type, and a branch leaves what its label  *)
(* says.  For bodies of every length and nesting.                          *)
(***************************************************************************)
EXTENDS Machine5, Validator1, FiniteSetTheorems, TLAPS

Vals == ValTypes \cup {Unknown}
Frame == [opcode : Opcodes, start_types : Seq(ValTypes),
          end_types : Seq(ValTypes), height : Nat, unreachable : BOOLEAN]

\* What else the induction needs: the function's frame keeps its results,
\* and when it has been closed they are all that is on the value stack.
Whole ==
  /\ ctrls # <<>> => ctrls[1].end_types = FuncResults
  /\ ctrls = <<>> => vals = FuncResults
  /\ verdict = "accepted" => ctrls = <<>>

Inv == VTypeOK /\ Nested /\ Whole

(* A prefix of a sequence. *)
LEMMA SubSeqFacts ==
  ASSUME NEW S, NEW s \in Seq(S), NEW n \in 0..Len(s)
  PROVE  /\ SubSeq(s, 1, n) \in Seq(S)
         /\ Len(SubSeq(s, 1, n)) = n
         /\ \A i \in 1..n : SubSeq(s, 1, n)[i] = s[i]
  OBVIOUS

(* A concatenation. *)
LEMMA ConcatFacts ==
  ASSUME NEW S, NEW s \in Seq(S), NEW t \in Seq(S)
  PROVE  s \o t \in Seq(S) /\ Len(s \o t) = Len(s) + Len(t)
  OBVIOUS

(* The innermost frame is a frame, and lies within the value stack.        *)
LEMMA InnermostFacts ==
  ASSUME Inv, ctrls # <<>>
  PROVE  /\ Len(ctrls) \in Nat /\ Len(ctrls) >= 1
         /\ innermost \in Frame
         /\ Len(vals) \in Nat /\ innermost.height \in Nat
         /\ innermost.height <= Len(vals)
         /\ innermost.start_types \in Seq(ValTypes)
         /\ innermost.end_types \in Seq(ValTypes)
<1>1. ctrls \in Seq(Frame) /\ Len(vals) \in Nat /\ Len(ctrls) \in Nat
  BY DEF Inv, VTypeOK, Frame
<1>2. Len(ctrls) >= 1
  BY <1>1
<1>3. innermost \in Frame
  BY <1>1, <1>2 DEF innermost
<1>4. innermost.height <= Len(vals)
  BY DEF Inv, Nested
<1>5. innermost.height \in Nat /\ innermost.start_types \in Seq(ValTypes)
      /\ innermost.end_types \in Seq(ValTypes)
  BY <1>3 DEF Frame
<1> QED BY <1>1, <1>2, <1>3, <1>4, <1>5

(* A pop never reaches below the height of the innermost frame.            *)
LEMMA PoppedFacts ==
  ASSUME Inv, ctrls # <<>>, NEW n \in Nat
  PROVE  /\ Popped(n) \in Seq(Vals) /\ Len(Popped(n)) \in Nat
         /\ innermost.height <= Len(Popped(n))
<1>1. innermost.height \in 0..Len(vals) /\ Len(vals) \in Nat
  BY InnermostFacts
<1> DEFINE k == IF n <= Available THEN Len(vals) - n ELSE innermost.height
<1>2. k \in innermost.height..Len(vals) /\ k \in 0..Len(vals)
  BY <1>1 DEF Available
<1>3. vals \in Seq(Vals)
  BY DEF Inv, VTypeOK, Vals
<1>4. Popped(n) = SubSeq(vals, 1, k)
  BY DEF Popped
<1> HIDE DEF k
<1> QED BY <1>2, <1>3, <1>4, SubSeqFacts

(* A step that leaves the frames alone and the value stack at or above the *)
(* innermost one's height.                                                 *)
LEMMA SameFrames ==
  ASSUME Inv, ctrls # <<>>, verdict = "validating", UNCHANGED <<ctrls, verdict>>,
         body' \in Seq(Instructions), vals' \in Seq(Vals),
         Len(vals') >= innermost.height
  PROVE  Inv'
<1>1. innermost' = innermost
  BY DEF innermost
<1> QED BY <1>1 DEF Inv, VTypeOK, Nested, Whole, Vals

(* What Instr says of an instruction of each kind.                         *)
LEMMA InstrFacts ==
  ASSUME NEW instr \in Instructions
  PROVE  /\ instr.op \in {"plain", "block", "loop", "if"} =>
              instr.type.params \in Seq(ValTypes) /\ instr.type.results \in Seq(ValTypes)
         /\ instr.op \in {"br", "br_if"} => instr.label \in Nat
  BY ValidatorAssumption DEF Instr, FuncType

(* The frames outside the innermost one keep the invariant on their own,   *)
(* and the next one out lies at or below the innermost one's height.       *)
LEMMA OuterFacts ==
  ASSUME Inv, Len(ctrls) >= 2
  PROVE  /\ Outer \in Seq(Frame) /\ Len(Outer) = Len(ctrls) - 1
         /\ \A i \in 1..Len(Outer) : Outer[i] = ctrls[i]
         /\ Outer[Len(Outer)].height <= innermost.height
<1>1. ctrls \in Seq(Frame) /\ Len(ctrls) \in Nat
  BY DEF Inv, VTypeOK, Frame
<1>2. Len(ctrls) - 1 \in 0..Len(ctrls)
  BY <1>1
<1>3. /\ Outer \in Seq(Frame) /\ Len(Outer) = Len(ctrls) - 1
      /\ \A i \in 1..(Len(ctrls) - 1) : Outer[i] = ctrls[i]
  BY <1>1, <1>2, SubSeqFacts DEF Outer
<1>4. ctrls[Len(ctrls) - 1].height <= ctrls[Len(ctrls)].height
  BY <1>1 DEF Inv, Nested
<1> QED BY <1>1, <1>3, <1>4 DEF innermost

(* A frame put on top of frames that are in order, at the height of the    *)
(* value stack below its operands.                                         *)
LEMMA PushFrame ==
  ASSUME Inv, verdict' = verdict, verdict = "validating",
         body' \in Seq(Instructions),
         NEW cs \in Seq(Frame), NEW f \in Frame,
         ctrls' = Append(cs, f), vals' \in Seq(Vals), f.height <= Len(vals'),
         cs # <<>> => /\ cs[1] = ctrls[1] /\ ctrls # <<>>
                      /\ f.opcode # "func"
                      /\ cs[Len(cs)].height <= f.height,
         cs = <<>> => /\ f.opcode = "func" /\ f.height = 0
                      /\ f.end_types = FuncResults,
         \A i \in 2..Len(cs) : /\ cs[i].opcode # "func"
                               /\ cs[i - 1].height <= cs[i].height
  PROVE  Inv'
<1>1. /\ ctrls' \in Seq(Frame) /\ ctrls' # <<>> /\ Len(ctrls') = Len(cs) + 1
      /\ ctrls'[Len(ctrls')] = f /\ Len(cs) \in Nat
      /\ \A i \in 1..Len(cs) : ctrls'[i] = cs[i]
  OBVIOUS
<1>2. VTypeOK'
  BY <1>1 DEF Inv, VTypeOK, Frame, Vals
<1>3. /\ ctrls'[1].opcode = "func" /\ ctrls'[1].height = 0
      /\ ctrls'[1].end_types = FuncResults
  <2>1. CASE cs = <<>>
    BY <2>1, <1>1
  <2>2. CASE cs # <<>>
    <3>1. ctrls'[1] = ctrls[1]
      BY <2>2, <1>1
    <3> QED BY <2>2, <3>1 DEF Inv, Nested, Whole
  <2> QED BY <2>1, <2>2
<1>4. ASSUME NEW i \in 2..Len(ctrls')
      PROVE  /\ ctrls'[i].opcode # "func"
             /\ ctrls'[i - 1].height <= ctrls'[i].height
  <2>1. CASE i <= Len(cs)
    <3>1. i \in 2..Len(cs) /\ ctrls'[i] = cs[i] /\ ctrls'[i - 1] = cs[i - 1]
      BY <2>1, <1>1
    <3> QED BY <3>1
  <2>2. CASE i = Len(cs) + 1
    <3>1. ctrls'[i] = f /\ ctrls'[i - 1] = cs[Len(cs)] /\ cs # <<>>
      BY <2>2, <1>1
    <3> QED BY <3>1
  <2> QED BY <1>1, <2>1, <2>2
<1>5. innermost'.height <= Len(vals')
  BY <1>1 DEF innermost
<1>6. Nested'
  BY <1>3, <1>4, <1>5 DEF Nested
<1>7. Whole'
  BY <1>1, <1>3 DEF Whole, Inv
<1> QED BY <1>2, <1>6, <1>7 DEF Inv

(* A frame opened inside the innermost one.                                *)
LEMMA OpenInv ==
  ASSUME Inv, ctrls # <<>>, verdict = "validating", verdict' = verdict,
         body' \in Seq(Instructions), NEW instr \in Instructions, Open(instr)
  PROVE  Inv'
<1> DEFINE n == Len(instr.type.params) + (IF instr.op = "if" THEN 1 ELSE 0)
           f == ControlFrame(instr.op, instr.type.params, instr.type.results,
                             Len(Popped(n)))
<1>1. /\ instr.op \in {"block", "loop", "if"}
      /\ vals' = Popped(n) \o instr.type.params /\ ctrls' = Append(ctrls, f)
  BY DEF Open, Stacks
<1>2. instr.type.params \in Seq(ValTypes) /\ instr.type.results \in Seq(ValTypes)
  BY <1>1, InstrFacts
<1>3. n \in Nat
  <2>1. Len(instr.type.params) \in Nat
    BY <1>2
  <2>2. \A m \in Nat : m + (IF instr.op = "if" THEN 1 ELSE 0) \in Nat
    OBVIOUS
  <2> QED BY <2>1, <2>2, Zenon
<1>4. /\ Popped(n) \in Seq(Vals) /\ Len(Popped(n)) \in Nat
      /\ innermost.height <= Len(Popped(n))
  <2> HIDE DEF n
  <2> QED BY <1>3, PoppedFacts
<1>5. innermost.height \in Nat
  BY InnermostFacts
<1>6. f \in Frame /\ f.opcode # "func" /\ f.height = Len(Popped(n))
  <2> HIDE DEF n
  <2> QED BY <1>1, <1>2, <1>4 DEF Frame, ControlFrame, Opcodes
<1>7. instr.type.params \in Seq(Vals)
  BY <1>2 DEF Vals
<1>8. vals' \in Seq(Vals) /\ f.height <= Len(vals')
  <2> HIDE DEF f, n
  <2>1. /\ vals' \in Seq(Vals)
        /\ Len(vals') = Len(Popped(n)) + Len(instr.type.params)
    BY <1>1, <1>4, <1>7, ConcatFacts
  <2>2. Len(instr.type.params) \in Nat
    BY <1>7
  <2> QED BY <1>4, <1>6, <2>1, <2>2
<1>9. ctrls \in Seq(Frame) /\ ctrls[Len(ctrls)].height <= f.height
  <2> HIDE DEF f, n
  <2>1. ctrls \in Seq(Frame)
    BY DEF Inv, VTypeOK, Frame
  <2> QED BY <1>4, <1>6, <2>1 DEF innermost
<1>10. \A i \in 2..Len(ctrls) : /\ ctrls[i].opcode # "func"
                                /\ ctrls[i - 1].height <= ctrls[i].height
  BY DEF Inv, Nested
<1> HIDE DEF f, n
<1> QED BY <1>1, <1>6, <1>8, <1>9, <1>10, PushFrame

(* A frame with the innermost one's place: what else and the unconditional *)
(* branches do.                                                            *)
LEMMA ReplaceFrame ==
  ASSUME Inv, ctrls # <<>>, verdict = "validating", verdict' = verdict,
         body' \in Seq(Instructions), vals' \in Seq(Vals),
         NEW f \in Frame, ctrls' = Append(Outer, f),
         f.height >= innermost.height, f.height <= Len(vals'),
         Len(ctrls) = 1 => /\ f.opcode = "func" /\ f.height = 0
                           /\ f.end_types = FuncResults,
         Len(ctrls) >= 2 => f.opcode # "func"
  PROVE  Inv'
<1>1. ctrls \in Seq(Frame) /\ Len(ctrls) \in Nat /\ Len(ctrls) >= 1
      /\ innermost.height \in Nat /\ f.height \in Nat
  BY InnermostFacts DEF Inv, VTypeOK, Frame
<1>2. CASE Len(ctrls) = 1
  <2>1. Outer \in Seq(Frame) /\ Len(Outer) = 0
    BY <1>1, <1>2, SubSeqFacts DEF Outer
  <2>2. Outer = <<>>
    BY <2>1
  <2>3. \A i \in 2..Len(Outer) : FALSE
    BY <2>1
  <2> QED BY <1>2, <2>1, <2>2, <2>3, PushFrame
<1>3. CASE Len(ctrls) >= 2
  <2>1. /\ Outer \in Seq(Frame) /\ Len(Outer) = Len(ctrls) - 1
        /\ \A i \in 1..Len(Outer) : Outer[i] = ctrls[i]
        /\ Outer[Len(Outer)].height <= innermost.height
    BY <1>3, OuterFacts
  <2>2. Outer[1] = ctrls[1] /\ Outer # <<>>
    BY <1>1, <1>3, <2>1
  <2>3. Outer[Len(Outer)] \in Frame
    BY <1>1, <1>3, <2>1
  <2>4. Outer[Len(Outer)].height <= f.height
    <3>1. Outer[Len(Outer)].height \in Nat
      BY <2>3 DEF Frame
    <3> QED BY <1>1, <2>1, <3>1
  <2>5. ASSUME NEW i \in 2..Len(Outer)
        PROVE  /\ Outer[i].opcode # "func"
               /\ Outer[i - 1].height <= Outer[i].height
    <3>1. /\ i \in 2..Len(ctrls) /\ Outer[i] = ctrls[i]
          /\ Outer[i - 1] = ctrls[i - 1]
      <4>1. i \in 1..Len(Outer) /\ i - 1 \in 1..Len(Outer) /\ i \in 2..Len(ctrls)
        BY <1>1, <2>1
      <4> QED BY <2>1, <4>1
    <3> QED BY <3>1 DEF Inv, Nested
  <2> QED BY <1>3, <2>1, <2>2, <2>4, <2>5, PushFrame
<1>4. Len(ctrls) = 1 \/ Len(ctrls) >= 2
  <2>1. \A m \in Nat : m >= 1 => m = 1 \/ m >= 2
    OBVIOUS
  <2>2. Len(ctrls) \in Nat /\ Len(ctrls) >= 1
    BY <1>1
  <2> QED BY <2>1, <2>2, Zenon
<1> QED BY <1>2, <1>3, <1>4

(* else replaces the if's frame by one of the same height and results. *)
LEMMA ElseInv ==
  ASSUME Inv, ctrls # <<>>, verdict = "validating", verdict' = verdict,
         body' \in Seq(Instructions), NEW instr \in Instructions, Allows(instr),
         Else(instr)
  PROVE  Inv'
<1> DEFINE f == ControlFrame("else", innermost.start_types,
                             innermost.end_types, Len(Closed))
<1>1. /\ instr.op = "else" /\ ctrls' = Append(Outer, f)
      /\ vals' = Closed \o innermost.start_types
  BY DEF Else, Stacks
<1>2. innermost.opcode = "if"
  BY <1>1 DEF Allows
<1>3. /\ innermost \in Frame /\ innermost.height \in Nat
      /\ innermost.start_types \in Seq(ValTypes)
      /\ innermost.end_types \in Seq(ValTypes)
      /\ Len(ctrls) \in Nat
  BY InnermostFacts
<1>4. Len(ctrls) # 1
  BY <1>2 DEF Inv, Nested, innermost
<1>5. /\ Closed \in Seq(Vals) /\ Len(Closed) \in Nat
      /\ innermost.height <= Len(Closed)
  <2>1. Len(innermost.end_types) \in Nat
    BY <1>3
  <2> QED BY <2>1, PoppedFacts DEF Closed
<1>6. f \in Frame /\ f.opcode # "func" /\ f.height = Len(Closed)
  BY <1>3, <1>5 DEF Frame, ControlFrame, Opcodes
<1>7. innermost.start_types \in Seq(Vals)
  BY <1>3 DEF Vals
<1>8. vals' \in Seq(Vals) /\ f.height <= Len(vals') /\ f.height >= innermost.height
  <2> HIDE DEF f
  <2>1. /\ vals' \in Seq(Vals)
        /\ Len(vals') = Len(Closed) + Len(innermost.start_types)
    BY <1>1, <1>5, <1>7, ConcatFacts
  <2>2. Len(innermost.start_types) \in Nat
    BY <1>7
  <2> QED BY <1>3, <1>5, <1>6, <2>1, <2>2
<1> HIDE DEF f
<1> QED BY <1>1, <1>4, <1>6, <1>8, ReplaceFrame

(* A branch that leaves cuts the stack to the innermost height and marks   *)
(* the frame.                                                              *)
LEMMA LeaveInv ==
  ASSUME Inv, ctrls # <<>>, verdict = "validating", verdict' = verdict,
         body' \in Seq(Instructions), NEW instr \in Instructions, Leave(instr)
  PROVE  Inv'
<1> DEFINE f == [innermost EXCEPT !.unreachable = TRUE]
<1>1. vals' = Base /\ ctrls' = Append(Outer, f)
  BY DEF Leave, Stacks
<1>2. /\ innermost \in Frame /\ Len(vals) \in Nat
      /\ innermost.height \in Nat /\ innermost.height <= Len(vals)
  BY InnermostFacts
<1>3. /\ f \in Frame /\ f.height = innermost.height
      /\ f.opcode = innermost.opcode /\ f.end_types = innermost.end_types
  BY <1>2 DEF Frame
<1>4. vals \in Seq(Vals)
  BY DEF Inv, VTypeOK, Vals
<1>5. vals' \in Seq(Vals) /\ Len(vals') = innermost.height
  BY <1>1, <1>2, <1>4, SubSeqFacts DEF Base
<1>6. Len(ctrls) = 1 => /\ f.opcode = "func" /\ f.height = 0
                        /\ f.end_types = FuncResults
  BY <1>3 DEF Inv, Nested, Whole, innermost
<1>7. Len(ctrls) >= 2 => f.opcode # "func"
  BY <1>3, InnermostFacts, SMTT(60) DEF Inv, Nested, innermost
<1>8. innermost.height \in Nat /\ f.height >= innermost.height
  BY <1>2, <1>3
<1>9. f.height <= Len(vals')
  BY <1>3, <1>5, <1>8
<1> HIDE DEF f
<1> QED BY <1>1, <1>3, <1>5, <1>6, <1>7, <1>8, <1>9, ReplaceFrame

(* A frame that may be closed has its results on it and nothing else, so   *)
(* that without them the stack is as high as when it was opened.           *)
LEMMA ClosedFacts ==
  ASSUME Inv, ctrls # <<>>, CanClose
  PROVE  Closed \in Seq(Vals) /\ Len(Closed) = innermost.height
<1>1. /\ Len(vals) \in Nat /\ innermost.height \in Nat
      /\ innermost.height <= Len(vals)
      /\ innermost.end_types \in Seq(ValTypes)
  BY InnermostFacts
<1>2. Len(innermost.end_types) \in Nat
  BY <1>1
<1>3. Len(vals) - innermost.height <= Len(innermost.end_types)
  BY DEF CanClose, Available
<1>4. \A v, h, n \in Nat :
        h <= v /\ v - h <= n => (IF n <= v - h THEN v - n ELSE h) = h
  OBVIOUS
<1>5. Closed = SubSeq(vals, 1, innermost.height)
  BY <1>1, <1>2, <1>3, <1>4, Zenon DEF Closed, Popped, Available
<1>6. vals \in Seq(Vals)
  BY DEF Inv, VTypeOK, Vals
<1>7. innermost.height \in 0..Len(vals)
  BY <1>1
<1> QED BY <1>5, <1>6, <1>7, SubSeqFacts

(* end removes the innermost frame and leaves its results; the function's  *)
(* own ends the body.                                                      *)
LEMMA EndInv ==
  ASSUME Inv, ctrls # <<>>, verdict = "validating", verdict' = verdict,
         body' \in Seq(Instructions), NEW instr \in Instructions, Allows(instr),
         End(instr)
  PROVE  Inv'
<1>1. vals' = Closed \o innermost.end_types /\ ctrls' = Outer
  BY DEF End, Stacks
<1>2. CanClose
  BY DEF Allows, EndAllowed, End
<1>3. /\ innermost.height \in Nat /\ innermost.end_types \in Seq(ValTypes)
      /\ Len(ctrls) \in Nat /\ Len(ctrls) >= 1
  BY InnermostFacts
<1>4. Closed \in Seq(Vals) /\ Len(Closed) = innermost.height
  BY <1>2, ClosedFacts
<1>5. innermost.end_types \in Seq(Vals) /\ Len(innermost.end_types) \in Nat
  BY <1>3 DEF Vals
<1>6. /\ vals' \in Seq(Vals)
      /\ Len(vals') = innermost.height + Len(innermost.end_types)
  BY <1>1, <1>4, <1>5, ConcatFacts
<1>7. \A m \in Nat : m >= 1 => m = 1 \/ m >= 2
  OBVIOUS
<1>8. Len(ctrls) = 1 \/ Len(ctrls) >= 2
  BY <1>3, <1>7, Zenon
<1>9. ctrls \in Seq(Frame)
  BY DEF Inv, VTypeOK, Frame
<1>10. CASE Len(ctrls) = 1
  <2>1. innermost = ctrls[1] /\ innermost.height = 0
    BY <1>10 DEF innermost, Inv, Nested
  <2>2. Closed = <<>>
    BY <1>4, <2>1
  <2>3. vals' = FuncResults
    BY <1>1, <1>5, <2>1, <2>2 DEF Inv, Whole
  <2>4. Outer \in Seq(Frame) /\ Len(Outer) = 0
    BY <1>9, <1>10, SubSeqFacts DEF Outer
  <2>5. ctrls' = <<>>
    BY <1>1, <2>4
  <2>6. Len(ctrls') = 0
    BY <1>1, <2>4
  <2>7. VTypeOK'
    BY <1>1, <1>6, <2>4 DEF Inv, VTypeOK, Frame, Vals
  <2>8. Nested'
    <3>1. \A i \in 2..Len(ctrls') : FALSE
      BY <2>6
    <3> QED BY <2>5, <3>1 DEF Nested
  <2>9. Whole'
    BY <2>3, <2>5 DEF Whole
  <2> QED BY <2>7, <2>8, <2>9 DEF Inv
<1>11. CASE Len(ctrls) >= 2
  <2>1. /\ Outer \in Seq(Frame) /\ Len(Outer) = Len(ctrls) - 1
        /\ \A i \in 1..Len(Outer) : Outer[i] = ctrls[i]
        /\ Outer[Len(Outer)].height <= innermost.height
    BY <1>11, OuterFacts
  <2>2. VTypeOK'
    BY <1>1, <1>6, <2>1 DEF Inv, VTypeOK, Frame, Vals
  <2>3. Len(Outer) \in 1..Len(ctrls) /\ Outer # <<>> /\ Outer[1] = ctrls[1]
    BY <1>3, <1>11, <2>1
  <2>4. Outer[Len(Outer)] \in Frame
    BY <2>1, <2>3
  <2>5. Outer[Len(Outer)].height \in Nat
    BY <2>4 DEF Frame
  <2>6. innermost'.height <= Len(vals')
    BY <1>1, <1>3, <1>5, <1>6, <2>1, <2>5, SMTT(60) DEF innermost
  <2>7. ASSUME NEW i \in 2..Len(Outer)
        PROVE  /\ Outer[i].opcode # "func"
               /\ Outer[i - 1].height <= Outer[i].height
    <3>1. /\ i \in 1..Len(Outer) /\ i - 1 \in 1..Len(Outer)
          /\ i \in 2..Len(ctrls)
      BY <1>3, <2>1
    <3>2. Outer[i] = ctrls[i] /\ Outer[i - 1] = ctrls[i - 1]
      BY <2>1, <3>1
    <3> QED BY <3>1, <3>2 DEF Inv, Nested
  <2>8. Nested'
    BY <1>1, <2>3, <2>6, <2>7 DEF Inv, Nested
  <2>9. Whole'
    BY <1>1, <2>3 DEF Inv, Whole
  <2> QED BY <2>2, <2>8, <2>9 DEF Inv
<1> QED BY <1>8, <1>10, <1>11

(* The rules that leave the frames alone.                                  *)
LEMMA LevelInv ==
  ASSUME Inv, ctrls # <<>>, verdict = "validating", verdict' = verdict,
         body' \in Seq(Instructions), NEW instr \in Instructions, Allows(instr),
         Plainly(instr) \/ Drop(instr) \/ Select(instr) \/ BrIf(instr)
  PROVE  Inv'
<1>1. innermost.height \in Nat
  BY InnermostFacts
<1>2. SUFFICES /\ ctrls' = ctrls
               /\ \E n \in Nat, ts \in Seq(Vals) : vals' = Popped(n) \o ts
  <2>1. ctrls' = ctrls
    BY <1>2
  <2>2. PICK n \in Nat, ts \in Seq(Vals) : vals' = Popped(n) \o ts
    BY <1>2
  <2>3. /\ Popped(n) \in Seq(Vals) /\ Len(Popped(n)) \in Nat
        /\ innermost.height <= Len(Popped(n))
    BY PoppedFacts
  <2>4. vals' \in Seq(Vals) /\ Len(vals') = Len(Popped(n)) + Len(ts)
    BY <2>2, <2>3, ConcatFacts
  <2>5. Len(vals') >= innermost.height
    <3>1. Len(ts) \in Nat
      OBVIOUS
    <3> QED BY <1>1, <2>3, <2>4, <3>1
  <2> QED BY <2>1, <2>4, <2>5, SameFrames
<1>3. CASE Plainly(instr)
  <2>1. instr.op = "plain" /\ ctrls' = ctrls
        /\ vals' = Popped(Len(instr.type.params)) \o instr.type.results
    BY <1>3 DEF Plainly, Stacks
  <2>2. Len(instr.type.params) \in Nat /\ instr.type.results \in Seq(Vals)
    BY <2>1, InstrFacts DEF Vals
  <2> QED BY <2>1, <2>2
<1>4. CASE Drop(instr)
  <2>1. ctrls' = ctrls /\ vals' = Popped(1)
    BY <1>4 DEF Drop, Stacks
  <2>2. 1 \in Nat /\ Popped(1) \in Seq(Vals)
    BY PoppedFacts
  <2>3. vals' = Popped(1) \o <<>> /\ <<>> \in Seq(Vals)
    BY <2>1, <2>2
  <2> QED BY <2>1, <2>2, <2>3
<1>5. CASE Select(instr)
  <2> DEFINE v == IF Operand(1) # Unknown THEN Operand(1) ELSE Operand(2)
  <2>1. ctrls' = ctrls /\ vals' = Append(Popped(3), v)
    BY <1>5 DEF Select, Stacks
  <2>2. 3 \in Nat /\ Popped(3) \in Seq(Vals)
    BY PoppedFacts
  <2>3. ASSUME NEW i \in {1, 2} PROVE Operand(i) \in Vals
    <3>1. vals \in Seq(Vals) /\ Len(vals) \in Nat
      BY DEF Inv, VTypeOK, Vals
    <3>2. CASE i < Available
      <4>1. Len(vals) - i \in 1..Len(vals)
        BY <1>1, <3>1, <3>2 DEF Available
      <4> QED BY <3>1, <3>2, <4>1 DEF Operand
    <3>3. CASE ~(i < Available)
      BY <3>3 DEF Operand, Vals
    <3> QED BY <3>2, <3>3
  <2>4. v \in Vals
    BY <2>3
  <2> HIDE DEF v
  <2>5. vals' = Popped(3) \o <<v>> /\ <<v>> \in Seq(Vals)
    <3>1. PICK kept \in Seq(Vals) : kept = Popped(3)
      BY <2>2
    <3>2. Append(kept, v) = kept \o <<v>> /\ <<v>> \in Seq(Vals)
      BY <2>4
    <3> QED BY <2>1, <3>1, <3>2
  <2> QED BY <2>1, <2>2, <2>5
<1>6. CASE BrIf(instr)
  <2> DEFINE types == LabelTypes(instr.label)
  <2>1. /\ instr.op = "br_if" /\ ctrls' = ctrls
        /\ vals' = Popped(Len(types) + 1) \o types
    BY <1>6 DEF BrIf, Stacks
  <2>2. HasLabel(instr.label) /\ instr.label \in Nat
    BY <2>1, InstrFacts DEF Allows, BrIfAllowed
  <2>3. ctrls \in Seq(Frame) /\ Len(ctrls) \in Nat
    BY DEF Inv, VTypeOK, Frame
  <2>4. Len(ctrls) - instr.label \in 1..Len(ctrls)
    BY <2>2, <2>3 DEF HasLabel
  <2>5. ctrls[Len(ctrls) - instr.label] \in Frame
    BY <2>3, <2>4
  <2>6. types \in Seq(ValTypes)
    BY <2>5 DEF LabelTypes, Frame
  <2> HIDE DEF types
  <2>7. types \in Seq(Vals) /\ Len(types) \in Nat
    BY <2>6 DEF Vals
  <2>8. Len(types) + 1 \in Nat
    BY <2>7
  <2> QED BY <2>1, <2>7, <2>8
<1> QED BY <1>3, <1>4, <1>5, <1>6

----------------------------------------------------------------------------
(* __init__ establishes the invariant.                                     *)
LEMMA InitInv == VInit => Inv
<1> SUFFICES ASSUME VInit PROVE Inv
  OBVIOUS
<1> DEFINE f == ControlFrame("func", <<>>, FuncResults, 0)
<1>1. f \in Frame /\ f.opcode = "func" /\ f.height = 0 /\ f.end_types = FuncResults
  BY ValidatorAssumption DEF ControlFrame, Frame, Opcodes
<1> HIDE DEF f
<1>2. ctrls = <<f>> /\ vals = <<>> /\ body = <<>> /\ verdict = "validating"
  BY DEF VInit, f
<1>3. ctrls \in Seq(Frame) /\ Len(ctrls) = 1 /\ ctrls[1] = f /\ Len(vals) = 0
  BY <1>1, <1>2
<1>4. VTypeOK
  BY <1>2, <1>3 DEF VTypeOK, Frame
<1>5. Nested
  BY <1>1, <1>2, <1>3 DEF Nested, innermost
<1>6. Whole
  BY <1>1, <1>2, <1>3 DEF Whole
<1> QED BY <1>4, <1>5, <1>6 DEF Inv

(* An instruction preserves the invariant, whether it is allowed or not.   *)
LEMMA CheckInv ==
  ASSUME Inv, NEW instr \in Instructions, Check(instr)
  PROVE  Inv'
<1>1. verdict = "validating"
  BY DEF Check
<1>2. CASE Allows(instr)
  <2>1. /\ Rule(instr) /\ verdict' = verdict /\ ctrls # <<>>
        /\ body' = Append(body, instr)
    BY <1>2 DEF Check, Allows
  <2>2. body' \in Seq(Instructions)
    BY <2>1 DEF Inv, VTypeOK
  <2>3. CASE Plainly(instr) \/ Drop(instr) \/ Select(instr) \/ BrIf(instr)
    BY <1>1, <1>2, <2>1, <2>2, <2>3, LevelInv
  <2>4. CASE Open(instr)
    BY <1>1, <2>1, <2>2, <2>4, OpenInv
  <2>5. CASE Else(instr)
    BY <1>1, <1>2, <2>1, <2>2, <2>5, ElseInv
  <2>6. CASE End(instr)
    BY <1>1, <1>2, <2>1, <2>2, <2>6, EndInv
  <2>7. CASE Leave(instr)
    BY <1>1, <2>1, <2>2, <2>7, LeaveInv
  <2> QED BY <2>1, <2>3, <2>4, <2>5, <2>6, <2>7 DEF Rule
<1>3. CASE ~Allows(instr)
  <2>1. verdict' = "rejected" /\ UNCHANGED <<body, vals, ctrls>>
    BY <1>3 DEF Check
  <2> QED BY <2>1 DEF Inv, VTypeOK, Nested, Whole, innermost
<1> QED BY <1>2, <1>3

(* Every step keeps the invariant. *)
LEMMA NextInv == Inv /\ [VNext]_vvars => Inv'
<1> SUFFICES ASSUME Inv, [VNext]_vvars PROVE Inv'
  OBVIOUS
<1>1. CASE Finish
  BY <1>1 DEF Finish, Inv, VTypeOK, Nested, Whole, innermost
<1>2. ASSUME NEW instr \in Instructions, Check(instr) PROVE Inv'
  BY <1>2, CheckInv
<1>3. CASE UNCHANGED vvars
  BY <1>3 DEF vvars, Inv, VTypeOK, Nested, Whole, innermost
<1> QED BY <1>1, <1>2, <1>3 DEF VNext

(* At every point of every body: frames begin at heights in order and      *)
(* within the stack, the function's frame keeps its results, and the       *)
(* stacks are typed.                                                       *)
THEOREM Invariance == VSpec => []Inv
  BY InitInv, NextInv, PTL DEF VSpec

(* The validator's stacks hold value types, Unknown and frames of natural  *)
(* height, whatever the body.                                              *)
THEOREM TypeCorrect == VSpec => []VTypeOK
<1>1. Inv => VTypeOK
  BY DEF Inv
<1> QED BY <1>1, Invariance, PTL

(* No rule pops into the operands of an outer frame: the frames stay on    *)
(* the value stack in the order they were opened.                          *)
THEOREM FramesNest == VSpec => []Nested
<1>1. Inv => Nested
  BY DEF Inv
<1> QED BY <1>1, Invariance, PTL

(* A body is accepted only when exactly the function's results are left.   *)
THEOREM AcceptedBodiesReturn == VSpec => []LeavesResults
<1>1. Inv => LeavesResults
  BY DEF Inv, Whole, LeavesResults
<1> QED BY <1>1, Invariance, PTL

(* The three together: the stack discipline of every body, of any length.  *)
THEOREM StackDisciplineHolds == VSpec => []StackDiscipline
<1>1. VTypeOK /\ Nested /\ LeavesResults => StackDiscipline
  BY DEF StackDiscipline
<1> QED BY <1>1, TypeCorrect, FramesNest, AcceptedBodiesReturn, PTL

----------------------------------------------------------------------------
(* The frozen validator beside the M5 one.                                 *)

\* On the frozen surface the M5 validator's stack holds no wildcard, and
\* its frames take no parameters.
Bare ==
  /\ vals \in Seq(ValTypes)
  /\ \A i \in DOMAIN ctrls : ctrls[i].start_types = <<>>

Together == f_verdict # "unsupported"
JointInv == Inv /\ SameStacks /\ SameVerdict /\ (Together => Bare)

FrozenAll(cs) == [i \in DOMAIN cs |-> Frozen(cs[i])]

(* Putting a frame on and taking some off commute with Frozen.             *)
LEMMA FrozenAppend ==
  ASSUME NEW cs \in Seq(Frame), NEW f \in Frame
  PROVE  FrozenAll(Append(cs, f)) = Append(FrozenAll(cs), Frozen(f))
  BY DEF FrozenAll

(* Reading frames as the frozen validator's commutes with cutting. *)
LEMMA FrozenSubSeq ==
  ASSUME NEW cs \in Seq(Frame), NEW n \in 0..Len(cs)
  PROVE  FrozenAll(SubSeq(cs, 1, n)) = SubSeq(FrozenAll(cs), 1, n)
  BY DEF FrozenAll

(* The innermost frames correspond, and so do the operands above them.     *)
LEMMA InnermostFrozen ==
  ASSUME JointInv, Together, ctrls # <<>>
  PROVE  /\ f_ctrls = FrozenAll(ctrls) /\ f_stack = vals /\ f_ctrls # <<>>
         /\ Len(f_ctrls) = Len(ctrls) /\ DOMAIN f_ctrls = DOMAIN ctrls
         /\ _ctrl = Frozen(innermost) /\ innermost.start_types = <<>>
         /\ Above = Available /\ Available \in Nat
         /\ ctrls \in Seq(Frame)
<1>1. /\ Inv /\ f_stack = vals /\ f_ctrls = FrozenAll(ctrls)
      /\ \A i \in DOMAIN ctrls : ctrls[i].start_types = <<>>
  BY DEF JointInv, SameStacks, FrozenAll, Bare, Together
<1>2. ctrls \in Seq(Frame)
  BY <1>1 DEF Inv, VTypeOK, Frame
<1>3. /\ Len(ctrls) \in Nat /\ Len(ctrls) >= 1 /\ Len(vals) \in Nat
      /\ innermost.height \in Nat /\ innermost.height <= Len(vals)
  BY <1>1, InnermostFacts
<1>4. Len(f_ctrls) = Len(ctrls) /\ DOMAIN f_ctrls = DOMAIN ctrls /\ f_ctrls # <<>>
  BY <1>1, <1>2, <1>3 DEF FrozenAll
<1>5. Len(ctrls) \in DOMAIN ctrls
  BY <1>2, <1>3
<1>6. _ctrl = Frozen(innermost) /\ innermost.start_types = <<>>
  BY <1>1, <1>4, <1>5 DEF _ctrl, innermost, FrozenAll
<1>7. _ctrl.height = innermost.height
  BY <1>6 DEF Frozen
<1>8. Above = Available /\ Available \in Nat
  BY <1>1, <1>3, <1>7 DEF Above, Available
<1> QED BY <1>1, <1>2, <1>4, <1>6, <1>8

(* Popping: with no wildcard on the stack, and none asked for, both ask    *)
(* for the same and leave the same.                                        *)
LEMMA PopsFrozen ==
  ASSUME JointInv, Together, ctrls # <<>>, NEW types \in Seq(ValTypes)
  PROVE  Pops(types) <=> CanPop(types)
<1>1. /\ f_stack = vals /\ Above = Available /\ Available \in Nat
      /\ _ctrl.unreachable = innermost.unreachable
  BY InnermostFrozen DEF Frozen
<1>2. /\ vals \in Seq(ValTypes) /\ Len(vals) \in Nat /\ innermost.height \in Nat
  BY InnermostFacts DEF JointInv, Bare, Together
<1>3. ASSUME NEW i \in 0..(Len(types) - 1)
      PROVE  Fits(Operand(i), types[Len(types) - i]) <=>
             (i < Available => vals[Len(vals) - i] = types[Len(types) - i])
  <2>1. types[Len(types) - i] \in ValTypes
    <3>1. Len(types) \in Nat /\ Len(types) - i \in 1..Len(types)
      OBVIOUS
    <3> QED BY <3>1
  <2>2. CASE i < Available
    <3>1. Len(vals) - i \in 1..Len(vals)
      BY <1>2, <2>2 DEF Available
    <3>2. vals[Len(vals) - i] \in ValTypes
      BY <1>2, <3>1
    <3>3. vals[Len(vals) - i] # Unknown /\ types[Len(types) - i] # Unknown
      BY <2>1, <3>2, ValidatorAssumption
    <3> QED BY <2>2, <3>3 DEF Fits, Operand
  <2>3. CASE ~(i < Available)
    BY <2>3 DEF Fits, Operand
  <2> QED BY <2>2, <2>3
<1> QED BY <1>1, <1>3, Zenon DEF Pops, CanPop

(* A pop of n leaves the same stack in both. *)
LEMMA AfterFrozen ==
  ASSUME JointInv, Together, ctrls # <<>>, NEW n \in Nat
  PROVE  After(n) = Popped(n) /\ Popped(n) \in Seq(ValTypes)
<1>1. /\ f_stack = vals /\ Above = Available
      /\ _ctrl.height = innermost.height
  BY InnermostFrozen DEF Frozen
<1>2. After(n) = Popped(n)
  BY <1>1 DEF After, Popped
<1>3. innermost.height \in 0..Len(vals) /\ Len(vals) \in Nat
  BY InnermostFacts DEF JointInv
<1> DEFINE k == IF n <= Available THEN Len(vals) - n ELSE innermost.height
<1>4. k \in 0..Len(vals)
  BY <1>3 DEF Available
<1>5. vals \in Seq(ValTypes)
  BY DEF JointInv, Bare, Together
<1>6. Popped(n) = SubSeq(vals, 1, k)
  BY DEF Popped
<1> HIDE DEF k
<1>7. Popped(n) \in Seq(ValTypes)
  BY <1>4, <1>5, <1>6, SubSeqFacts
<1> QED BY <1>2, <1>7

(* Labels: a loop has no parameters, so it takes nothing in either.        *)
LEMMA LabelFrozen ==
  ASSUME JointInv, Together, ctrls # <<>>, NEW d \in Nat
  PROVE  /\ KnownLabel(d) <=> HasLabel(d)
         /\ HasLabel(d) => /\ _label_types(d) = LabelTypes(d)
                           /\ LabelTypes(d) \in Seq(ValTypes)
<1>1. /\ f_ctrls = FrozenAll(ctrls) /\ Len(f_ctrls) = Len(ctrls)
      /\ ctrls \in Seq(Frame) /\ Len(ctrls) \in Nat
  BY InnermostFrozen
<1>2. KnownLabel(d) <=> HasLabel(d)
  BY <1>1 DEF KnownLabel, HasLabel
<1>3. ASSUME HasLabel(d)
      PROVE  _label_types(d) = LabelTypes(d) /\ LabelTypes(d) \in Seq(ValTypes)
  <2> DEFINE i == Len(ctrls) - d
  <2>1. i \in DOMAIN ctrls
    BY <1>1, <1>3 DEF HasLabel
  <2>2. f_ctrls[i] = Frozen(ctrls[i]) /\ ctrls[i] \in Frame
    BY <1>1, <2>1 DEF FrozenAll
  <2>3. /\ _label_types(d) = IF f_ctrls[i].kind = "loop" THEN f_ctrls[i].start_types
                             ELSE f_ctrls[i].end_types
        /\ LabelTypes(d) = IF ctrls[i].opcode = "loop" THEN ctrls[i].start_types
                           ELSE ctrls[i].end_types
    BY <1>1 DEF _label_types, LabelTypes
  <2> HIDE DEF i
  <2>4. /\ f_ctrls[i].kind = "loop" <=> ctrls[i].opcode = "loop"
        /\ f_ctrls[i].start_types = ctrls[i].start_types
        /\ f_ctrls[i].end_types = ctrls[i].end_types
    BY <2>2 DEF Frozen
  <2> QED BY <2>2, <2>3, <2>4 DEF Frame
<1> QED BY <1>2, <1>3

(* Both ask the same of the stack before a frame is closed. *)
LEMMA CloseFrozen ==
  ASSUME JointInv, Together, ctrls # <<>>
  PROVE  Exactly(_ctrl.end_types) <=> CanClose
<1>1. _ctrl.end_types = innermost.end_types /\ Above = Available
  BY InnermostFrozen DEF Frozen
<1>2. innermost.end_types \in Seq(ValTypes)
  BY InnermostFacts DEF JointInv
<1>3. Pops(innermost.end_types) <=> CanPop(innermost.end_types)
  BY <1>2, PopsFrozen
<1> QED BY <1>1, <1>3 DEF Exactly, CanClose

(* One compares the labels with the last, the other with the first.        *)
LEMMA TableFrozen ==
  ASSUME JointInv, Together, ctrls # <<>>,
         NEW targets \in Seq(Nat), NEW default \in Nat
  PROVE  CanBranchTable(targets, default) <=> BrTableAllowed(targets, default)
<1> DEFINE all == Append(targets, default)
           last == Len(all)
<1>1. /\ all \in Seq(Nat) /\ 1 \in DOMAIN all /\ last \in DOMAIN all
      /\ all[last] = default
  OBVIOUS
<1> HIDE DEF all, last
<1>2. \A i \in DOMAIN all :
        /\ KnownLabel(all[i]) <=> HasLabel(all[i])
        /\ HasLabel(all[i]) => /\ _label_types(all[i]) = LabelTypes(all[i])
                               /\ LabelTypes(all[i]) \in Seq(ValTypes)
  <2>1. ASSUME NEW i \in DOMAIN all PROVE all[i] \in Nat
    BY <1>1, <2>1
  <2> QED BY <2>1, LabelFrozen
<1>3. \A ts \in Seq(ValTypes) : Append(ts, "i32") \in Seq(ValTypes)
  BY ValidatorAssumption
<1>4. \A ts \in Seq(ValTypes) : Pops(Append(ts, "i32")) <=> CanPop(Append(ts, "i32"))
  BY <1>3, PopsFrozen
<1>5. CanBranchTable(targets, default) <=>
        /\ \A i \in DOMAIN all : KnownLabel(all[i])
        /\ \A i \in DOMAIN all : _label_types(all[i]) = _label_types(all[last])
        /\ Pops(Append(_label_types(all[last]), "i32"))
  BY <1>1, Zenon DEF CanBranchTable, all
<1>6. BrTableAllowed(targets, default) <=>
        /\ \A i \in DOMAIN all : HasLabel(all[i])
        /\ CanPop(Append(LabelTypes(all[1]), "i32"))
        /\ \A i \in DOMAIN all : LabelTypes(all[i]) = LabelTypes(all[1])
  BY <1>1, Zenon DEF BrTableAllowed, BrIfAllowed, all
<1> QED BY <1>1, <1>2, <1>4, <1>5, <1>6, Zenon

(* What the surface says of an instruction of each kind.                   *)
LEMMA SurfaceFacts ==
  ASSUME NEW instr \in Instructions, FrozenSurface(instr)
  PROVE  /\ instr.op \in {"plain", "block", "loop", "if", "drop", "else", "end",
                        "br", "br_if", "br_table", "return"}
         /\ instr.op \in {"plain", "block", "loop", "if"} =>
              instr.type.params \in Seq(ValTypes) /\ instr.type.results \in Seq(ValTypes)
         /\ instr.op \in {"block", "loop", "if"} => instr.type.params = <<>>
         /\ instr.op \in {"br", "br_if"} => instr.label \in Nat
         /\ instr.op = "br_table" => instr.targets \in Seq(Nat) /\ instr.default \in Nat
<1>1. FrozenSurface(instr) /\ instr \in Instr
  BY ValidatorAssumption
<1> QED BY <1>1 DEF FrozenSurface, Instr, FuncType

(* Instruction by instruction, one validator passes what the other allows. *)
LEMMA SameRule ==
  ASSUME JointInv, Together, NEW instr \in Instructions, FrozenSurface(instr)
  PROVE  Passes(instr) <=> Allows(instr)
<1>1. f_ctrls = <<>> <=> ctrls = <<>>
  <2>1. ctrls \in Seq(Frame) /\ f_ctrls = FrozenAll(ctrls)
    BY DEF JointInv, Together, SameStacks, FrozenAll, Inv, VTypeOK, Frame
  <2> QED BY <2>1 DEF FrozenAll
<1>2. CASE ctrls = <<>>
  BY <1>1, <1>2 DEF Passes, Allows
<1>3. CASE ctrls # <<>>
  <2>1. /\ _ctrl = Frozen(innermost) /\ innermost.start_types = <<>>
        /\ Above = Available /\ Available \in Nat
        /\ f_ctrls # <<>> /\ f_ctrls = FrozenAll(ctrls) /\ ctrls \in Seq(Frame)
    BY <1>3, InnermostFrozen
  <2>2. CASE instr.op = "plain"
    <3>1. Pops(instr.type.params) <=> CanPop(instr.type.params)
      BY <1>3, <2>2, SurfaceFacts, PopsFrozen
    <3> QED BY <1>3, <2>1, <2>2, <3>1 DEF Passes, Allows
  <2>3. CASE instr.op = "drop"
    <3>1. CanPop(<<Unknown>>) <=> Above > 0 \/ _ctrl.unreachable
      BY <2>1 DEF CanPop, Fits, Frozen
    <3> QED BY <1>3, <2>1, <2>3, <3>1 DEF Passes, Allows
  <2>4. CASE instr.op \in {"block", "loop"}
    <3>1. instr.type.params = <<>>
      BY <2>4, SurfaceFacts
    <3>2. CanPop(<<>>)
      BY <2>1 DEF CanPop
    <3> QED BY <1>3, <2>1, <2>4, <3>1, <3>2 DEF Passes, Allows
  <2>5. CASE instr.op = "if"
    <3>1. Append(instr.type.params, "i32") = <<"i32">>
      <4>1. instr.type.params = <<>>
        BY <2>5, SurfaceFacts
      <4> QED BY <4>1
    <3>2. <<"i32">> \in Seq(ValTypes)
      BY ValidatorAssumption
    <3>3. Pops(<<"i32">>) <=> CanPop(<<"i32">>)
      BY <1>3, <3>2, PopsFrozen
    <3> QED BY <1>3, <2>1, <2>5, <3>1, <3>3 DEF Passes, Allows
  <2>6. CASE instr.op = "else"
    <3>1. CanElse <=> innermost.opcode = "if" /\ CanClose
      BY <1>3, <2>1, CloseFrozen DEF CanElse, Frozen
    <3> QED BY <1>3, <2>1, <2>6, <3>1 DEF Passes, Allows
  <2>7. CASE instr.op = "end"
    <3>1. CanEnd <=> EndAllowed
      BY <1>3, <2>1, CloseFrozen DEF CanEnd, EndAllowed, Frozen
    <3> QED BY <1>3, <2>1, <2>7, <3>1 DEF Passes, Allows
  <2>8. CASE instr.op = "br"
    <3>1. instr.label \in Nat
      BY <2>8, SurfaceFacts
    <3>2. KnownLabel(instr.label) /\ Pops(_label_types(instr.label)) <=> BrAllowed(instr.label)
      BY <1>3, <3>1, LabelFrozen, PopsFrozen DEF BrAllowed
    <3> QED BY <1>3, <2>1, <2>8, <3>2 DEF Passes, Allows
  <2>9. CASE instr.op = "br_if"
    <3> DEFINE ts == LabelTypes(instr.label)
    <3>1. instr.label \in Nat
      BY <2>9, SurfaceFacts
    <3>2. /\ KnownLabel(instr.label) <=> HasLabel(instr.label)
          /\ HasLabel(instr.label) => _label_types(instr.label) = ts /\ ts \in Seq(ValTypes)
      BY <1>3, <3>1, LabelFrozen
    <3>3. ASSUME HasLabel(instr.label)
          PROVE  Pops(Append(ts, "i32")) <=> CanPop(Append(ts, "i32"))
      <4>1. Append(ts, "i32") \in Seq(ValTypes)
        BY <3>2, <3>3, ValidatorAssumption
      <4> QED BY <1>3, <4>1, PopsFrozen
    <3>4. (KnownLabel(instr.label) /\ Pops(Append(_label_types(instr.label), "i32")))
          <=> BrIfAllowed(instr.label)
      BY <3>2, <3>3, Zenon DEF BrIfAllowed
    <3> QED BY <1>3, <2>1, <2>9, <3>4 DEF Passes, Allows
  <2>10. CASE instr.op = "br_table"
    <3>1. CanBranchTable(instr.targets, instr.default) <=>
          BrTableAllowed(instr.targets, instr.default)
      BY <1>3, <2>10, SurfaceFacts, TableFrozen
    <3> QED BY <1>3, <2>1, <2>10, <3>1 DEF Passes, Allows
  <2>11. CASE instr.op = "return"
    <3>1. 1 \in DOMAIN ctrls
      BY <1>3, <2>1
    <3>2. f_ctrls[1] = Frozen(ctrls[1]) /\ ctrls[1] \in Frame
      BY <2>1, <3>1 DEF FrozenAll
    <3>3. f_ctrls[1].end_types = ctrls[1].end_types /\ ctrls[1].end_types \in Seq(ValTypes)
      BY <3>2 DEF Frozen, Frame
    <3>4. Pops(ctrls[1].end_types) <=> CanPop(ctrls[1].end_types)
      BY <1>3, <3>3, PopsFrozen
    <3> QED BY <1>3, <2>1, <2>11, <3>3, <3>4 DEF Passes, Allows
  <2> QED BY <2>2, <2>3, <2>4, <2>5, <2>6, <2>7, <2>8, <2>9, <2>10, <2>11, SurfaceFacts
<1> QED BY <1>2, <1>3

----------------------------------------------------------------------------
(* What each pair of rules leaves on the stacks.                           *)

\* The stacks after a step correspond if they are made of ones that do.
SameAfter == f_stack' = vals' /\ f_ctrls' = FrozenAll(ctrls') /\ Bare'

(* The rules that leave the frames alone.                                  *)
LEMMA LevelFrozen ==
  ASSUME JointInv, Together, ctrls # <<>>, NEW instr \in Instructions,
         FrozenSurface(instr), Allows(instr), Rule(instr), _instr(instr),
         instr.op \in {"plain", "drop", "br_if"}
  PROVE  SameAfter
<1>1. /\ f_ctrls = FrozenAll(ctrls)
      /\ \A i \in DOMAIN ctrls : ctrls[i].start_types = <<>>
  BY InnermostFrozen DEF JointInv, Bare
<1>2. SUFFICES /\ ctrls' = ctrls /\ f_ctrls' = f_ctrls
               /\ f_stack' = vals' /\ vals' \in Seq(ValTypes)
  BY <1>1, <1>2 DEF SameAfter, Bare
<1>3. CASE instr.op = "plain"
  <2>1. /\ instr.type.params \in Seq(ValTypes) /\ instr.type.results \in Seq(ValTypes)
    BY <1>3, SurfaceFacts
  <2>2. Len(instr.type.params) \in Nat
    BY <2>1
  <2> DEFINE n == Len(instr.type.params)
  <2>3. /\ vals' = Popped(n) \o instr.type.results /\ ctrls' = ctrls
        /\ f_stack' = After(n) \o instr.type.results /\ f_ctrls' = f_ctrls
    BY <1>3 DEF Rule, Plainly, Drop, Select, Open, Else, End, BrIf, Leave, Stacks,
                _instr, _numeric, _drop, _open, _else, _end_frame, _branch_if, _unreachable, _set
  <2> HIDE DEF n
  <2>4. After(n) = Popped(n) /\ Popped(n) \in Seq(ValTypes)
    BY <2>2, AfterFrozen DEF n
  <2> QED BY <2>1, <2>3, <2>4, ConcatFacts
<1>4. CASE instr.op = "drop"
  <2>1. /\ vals' = Popped(1) /\ ctrls' = ctrls
        /\ f_stack' = After(1) /\ f_ctrls' = f_ctrls
    BY <1>4 DEF Rule, Plainly, Drop, Select, Open, Else, End, BrIf, Leave, Stacks,
                _instr, _numeric, _drop, _open, _else, _end_frame, _branch_if, _unreachable, _set
  <2>2. 1 \in Nat
    OBVIOUS
  <2> QED BY <2>1, <2>2, AfterFrozen
<1>5. CASE instr.op = "br_if"
  <2> DEFINE ts == LabelTypes(instr.label)
             n == Len(ts) + 1
  <2>1. HasLabel(instr.label) /\ instr.label \in Nat
    BY <1>5, SurfaceFacts DEF Allows, BrIfAllowed
  <2>2. _label_types(instr.label) = ts /\ ts \in Seq(ValTypes)
    BY <2>1, LabelFrozen
  <2>3. n \in Nat
    BY <2>2
  <2>4. /\ vals' = Popped(n) \o ts /\ ctrls' = ctrls
        /\ f_stack' = After(n) \o ts /\ f_ctrls' = f_ctrls
    BY <1>5, <2>2 DEF Rule, Plainly, Drop, Select, Open, Else, End, BrIf, Leave, Stacks,
                _instr, _numeric, _drop, _open, _else, _end_frame, _branch_if, _unreachable, _set
  <2> HIDE DEF n, ts
  <2>5. After(n) = Popped(n) /\ Popped(n) \in Seq(ValTypes)
    BY <2>3, AfterFrozen
  <2> QED BY <2>2, <2>4, <2>5, ConcatFacts
<1> QED BY <1>3, <1>4, <1>5

(* A frame is opened: at the same height, with no parameters.              *)
LEMMA OpenFrozen ==
  ASSUME JointInv, Together, ctrls # <<>>, NEW instr \in Instructions,
         FrozenSurface(instr), Rule(instr), _instr(instr),
         instr.op \in {"block", "loop", "if"}
  PROVE  SameAfter
<1> DEFINE n == IF instr.op = "if" THEN 1 ELSE 0
           f == ControlFrame(instr.op, <<>>, instr.type.results, Len(Popped(n)))
           s == IF instr.op = "if" THEN After(1) ELSE f_stack
<1>1. /\ instr.type.params = <<>> /\ instr.type.results \in Seq(ValTypes)
  BY SurfaceFacts
<1>2. n \in Nat
  OBVIOUS
<1>3. After(n) = Popped(n) /\ Popped(n) \in Seq(ValTypes)
  <2> HIDE DEF n
  <2> QED BY <1>2, AfterFrozen
<1>4. s = Popped(n)
  <2>1. CASE instr.op = "if"
    BY <1>3, <2>1
  <2>2. CASE instr.op # "if"
    <3>1. /\ f_stack = vals /\ vals \in Seq(ValTypes)
          /\ Available \in Nat /\ Len(vals) \in Nat
      BY InnermostFrozen DEF JointInv, Bare
    <3>2. SubSeq(vals, 1, Len(vals)) = vals
      BY <3>1
    <3> QED BY <2>2, <3>1, <3>2 DEF Popped
  <2> QED BY <2>1, <2>2
<1>5. /\ vals' = Popped(n) \o <<>> /\ ctrls' = Append(ctrls, f)
  <2>1. Open(instr)
    BY DEF Rule, Plainly, Drop, Select, Else, End, BrIf, Leave
  <2>2. Len(instr.type.params) + (IF instr.op = "if" THEN 1 ELSE 0) = n
    BY <1>1
  <2> QED BY <1>1, <2>1, <2>2 DEF Open, Stacks
<1>6. /\ f_stack' = s
      /\ f_ctrls' = Append(f_ctrls, Control(instr.op, instr.type.results, Len(s)))
  BY DEF _instr, _numeric, _drop, _open, _else, _end_frame, _branch_if, _unreachable, _set
<1>7. f \in Frame /\ Control(instr.op, instr.type.results, Len(s)) = Frozen(f)
      /\ f.start_types = <<>>
  <2>1. Len(Popped(n)) \in Nat
    BY <1>3
  <2> HIDE DEF n, s
  <2>2. f \in Frame /\ f.start_types = <<>>
    BY <1>1, <2>1 DEF Frame, ControlFrame, Opcodes
  <2>3. Control(instr.op, instr.type.results, Len(s)) = Frozen(f)
    <3>1. /\ f.opcode = instr.op /\ instr.op # "else" /\ f.end_types = instr.type.results
          /\ f.height = Len(s) /\ f.unreachable = FALSE
      BY <1>4 DEF ControlFrame
    <3> HIDE DEF f
    <3> QED BY <2>2, <3>1 DEF Control, Frozen
  <2> QED BY <2>2, <2>3
<1>8. /\ ctrls \in Seq(Frame) /\ f_ctrls = FrozenAll(ctrls)
      /\ \A i \in DOMAIN ctrls : ctrls[i].start_types = <<>>
  BY InnermostFrozen DEF JointInv, Bare
<1> HIDE DEF n, f, s
<1>9. f_ctrls' = FrozenAll(ctrls')
  BY <1>5, <1>6, <1>7, <1>8, FrozenAppend
<1>10. f_stack' = vals' /\ vals' \in Seq(ValTypes)
  BY <1>3, <1>4, <1>5, <1>6
<1>11. \A i \in DOMAIN ctrls' : ctrls'[i].start_types = <<>>
  BY <1>5, <1>7, <1>8
<1> QED BY <1>9, <1>10, <1>11 DEF SameAfter, Bare

(* A closed frame's operands are its results: without them the stack is    *)
(* the one below its height.                                               *)
LEMMA ClosedIsBase ==
  ASSUME Inv, ctrls # <<>>, CanClose
  PROVE  Closed = Base /\ Base \in Seq(Vals) /\ Len(Base) = innermost.height
<1>1. /\ Len(vals) \in Nat /\ innermost.height \in Nat
      /\ innermost.height <= Len(vals)
      /\ innermost.end_types \in Seq(ValTypes)
  BY InnermostFacts
<1>2. Len(innermost.end_types) \in Nat
  BY <1>1
<1>3. Len(vals) - innermost.height <= Len(innermost.end_types)
  BY DEF CanClose, Available
<1>4. \A v, h, n \in Nat :
        h <= v /\ v - h <= n => (IF n <= v - h THEN v - n ELSE h) = h
  OBVIOUS
<1>5. Closed = Base
  BY <1>1, <1>2, <1>3, <1>4, Zenon DEF Closed, Popped, Available, Base
<1>6. Closed \in Seq(Vals) /\ Len(Closed) = innermost.height
  BY ClosedFacts
<1> QED BY <1>5, <1>6

(* A frame takes the innermost one's place, over the operands below it.    *)
LEMMA ReplaceFrozen ==
  ASSUME JointInv, Together, ctrls # <<>>, NEW f \in Frame, f.start_types = <<>>,
         vals' = Base, ctrls' = Append(Outer, f),
         f_stack' = SubSeq(f_stack, 1, _ctrl.height),
         f_ctrls' = Append(OuterFrames, Frozen(f))
  PROVE  SameAfter
<1>1. /\ ctrls \in Seq(Frame) /\ f_ctrls = FrozenAll(ctrls)
      /\ Len(f_ctrls) = Len(ctrls) /\ f_stack = vals
      /\ _ctrl.height = innermost.height
      /\ \A i \in DOMAIN ctrls : ctrls[i].start_types = <<>>
      /\ vals \in Seq(ValTypes)
  BY InnermostFrozen DEF JointInv, Bare, Frozen
<1>2. /\ Len(ctrls) \in Nat /\ Len(ctrls) >= 1
      /\ innermost.height \in 0..Len(vals)
  BY InnermostFacts DEF JointInv
<1>3. Len(ctrls) - 1 \in 0..Len(ctrls)
  BY <1>2
<1>4. /\ Outer \in Seq(Frame) /\ OuterFrames = FrozenAll(Outer)
      /\ \A i \in DOMAIN Outer : Outer[i].start_types = <<>>
  <2>1. OuterFrames = FrozenAll(Outer)
    BY <1>1, <1>3, FrozenSubSeq DEF OuterFrames, Outer
  <2>2. /\ Outer \in Seq(Frame) /\ Len(Outer) = Len(ctrls) - 1
        /\ \A i \in 1..(Len(ctrls) - 1) : Outer[i] = ctrls[i]
    BY <1>1, <1>3, SubSeqFacts DEF Outer
  <2>3. DOMAIN Outer = 1..(Len(ctrls) - 1) /\ DOMAIN ctrls = 1..Len(ctrls)
    BY <1>1, <2>2
  <2>4. \A i \in DOMAIN Outer : i \in DOMAIN ctrls
    BY <1>2, <2>3
  <2> QED BY <1>1, <2>1, <2>2, <2>3, <2>4
<1>5. f_ctrls' = FrozenAll(ctrls')
  BY <1>4, FrozenAppend
<1>6. f_stack' = vals' /\ vals' \in Seq(ValTypes)
  BY <1>1, <1>2, SubSeqFacts DEF Base
<1>7. \A i \in DOMAIN ctrls' : ctrls'[i].start_types = <<>>
  BY <1>4
<1> QED BY <1>5, <1>6, <1>7 DEF SameAfter, Bare

(* The frozen validator edits the frame at an else where the M5 one        *)
(* replaces it: the result is one.                                         *)
LEMMA ElseFrozen ==
  ASSUME JointInv, Together, ctrls # <<>>, NEW instr \in Instructions,
         Allows(instr), Rule(instr), _instr(instr), instr.op = "else"
  PROVE  SameAfter
<1> DEFINE f == ControlFrame("else", innermost.start_types,
                             innermost.end_types, Len(Closed))
<1>1. /\ vals' = Closed \o innermost.start_types /\ ctrls' = Append(Outer, f)
      /\ f_stack' = SubSeq(f_stack, 1, _ctrl.height)
      /\ f_ctrls' = InnerFrame(FALSE, TRUE)
  BY DEF Rule, Plainly, Drop, Select, Open, Else, End, BrIf, Leave, Stacks, _instr,
         _numeric, _drop, _open, _else, _end_frame, _branch_if, _unreachable, _set
<1>2. CanClose /\ innermost.opcode = "if"
  BY DEF Allows
<1>3. /\ Closed = Base /\ Len(Base) = innermost.height /\ Base \in Seq(Vals)
  BY <1>2, ClosedIsBase DEF JointInv
<1>4. /\ _ctrl = Frozen(innermost) /\ innermost.start_types = <<>>
      /\ innermost \in Frame
  BY InnermostFrozen, InnermostFacts DEF JointInv
<1>5. f \in Frame /\ f.start_types = <<>>
  BY <1>3, <1>4 DEF Frame, ControlFrame, Opcodes
<1>6. InnerFrame(FALSE, TRUE) = Append(OuterFrames, Frozen(f))
  <2>1. /\ f.opcode = "else" /\ f.start_types = innermost.start_types
        /\ f.end_types = innermost.end_types /\ f.height = innermost.height
        /\ f.unreachable = FALSE
    BY <1>3 DEF ControlFrame
  <2> HIDE DEF f
  <2> QED BY <1>2, <1>4, <2>1 DEF Frozen, InnerFrame
<1>7. vals' = Base
  BY <1>1, <1>3, <1>4
<1> HIDE DEF f
<1> QED BY <1>1, <1>5, <1>6, <1>7, ReplaceFrozen

(* A branch that leaves does the same to both. *)
LEMMA LeaveFrozen ==
  ASSUME JointInv, Together, ctrls # <<>>, NEW instr \in Instructions,
         Rule(instr), _instr(instr), instr.op \in {"br", "br_table", "return"}
  PROVE  SameAfter
<1> DEFINE f == [innermost EXCEPT !.unreachable = TRUE]
<1>1. /\ vals' = Base /\ ctrls' = Append(Outer, f)
      /\ f_stack' = SubSeq(f_stack, 1, _ctrl.height)
      /\ f_ctrls' = InnerFrame(TRUE, _ctrl.else_seen)
  BY DEF Rule, Plainly, Drop, Select, Open, Else, End, BrIf, Leave, Stacks, _instr,
         _numeric, _drop, _open, _else, _end_frame, _branch_if, _unreachable, _set
<1>2. /\ _ctrl = Frozen(innermost) /\ innermost.start_types = <<>>
      /\ innermost \in Frame
  BY InnermostFrozen, InnermostFacts DEF JointInv
<1>3. f \in Frame /\ f.start_types = <<>>
  BY <1>2 DEF Frame
<1>4. InnerFrame(TRUE, _ctrl.else_seen) = Append(OuterFrames, Frozen(f))
  <2>1. /\ f.opcode = innermost.opcode /\ f.start_types = innermost.start_types
        /\ f.end_types = innermost.end_types /\ f.height = innermost.height
        /\ f.unreachable = TRUE
    BY <1>2 DEF Frame
  <2> HIDE DEF f
  <2> QED BY <1>2, <2>1 DEF Frozen, InnerFrame
<1> HIDE DEF f
<1> QED BY <1>1, <1>3, <1>4, ReplaceFrozen

(* The end of a frame does the same to both. *)
LEMMA EndFrozen ==
  ASSUME JointInv, Together, ctrls # <<>>, NEW instr \in Instructions,
         Allows(instr), Rule(instr), _instr(instr), instr.op = "end"
  PROVE  SameAfter
<1>1. /\ vals' = Closed \o innermost.end_types /\ ctrls' = Outer
      /\ f_stack' = SubSeq(f_stack, 1, _ctrl.height) \o _ctrl.end_types
      /\ f_ctrls' = OuterFrames
  BY DEF Rule, Plainly, Drop, Select, Open, Else, End, BrIf, Leave, Stacks, _instr,
         _numeric, _drop, _open, _else, _end_frame, _branch_if, _unreachable, _set
<1>2. Closed = Base
  BY ClosedIsBase DEF JointInv, Allows, EndAllowed
<1>3. /\ ctrls \in Seq(Frame) /\ f_ctrls = FrozenAll(ctrls)
      /\ Len(f_ctrls) = Len(ctrls) /\ f_stack = vals
      /\ _ctrl = Frozen(innermost)
      /\ \A i \in DOMAIN ctrls : ctrls[i].start_types = <<>>
      /\ vals \in Seq(ValTypes)
  BY InnermostFrozen DEF JointInv, Bare
<1>4. _ctrl.height = innermost.height /\ _ctrl.end_types = innermost.end_types
  BY <1>3 DEF Frozen
<1>5. /\ Len(ctrls) \in Nat /\ Len(ctrls) >= 1
      /\ innermost.height \in 0..Len(vals) /\ innermost.end_types \in Seq(ValTypes)
  BY InnermostFacts DEF JointInv
<1>6. Len(ctrls) - 1 \in 0..Len(ctrls)
  BY <1>5
<1>7. f_stack' = vals' /\ vals' \in Seq(ValTypes)
  <2>1. Base \in Seq(ValTypes)
    BY <1>3, <1>5, SubSeqFacts DEF Base
  <2>2. f_stack' = vals'
    BY <1>1, <1>2, <1>3, <1>4 DEF Base
  <2> QED BY <1>1, <1>2, <1>5, <2>1, <2>2, ConcatFacts
<1>8. f_ctrls' = FrozenAll(ctrls')
  BY <1>1, <1>3, <1>6, FrozenSubSeq DEF OuterFrames, Outer
<1>9. \A i \in DOMAIN ctrls' : ctrls'[i].start_types = <<>>
  <2>1. /\ Outer \in Seq(Frame) /\ Len(Outer) = Len(ctrls) - 1
        /\ \A i \in 1..(Len(ctrls) - 1) : Outer[i] = ctrls[i]
    BY <1>3, <1>6, SubSeqFacts DEF Outer
  <2>2. DOMAIN Outer = 1..(Len(ctrls) - 1) /\ DOMAIN ctrls = 1..Len(ctrls)
    BY <1>3, <2>1
  <2>3. \A i \in DOMAIN Outer : i \in DOMAIN ctrls
    BY <1>5, <2>2
  <2> QED BY <1>1, <1>3, <2>1, <2>2, <2>3
<1> QED BY <1>7, <1>8, <1>9 DEF SameAfter, Bare

----------------------------------------------------------------------------
(* Both start with the function's frame and an empty stack. *)
LEMMA InitJoint == BothInit => JointInv
<1> SUFFICES ASSUME BothInit PROVE JointInv
  OBVIOUS
<1> DEFINE f == ControlFrame("func", <<>>, FuncResults, 0)
<1>1. /\ vals = <<>> /\ ctrls = <<f>> /\ verdict = "validating"
      /\ f_stack = <<>> /\ f_verdict = "validating"
      /\ f_ctrls = <<Control("func", FuncResults, 0)>>
  BY DEF BothInit, VInit, FInit
<1>2. Frozen(f) = Control("func", FuncResults, 0) /\ f.start_types = <<>>
  BY DEF Frozen, Control, ControlFrame
<1> HIDE DEF f
<1>3. Inv
  BY InitInv DEF BothInit
<1>4. SameStacks
  BY <1>1, <1>2 DEF SameStacks
<1>5. SameVerdict /\ Bare
  BY <1>1, <1>2 DEF SameVerdict, Bare
<1> QED BY <1>3, <1>4, <1>5 DEF JointInv

(* An instruction both examine: they pass it or reject it together.        *)
LEMMA ExamineJoint ==
  ASSUME JointInv, NEW instr \in Instructions, Check(instr), Examine(instr)
  PROVE  JointInv'
<1>1. Together /\ FrozenSurface(instr)
  BY DEF Examine, Together
<1>2. Inv'
  BY CheckInv DEF JointInv
<1>3. Passes(instr) <=> Allows(instr)
  BY <1>1, SameRule
<1>4. verdict = "validating" /\ f_verdict = "validating"
  BY DEF Check, Examine
<1>5. CASE Allows(instr)
  <2>1. /\ Rule(instr) /\ verdict' = verdict /\ _instr(instr) /\ f_verdict' = f_verdict
        /\ ctrls # <<>>
    BY <1>3, <1>5 DEF Check, Examine, Allows
  <2>2. ASSUME instr.op \in {"plain", "drop", "br_if"} PROVE SameAfter
    BY <1>1, <1>5, <2>1, <2>2, LevelFrozen
  <2>3. ASSUME instr.op \in {"block", "loop", "if"} PROVE SameAfter
    BY <1>1, <2>1, <2>3, OpenFrozen
  <2>4. ASSUME instr.op = "else" PROVE SameAfter
    BY <1>1, <1>5, <2>1, <2>4, ElseFrozen
  <2>5. ASSUME instr.op = "end" PROVE SameAfter
    BY <1>1, <1>5, <2>1, <2>5, EndFrozen
  <2>6. ASSUME instr.op \in {"br", "br_table", "return"} PROVE SameAfter
    BY <1>1, <2>1, <2>6, LeaveFrozen
  <2>7. SameAfter
    BY <1>1, <2>2, <2>3, <2>4, <2>5, <2>6, SurfaceFacts
  <2> QED BY <1>2, <1>4, <2>1, <2>7
          DEF JointInv, SameAfter, SameStacks, SameVerdict, FrozenAll
<1>6. CASE ~Allows(instr)
  <2>1. /\ verdict' = "rejected" /\ UNCHANGED <<vals, ctrls>>
        /\ f_verdict' = "rejected" /\ UNCHANGED <<f_stack, f_ctrls>>
    BY <1>3, <1>6 DEF Check, Examine
  <2> QED BY <1>1, <1>2, <2>1 DEF JointInv, SameStacks, SameVerdict, Bare, Together
<1> QED BY <1>5, <1>6

(* An instruction given to both keeps them together, or takes the frozen   *)
(* one out.                                                                *)
LEMMA BothJoint ==
  ASSUME JointInv, NEW instr \in Instructions, Both(instr)
  PROVE  JointInv'
<1>1. Check(instr)
  BY DEF Both
<1>2. CASE Examine(instr)
  BY <1>1, <1>2, ExamineJoint
<1>3. CASE TurnAway(instr) \/ Absent
  <2>1. f_verdict' = "unsupported"
    BY <1>3 DEF TurnAway, Absent, fvars
  <2>2. Inv'
    BY <1>1, CheckInv DEF JointInv
  <2> QED BY <2>1, <2>2 DEF JointInv, SameStacks, SameVerdict, Together
<1> QED BY <1>2, <1>3 DEF Both

(* The ends: a frozen stack that is not the function's results cannot be   *)
(* left when every frame is closed.                                        *)
LEMMA FinishJoint ==
  ASSUME JointInv, BothFinish
  PROVE  JointInv'
<1>1. Finish /\ verdict = "validating" /\ UNCHANGED <<body, vals, ctrls>>
      /\ verdict' = IF ctrls = <<>> THEN "accepted" ELSE "rejected"
  BY DEF BothFinish, Finish
<1>2. Inv'
  <2>1. VNext
    BY <1>1 DEF VNext
  <2> QED BY <2>1, NextInv DEF JointInv
<1>3. CASE Conclude
  <2>1. /\ Together /\ UNCHANGED <<f_stack, f_ctrls>>
        /\ f_verdict' = IF f_ctrls = <<>> /\ f_stack = FuncResults
                        THEN "accepted" ELSE "rejected"
    BY <1>3 DEF Conclude, Together
  <2>2. f_ctrls = <<>> <=> ctrls = <<>>
    <3>1. ctrls \in Seq(Frame) /\ f_ctrls = FrozenAll(ctrls)
      BY <2>1 DEF JointInv, Together, SameStacks, FrozenAll, Inv, VTypeOK, Frame
    <3> QED BY <3>1 DEF FrozenAll
  <2>3. ctrls = <<>> => f_stack = FuncResults
    BY <2>1 DEF JointInv, Together, SameStacks, Inv, Whole
  <2>4. f_verdict' = verdict'
    BY <1>1, <2>1, <2>2, <2>3
  <2> QED BY <1>1, <1>2, <2>1, <2>4
          DEF JointInv, SameStacks, SameVerdict, Bare, Together
<1>4. CASE Absent
  <2>1. f_verdict' = "unsupported"
    BY <1>4 DEF Absent, fvars
  <2> QED BY <1>2, <2>1 DEF JointInv, SameStacks, SameVerdict, Together
<1> QED BY <1>3, <1>4 DEF BothFinish

(* As long as every instruction is on the frozen surface, the two          *)
(* validators keep equal stacks and an equal verdict.                      *)
THEOREM JointInvariance == BothSpec => []JointInv
<1>1. JointInv /\ [BothNext]_bvars => JointInv'
  <2> SUFFICES ASSUME JointInv, [BothNext]_bvars PROVE JointInv'
    OBVIOUS
  <2>1. CASE BothFinish
    BY <2>1, FinishJoint
  <2>2. ASSUME NEW instr \in Instructions, Both(instr) PROVE JointInv'
    BY <2>2, BothJoint
  <2>3. CASE UNCHANGED bvars
    BY <2>3 DEF bvars, vvars, fvars, JointInv, Inv, VTypeOK, Nested, Whole, innermost,
                SameStacks, SameVerdict, Bare, Together
  <2> QED BY <2>1, <2>2, <2>3 DEF BothNext
<1> QED BY <1>1, InitJoint, PTL DEF BothSpec

(* While a body stays on the frozen surface the two validators hold the    *)
(* same stacks, frame by frame.                                            *)
THEOREM StacksStayTheSame == BothSpec => []SameStacks
<1>1. JointInv => SameStacks
  BY DEF JointInv
<1> QED BY <1>1, JointInvariance, PTL

(* The M5 validator accepts and rejects exactly the bodies of the frozen   *)
(* surface that the frozen one does, at the same instruction.              *)
THEOREM VerdictsStayTheSame == BothSpec => []SameVerdict
<1>1. JointInv => SameVerdict
  BY DEF JointInv
<1> QED BY <1>1, JointInvariance, PTL

(* Both: the M5 validator is the frozen one on the frozen surface.         *)
THEOREM JudgementsStayTheSame == BothSpec => []SameJudgement
<1>1. SameStacks /\ SameVerdict => SameJudgement
  BY DEF SameJudgement
<1> QED BY <1>1, StacksStayTheSame, VerdictsStayTheSame, PTL

----------------------------------------------------------------------------
(* The composition implements the validator: running a body changes none   *)
(* of the validator's state.                                               *)
THEOREM Validates == Spec => VSpec
<1>1. Init => VInit
  BY DEF Init
<1>2. [Next]_vars => [VNext]_vvars
  <2>1. Validate => VNext
    BY DEF Validate, VNext
  <2>2. Run => UNCHANGED vvars
    BY DEF Run
  <2>3. UNCHANGED vars => UNCHANGED vvars
    BY DEF vars
  <2> QED BY <2>1, <2>2, <2>3 DEF Next
<1> QED BY <1>1, <1>2, PTL DEF Spec, VSpec

(* The validator's stack discipline, in the composition: types, the order  *)
(* of the frames, and exactly the results left by an accepted body.        *)
THEOREM ValidatedBodies == Spec => []StackDiscipline
  BY Validates, StackDisciplineHolds, PTL

----------------------------------------------------------------------------
(* The validator's stacks: at present, and before each instruction of the  *)
(* body (hist[p] is what it had before body[p]).                           *)
State == [vals : Seq(Vals), ctrls : Seq(Frame)]
now == [vals |-> vals, ctrls |-> ctrls]
hist == Append(trace, now)
Depth(p) == Len(hist[p].ctrls)

(* The innermost frame of a state, the operands below it, and whether code *)
(* is reachable there.                                                     *)
Inner(s) == s.ctrls[Len(s.ctrls)]
Under(s) == SubSeq(s.vals, 1, Inner(s).height)
Live(s) == \A j \in DOMAIN s.ctrls : ~s.ctrls[j].unreachable

(* What a branch to the frame takes: a loop is entered again.              *)
LTypes(f) == IF f.opcode = "loop" THEN f.start_types ELSE f.end_types

(* The function's frame is outermost, and frames begin at heights in order *)
(* and within the stack.                                                   *)
Ordered(s) ==
  /\ s.ctrls # <<>> => /\ s.ctrls[1].opcode = "func" /\ s.ctrls[1].height = 0
                       /\ s.ctrls[1].end_types = FuncResults
  /\ \A j, k \in DOMAIN s.ctrls : j <= k => s.ctrls[j].height <= s.ctrls[k].height
  /\ \A k \in DOMAIN s.ctrls : s.ctrls[k].height <= Len(s.vals)

(* A wildcard lies above the height of an unreachable frame.               *)
Known ==
  \A k \in DOMAIN vals : vals[k] = Unknown =>
    \E j \in DOMAIN ctrls : ctrls[j].unreachable /\ ctrls[j].height < k

(* What a rule leads to, in reachable code or not.  It leaves what lies    *)
(* below the innermost frame alone (Keeps); an opener opens one frame, an  *)
(* else replaces it, an end closes it, any other rule leaves the frames.   *)
Keeps(s, t) ==
  /\ s.ctrls # <<>>
  /\ \A k \in 1..Inner(s).height : t.vals[k] = s.vals[k]
  /\ \A j \in 1..(Len(s.ctrls) - 1) : t.ctrls[j] = s.ctrls[j]
Opens(s, i, t) ==
  LET n == Len(s.ctrls) h == Len(t.vals) - Len(i.type.params)
  IN  /\ Len(t.ctrls) = n + 1 /\ t.ctrls[n] = Inner(s)
      /\ t.ctrls[n + 1] = ControlFrame(i.op, i.type.params, i.type.results, h)
      /\ Inner(s).height <= h /\ t.vals = SubSeq(t.vals, 1, h) \o i.type.params
Elses(s, t) ==
  LET f == Inner(s)
  IN  /\ f.opcode = "if" /\ Len(t.ctrls) = Len(s.ctrls)
      /\ Inner(t) = ControlFrame("else", f.start_types, f.end_types, f.height)
      /\ t.vals = Under(s) \o f.start_types
Ends(s, t) ==
  LET f == Inner(s)
  IN  /\ Len(t.ctrls) = Len(s.ctrls) - 1 /\ t.vals = Under(s) \o f.end_types
      /\ f.opcode = "if" => f.start_types = f.end_types
Stays(s, t) ==
  Len(t.ctrls) = Len(s.ctrls) /\ Inner(t) \in {Inner(s), [Inner(s) EXCEPT !.unreachable = TRUE]}
Shape(s, i, t) ==
  /\ Keeps(s, t)
  /\ i.op \in Openers => Opens(s, i, t)
  /\ i.op = "else" => Elses(s, t)
  /\ i.op = "end" => Ends(s, t)
  /\ i.op \notin Openers \cup {"else", "end"} => Stays(s, t)

(* The operands vs have on top what label d takes.                         *)
Takes(s, vs, d) ==
  LET n == Len(s.ctrls) ts == LTypes(s.ctrls[n - d])
  IN  /\ d < n /\ Inner(s).height <= Len(vs) /\ Len(ts) <= Len(vs)
      /\ SubSeq(vs, Len(vs) - Len(ts) + 1, Len(vs)) = ts

(* What a rule leads to in reachable code: its operands are on the stack,  *)
(* and its results take their place.                                       *)
Steps(s, i, t) ==
  LET n == Len(s.vals) Less(k) == SubSeq(s.vals, 1, n - k)
  IN  /\ i.op = "plain" => /\ Len(i.type.params) <= n /\ t.ctrls = s.ctrls
                           /\ t.vals = Less(Len(i.type.params)) \o i.type.results
      /\ i.op = "drop" => 1 <= n /\ t.ctrls = s.ctrls /\ t.vals = Less(1)
      /\ i.op = "select" => /\ 3 <= n /\ t.ctrls = s.ctrls /\ s.vals[n - 2] = s.vals[n - 1]
                            /\ t.vals = Append(Less(3), s.vals[n - 1])
      /\ i.op \in {"block", "loop"} => t.vals = s.vals
      /\ i.op = "if" => 1 <= n /\ t.vals = Less(1)
      /\ i.op \in {"else", "end"} => s.vals = Under(s) \o Inner(s).end_types
      /\ i.op = "br" => Takes(s, s.vals, i.label)
      /\ i.op = "br_if" => /\ 1 <= n /\ Takes(s, Less(1), i.label)
                           /\ t.ctrls = s.ctrls /\ t.vals = Less(1)
      /\ i.op = "br_table" =>
           1 <= n /\ LET all == Append(i.targets, i.default)
                     IN  \A k \in DOMAIN all : Takes(s, Less(1), all[k])
      /\ i.op = "return" => Takes(s, s.vals, Len(s.ctrls) - 1)

(* The history.  Recorded: one state per instruction.  Fresh: it begins    *)
(* with the function's frame.  Orderly: all of its states are.  Follows:   *)
(* each comes from the one before it by the rule of its instruction.       *)
Recorded == trace \in Seq(State) /\ Len(trace) = Len(body)
Fresh ==
  hist[1].vals = <<>> /\ hist[1].ctrls = <<ControlFrame("func", <<>>, FuncResults, 0)>>
Orderly == \A p \in 1..(Len(body) + 1) : Ordered(hist[p])
Follows ==
  \A p \in 1..Len(body) :
    /\ Shape(hist[p], body[p], hist[p + 1])
    /\ Live(hist[p]) => Steps(hist[p], body[p], hist[p + 1])

(* The counting of openers and ends by which Machine5 finds a block's end  *)
(* is the difference of the depths; so each opener is closed at its own    *)
(* depth, or is still open (Spans).                                        *)
Counted ==
  \A p \in 1..(Len(body) + 1) : \A q \in (p - 1)..Len(body) : OpenIn(p, q) = Depth(q + 1) - Depth(p)
Within(o, p) == \A r \in (o + 1)..p : Depth(r) > Depth(o)
Spans ==
  \A o \in 1..Len(body) : body[o].op \in Openers =>
    \/ \E q \in (o + 1)..Len(body) : Depth(q + 1) = Depth(o) /\ Within(o, q)
    \/ Within(o, Len(body) + 1)

(* Two states inside the i-th frame of one block: the frames around it,    *)
(* its types and the operands below it are the same.                       *)
SameBlock(s, t, i) ==
  /\ i \in DOMAIN s.ctrls /\ i \in DOMAIN t.ctrls
  /\ \A j \in 1..(i - 1) : t.ctrls[j] = s.ctrls[j]
  /\ t.ctrls[i].height = s.ctrls[i].height
  /\ t.ctrls[i].start_types = s.ctrls[i].start_types
  /\ t.ctrls[i].end_types = s.ctrls[i].end_types
  /\ \A k \in 1..s.ctrls[i].height : t.vals[k] = s.vals[k]

(* From its opener on and as long as it is open, a block stays the same,   *)
(* but for an if whose frame an else replaced.                             *)
Stable ==
  \A o \in 1..Len(body) : \A p \in (o + 1)..(Len(body) + 1) :
    body[o].op \in Openers /\ Within(o, p) =>
      LET i == Depth(o) + 1
      IN  /\ SameBlock(hist[o + 1], hist[p], i)
          /\ \/ hist[p].ctrls[i].opcode = body[o].op
             \/ /\ body[o].op = "if" /\ hist[p].ctrls[i].opcode = "else"
                /\ \E q \in (o + 1)..(p - 1) : body[q].op = "else" /\ Depth(q + 1) = i

(* What Running says of a machine at instruction p with the labels ls: each *)
(* label is that of a block around p, and the operand stack vs is the       *)
(* validator's, or that of a branch on its way.                             *)
Labels == [arity : Nat, base : Nat, again : Nat, after : Nat]
BlockLabel(o) ==
  LET f == hist[o + 1].ctrls[Depth(o) + 1]
  IN  Label(Len(LTypes(f)), f.height, IF body[o].op = "loop" THEN o + 1 ELSE 0, EndOf(o))
Opened(ls, i, o, p) ==
  /\ o \in 1..Len(body) /\ body[o].op \in Openers /\ Depth(o) = i - 1
  /\ o < p /\ p <= EndOf(o) /\ ls[i] = BlockLabel(o)
LabelsAt(ls, p) ==
  /\ ls \in Seq(Labels) /\ Len(ls) > 0 /\ p \in 1..Len(body)
  /\ ls[1] = Label(Len(FuncResults), 0, 0, Len(body))
  /\ \A i \in 2..Len(ls) : \E o \in 1..Len(body) : Opened(ls, i, o, p)
Arrived(ls, p, vs) ==
  LET at == hist[p]
  IN  /\ Len(ls) = Depth(p)
      /\ \A j \in 1..(Len(ls) - 1) : ~at.ctrls[j].unreachable
      /\ \/ Live(at) /\ vs = at.vals
         \/ body[p].op = "end" /\ vs = Under(at) \o Inner(at).end_types
Unwinding(ls, p, vs, d) ==
  LET f == hist[p].ctrls[Len(ls) - d]
  IN  /\ d \in 0..(Len(ls) - 1) /\ Live(hist[p])
      /\ vs = SubSeq(hist[p].vals, 1, f.height) \o LTypes(f)
Running ==
  outcome = "running" =>
    /\ verdict = "accepted" /\ LabelsAt(labels, pc)
    /\ IF branch = -1 THEN Arrived(labels, pc, stack)
       ELSE Unwinding(labels, pc, stack, branch)

----------------------------------------------------------------------------
(* Sequences.                                                              *)
LEMMA ElementOf ==
  ASSUME NEW S, NEW s \in Seq(S), NEW k \in 1..Len(s)
  PROVE  s[k] \in S
  OBVIOUS

(* The elements of a concatenation. *)
LEMMA ConcatAt ==
  ASSUME NEW S, NEW s \in Seq(S), NEW t \in Seq(S)
  PROVE  /\ \A k \in 1..Len(s) : (s \o t)[k] = s[k]
         /\ \A k \in 1..Len(t) : (s \o t)[Len(s) + k] = t[k]
  OBVIOUS

(* The elements of a sequence with one appended. *)
LEMMA AppendAt ==
  ASSUME NEW S, NEW s \in Seq(S), NEW x \in S
  PROVE  /\ Append(s, x) \in Seq(S) /\ Len(Append(s, x)) = Len(s) + 1
         /\ \A k \in 1..Len(s) : Append(s, x)[k] = s[k]
         /\ Append(s, x)[Len(s) + 1] = x
  OBVIOUS

(* Sequences of one length with the same elements are equal. *)
LEMMA Alike ==
  ASSUME NEW S, NEW s \in Seq(S), NEW t \in Seq(S), Len(s) = Len(t),
         \A k \in 1..Len(s) : s[k] = t[k]
  PROVE  s = t
  OBVIOUS

(* Cutting a concatenation at its seam gives the first part. *)
LEMMA Prefix ==
  ASSUME NEW S, NEW s \in Seq(S), NEW t \in Seq(S)
  PROVE  SubSeq(s \o t, 1, Len(s)) = s
<1>1. s \o t \in Seq(S) /\ Len(s \o t) = Len(s) + Len(t) /\ Len(s) \in Nat /\ Len(t) \in Nat
  BY ConcatFacts
<1>2. /\ SubSeq(s \o t, 1, Len(s)) \in Seq(S) /\ Len(SubSeq(s \o t, 1, Len(s))) = Len(s)
      /\ \A k \in 1..Len(s) : SubSeq(s \o t, 1, Len(s))[k] = (s \o t)[k]
  <2>1. Len(s) \in 0..Len(s \o t)
    BY <1>1
  <2> HIDE DEF SubSeq
  <2> QED BY <1>1, <2>1, SubSeqFacts
<1>3. \A k \in 1..Len(s) : (s \o t)[k] = s[k]
  BY ConcatAt
<1> QED BY <1>2, <1>3, Alike

(* Prefixes that agree up to their length.                                 *)
LEMMA SamePrefix ==
  ASSUME NEW S, NEW s \in Seq(S), NEW t \in Seq(S), NEW n \in Nat,
         n <= Len(s), n <= Len(t), \A k \in 1..n : s[k] = t[k]
  PROVE  SubSeq(s, 1, n) = SubSeq(t, 1, n)
<1>1. n \in 0..Len(s) /\ n \in 0..Len(t)
  OBVIOUS
<1>2. /\ SubSeq(s, 1, n) \in Seq(S) /\ Len(SubSeq(s, 1, n)) = n
      /\ \A k \in 1..n : SubSeq(s, 1, n)[k] = s[k]
  BY <1>1, SubSeqFacts
<1>3. /\ SubSeq(t, 1, n) \in Seq(S) /\ Len(SubSeq(t, 1, n)) = n
      /\ \A k \in 1..n : SubSeq(t, 1, n)[k] = t[k]
  BY <1>1, SubSeqFacts
<1> QED BY <1>2, <1>3, Alike

(* The last n elements of a sequence. *)
LEMMA Suffix ==
  ASSUME NEW S, NEW s \in Seq(S), NEW n \in 0..Len(s)
  PROVE  /\ SubSeq(s, Len(s) - n + 1, Len(s)) \in Seq(S)
         /\ Len(SubSeq(s, Len(s) - n + 1, Len(s))) = n
         /\ \A k \in 1..n : SubSeq(s, Len(s) - n + 1, Len(s))[k] = s[Len(s) - n + k]
  OBVIOUS

----------------------------------------------------------------------------
(* States of the validator.                                                *)
LEMMA StateFacts ==
  ASSUME NEW s \in State
  PROVE  /\ s.vals \in Seq(Vals) /\ s.ctrls \in Seq(Frame)
         /\ Len(s.vals) \in Nat /\ Len(s.ctrls) \in Nat
         /\ s.ctrls # <<>> <=> Len(s.ctrls) >= 1
<1>1. s.vals \in Seq(Vals) /\ s.ctrls \in Seq(Frame)
  BY DEF State
<1>2. Len(s.vals) \in Nat /\ Len(s.ctrls) \in Nat
  BY <1>1
<1>3. s.ctrls # <<>> <=> Len(s.ctrls) >= 1
  BY <1>1
<1> QED BY <1>1, <1>2, <1>3

(* A control frame's fields, typed; its label takes a sequence of value    *)
(* types.                                                                  *)
LEMMA FrameFacts ==
  ASSUME NEW f \in Frame
  PROVE  /\ f.opcode \in Opcodes /\ f.height \in Nat /\ f.unreachable \in BOOLEAN
         /\ f.start_types \in Seq(ValTypes) /\ f.end_types \in Seq(ValTypes)
         /\ f.start_types \in Seq(Vals) /\ f.end_types \in Seq(Vals)
         /\ LTypes(f) \in Seq(ValTypes) /\ LTypes(f) \in Seq(Vals) /\ Len(LTypes(f)) \in Nat
<1>1. /\ f.opcode \in Opcodes /\ f.height \in Nat /\ f.unreachable \in BOOLEAN
      /\ f.start_types \in Seq(ValTypes) /\ f.end_types \in Seq(ValTypes)
  BY DEF Frame
<1>2. f.start_types \in Seq(Vals) /\ f.end_types \in Seq(Vals)
  BY <1>1 DEF Vals
<1>3. LTypes(f) \in Seq(ValTypes) /\ LTypes(f) \in Seq(Vals)
  BY <1>1, <1>2 DEF LTypes
<1>4. Len(LTypes(f)) \in Nat
  BY <1>3
<1> QED BY <1>1, <1>2, <1>3, <1>4

(* The stack below the innermost frame is as long as that frame's height. *)
LEMMA InnerFacts ==
  ASSUME NEW s \in State, s.ctrls # <<>>, Ordered(s)
  PROVE  /\ Inner(s) \in Frame /\ Inner(s).height <= Len(s.vals)
         /\ Under(s) \in Seq(Vals) /\ Len(Under(s)) = Inner(s).height
         /\ \A k \in 1..Inner(s).height : Under(s)[k] = s.vals[k]
<1>1. Len(s.ctrls) \in 1..Len(s.ctrls) /\ s.ctrls \in Seq(Frame) /\ s.vals \in Seq(Vals)
  BY StateFacts
<1>2. Inner(s) \in Frame /\ Inner(s).height <= Len(s.vals)
  BY <1>1 DEF Inner, Ordered
<1>3. Inner(s).height \in 0..Len(s.vals)
  BY <1>1, <1>2, FrameFacts
<1> QED BY <1>1, <1>2, <1>3, SubSeqFacts DEF Under

(* The validator's stacks, as one state. *)
LEMMA NowFacts ==
  ASSUME Inv
  PROVE  /\ now \in State /\ now.vals = vals /\ now.ctrls = ctrls
         /\ body \in Seq(Instructions) /\ Len(body) \in Nat
         /\ (ctrls # <<>> => Inner(now) = innermost /\ Under(now) = Base)
<1>1. vals \in Seq(Vals) /\ ctrls \in Seq(Frame) /\ body \in Seq(Instructions)
  BY DEF Inv, VTypeOK, Frame, Vals
<1>2. now \in State /\ now.vals = vals /\ now.ctrls = ctrls
  BY <1>1 DEF now, State
<1>3. Len(body) \in Nat
  BY <1>1
<1> QED BY <1>1, <1>2, <1>3 DEF Inner, Under, innermost, Base

(* The recorded states, one before each instruction of the body and the    *)
(* present one.                                                            *)
LEMMA HistFacts ==
  ASSUME Inv, Recorded
  PROVE  /\ hist \in Seq(State) /\ Len(hist) = Len(body) + 1
         /\ \A p \in 1..Len(body) : hist[p] = trace[p]
         /\ hist[Len(body) + 1] = now
<1>1. now \in State
  BY NowFacts
<1> QED BY <1>1, AppendAt DEF hist, Recorded

(* Each of them is a state of the validator. *)
LEMMA HistState ==
  ASSUME Inv, Recorded, NEW p \in 1..(Len(body) + 1)
  PROVE  /\ hist[p] \in State
         /\ Depth(p) = Len(hist[p].ctrls) /\ Depth(p) \in Nat
<1>1. hist[p] \in State
  BY HistFacts
<1> QED BY <1>1, StateFacts DEF Depth

----------------------------------------------------------------------------
(* What the rules do to the two stacks.                                    *)
LEMMA PoppedIs ==
  ASSUME Inv, ctrls # <<>>, NEW n \in Nat
  PROVE  \E m \in innermost.height..Len(vals) :
           /\ Popped(n) = SubSeq(vals, 1, m) /\ m \in 0..Len(vals)
           /\ n <= Available => m = Len(vals) - n
<1>1. innermost.height \in 0..Len(vals) /\ Len(vals) \in Nat
  BY InnermostFacts
<1> DEFINE m == IF n <= Available THEN Len(vals) - n ELSE innermost.height
<1>2. m \in innermost.height..Len(vals) /\ m \in 0..Len(vals)
  BY <1>1 DEF Available
<1>3. Popped(n) = SubSeq(vals, 1, m)
  BY DEF Popped
<1>4. n <= Available => m = Len(vals) - n
  OBVIOUS
<1> HIDE DEF m
<1> QED BY <1>2, <1>3, <1>4

(* A rule that pops and pushes leaves what lies below alone. *)
LEMMA PoppedKeeps ==
  ASSUME Inv, ctrls # <<>>, NEW n \in Nat, NEW ts \in Seq(Vals)
  PROVE  /\ Popped(n) \o ts \in Seq(Vals)
         /\ Len(Popped(n) \o ts) = Len(Popped(n)) + Len(ts)
         /\ Len(Popped(n)) \in innermost.height..Len(vals)
         /\ n <= Available => /\ Len(Popped(n)) = Len(vals) - n
                              /\ Popped(n) = SubSeq(vals, 1, Len(vals) - n)
         /\ \A k \in 1..Len(Popped(n)) : (Popped(n) \o ts)[k] = vals[k]
         /\ \A k \in 1..Len(ts) : (Popped(n) \o ts)[Len(Popped(n)) + k] = ts[k]
<1>1. PICK m \in innermost.height..Len(vals) :
           /\ Popped(n) = SubSeq(vals, 1, m) /\ m \in 0..Len(vals)
           /\ n <= Available => m = Len(vals) - n
  BY PoppedIs
<1>2. vals \in Seq(Vals)
  BY DEF Inv, VTypeOK, Vals
<1>3. /\ Popped(n) \in Seq(Vals) /\ Len(Popped(n)) = m
      /\ \A k \in 1..m : Popped(n)[k] = vals[k]
  BY <1>1, <1>2, SubSeqFacts
<1>4. /\ Popped(n) \o ts \in Seq(Vals)
      /\ Len(Popped(n) \o ts) = Len(Popped(n)) + Len(ts)
  BY ONLY <1>3, ts \in Seq(Vals), ConcatFacts
<1>5. /\ \A k \in 1..Len(Popped(n)) : (Popped(n) \o ts)[k] = Popped(n)[k]
      /\ \A k \in 1..Len(ts) : (Popped(n) \o ts)[Len(Popped(n)) + k] = ts[k]
  BY ONLY <1>3, ts \in Seq(Vals), ConcatAt
<1> HIDE DEF Popped
<1> QED BY <1>1, <1>3, <1>4, <1>5

\* A level rule never brings an Unknown to a stack without one.
LEMMA LevelFacts ==
  ASSUME Inv, ctrls # <<>>, NEW i \in Instructions, Allows(i),
         Plainly(i) \/ Drop(i) \/ Select(i) \/ BrIf(i)
  PROVE  /\ ctrls' = ctrls /\ i.op \in {"plain", "drop", "select", "br_if"}
         /\ \E n \in Nat, ts \in Seq(Vals) :
              /\ vals' = Popped(n) \o ts
              /\ (\E k \in 1..Len(ts) : ts[k] = Unknown) =>
                   innermost.unreachable \/ \E k \in 1..Len(vals) : vals[k] = Unknown
<1>0. \A ts \in Seq(ValTypes) : ts \in Seq(Vals) /\ \A k \in 1..Len(ts) : ts[k] # Unknown
  BY ValidatorAssumption DEF Vals
<1>1. CASE Plainly(i)
  <2>1. i.op = "plain" /\ ctrls' = ctrls
        /\ vals' = Popped(Len(i.type.params)) \o i.type.results
    BY <1>1 DEF Plainly, Stacks
  <2>2. i.type.params \in Seq(ValTypes) /\ i.type.results \in Seq(ValTypes)
    BY <2>1, InstrFacts
  <2>3. Len(i.type.params) \in Nat
    BY <2>2
  <2> QED BY <1>0, <2>1, <2>2, <2>3
<1>2. CASE Drop(i)
  <2>1. i.op = "drop" /\ ctrls' = ctrls /\ vals' = Popped(1)
    BY <1>2 DEF Drop, Stacks
  <2>2. 1 \in Nat /\ Popped(1) \in Seq(Vals)
    BY PoppedFacts
  <2>3. vals' = Popped(1) \o <<>> /\ <<>> \in Seq(Vals) /\ Len(<<>>) = 0
    BY <2>1, <2>2
  <2>4. ~ \E k \in 1..Len(<<>>) : <<>>[k] = Unknown
    BY <2>3
  <2> QED BY <2>1, <2>2, <2>3, <2>4
<1>3. CASE Select(i)
  <2> DEFINE v == IF Operand(1) # Unknown THEN Operand(1) ELSE Operand(2)
  <2>1. i.op = "select" /\ ctrls' = ctrls /\ vals' = Append(Popped(3), v)
    BY <1>3 DEF Select, Stacks
  <2>2. 3 \in Nat /\ Popped(3) \in Seq(Vals)
    BY PoppedFacts
  <2>3. /\ vals \in Seq(Vals) /\ Len(vals) \in Nat /\ innermost.height \in Nat
    BY InnermostFacts DEF Inv, VTypeOK, Vals
  <2>4. ASSUME NEW j \in {1, 2} PROVE Operand(j) \in Vals
    <3>2. CASE j < Available
      <4>1. Len(vals) - j \in 1..Len(vals)
        BY <2>3, <3>2 DEF Available
      <4> QED BY <2>3, <3>2, <4>1 DEF Operand
    <3>3. CASE ~(j < Available)
      BY <3>3 DEF Operand, Vals
    <3> QED BY <3>2, <3>3
  <2>5. v \in Vals
    BY <2>4
  <2>6. v = Unknown => innermost.unreachable \/ \E k \in 1..Len(vals) : vals[k] = Unknown
    <3>1. SUFFICES ASSUME Operand(1) = Unknown, ~innermost.unreachable
                   PROVE  \E k \in 1..Len(vals) : vals[k] = Unknown
      OBVIOUS
    <3>2. Len(<<Unknown, Unknown, "i32">>) <= Available
      BY <2>1, <3>1 DEF Allows, SelectAllowed, CanPop
    <3>3. 1 < Available /\ Len(vals) - 1 \in 1..Len(vals)
      BY <2>3, <3>2 DEF Available
    <3> QED BY <3>1, <3>3 DEF Operand
  <2> HIDE DEF v
  <2>7. /\ vals' = Popped(3) \o <<v>> /\ <<v>> \in Seq(Vals)
        /\ Len(<<v>>) = 1 /\ <<v>>[1] = v
    BY <2>1, <2>2, <2>5
  <2>8. \A k \in 1..Len(<<v>>) : <<v>>[k] = v
    BY <2>7
  <2>9. (\E k \in 1..Len(<<v>>) : <<v>>[k] = Unknown) =>
           innermost.unreachable \/ \E k \in 1..Len(vals) : vals[k] = Unknown
    BY <2>6, <2>8
  <2> QED BY <2>1, <2>2, <2>7, <2>9
<1>4. CASE BrIf(i)
  <2> DEFINE types == LabelTypes(i.label)
  <2>1. /\ i.op = "br_if" /\ ctrls' = ctrls
        /\ vals' = Popped(Len(types) + 1) \o types
    BY <1>4 DEF BrIf, Stacks
  <2>2. types \in Seq(ValTypes)
    <3>1. HasLabel(i.label) /\ i.label \in Nat
      BY <2>1, InstrFacts DEF Allows, BrIfAllowed
    <3>2. ctrls \in Seq(Frame) /\ Len(ctrls) \in Nat
      BY DEF Inv, VTypeOK, Frame
    <3>3. Len(ctrls) - i.label \in 1..Len(ctrls)
      BY <3>1, <3>2 DEF HasLabel
    <3>4. ctrls[Len(ctrls) - i.label] \in Frame
      BY <3>2, <3>3
    <3> QED BY <3>4 DEF LabelTypes, Frame
  <2> HIDE DEF types
  <2>3. Len(types) + 1 \in Nat
    BY <2>2
  <2> QED BY <1>0, <2>1, <2>2, <2>3
<1> QED BY <1>1, <1>2, <1>3, <1>4

\* Without its results, a frame that may be closed leaves what is under it.
LEMMA ClosedIs ==
  ASSUME Inv, ctrls # <<>>, CanClose, NEW ts \in Seq(Vals)
  PROVE  /\ Closed = Under(now) /\ Closed \o ts \in Seq(Vals)
         /\ \A k \in 1..innermost.height : (Closed \o ts)[k] = vals[k]
<1>1. Len(Closed) = innermost.height /\ Closed \in Seq(Vals)
  BY ClosedFacts
<1>2. innermost.end_types \in Seq(ValTypes) /\ innermost.height \in Nat
  BY InnermostFacts
<1>3. Len(innermost.end_types) \in Nat
  BY <1>2
<1>4. /\ Closed \o ts \in Seq(Vals)
      /\ \A k \in 1..Len(Closed) : (Closed \o ts)[k] = vals[k]
  BY <1>3, PoppedKeeps DEF Closed
<1>5. PICK m \in innermost.height..Len(vals) :
           Closed = SubSeq(vals, 1, m) /\ m \in 0..Len(vals)
  BY <1>3, PoppedIs DEF Closed
<1>6. vals \in Seq(Vals)
  BY DEF Inv, VTypeOK, Vals
<1>7. Len(Closed) = m
  BY <1>5, <1>6, SubSeqFacts
<1>8. Closed = Base
  BY <1>1, <1>5, <1>7 DEF Base
<1> QED BY <1>1, <1>4, <1>8, NowFacts

\* The frames outside the innermost one.
LEMMA OuterIs ==
  ASSUME Inv, ctrls # <<>>, NEW f \in Frame
  PROVE  /\ Outer \in Seq(Frame) /\ Len(Outer) = Len(ctrls) - 1
         /\ \A j \in 1..(Len(ctrls) - 1) : Outer[j] = ctrls[j]
         /\ Append(Outer, f) \in Seq(Frame) /\ Len(Append(Outer, f)) = Len(ctrls)
         /\ \A j \in 1..(Len(ctrls) - 1) : Append(Outer, f)[j] = ctrls[j]
         /\ Append(Outer, f)[Len(ctrls)] = f
<1>1. ctrls \in Seq(Frame) /\ Len(ctrls) \in Nat /\ Len(ctrls) - 1 \in 0..Len(ctrls)
  BY InnermostFacts DEF Inv, VTypeOK, Frame
<1>2. /\ Outer \in Seq(Frame) /\ Len(Outer) = Len(ctrls) - 1
      /\ \A j \in 1..(Len(ctrls) - 1) : Outer[j] = ctrls[j]
  BY <1>1, SubSeqFacts DEF Outer
<1>3. /\ Append(Outer, f) \in Seq(Frame) /\ Len(Append(Outer, f)) = Len(Outer) + 1
      /\ \A j \in 1..Len(Outer) : Append(Outer, f)[j] = Outer[j]
      /\ Append(Outer, f)[Len(Outer) + 1] = f
  BY ONLY <1>2, f \in Frame, AppendAt
<1> HIDE DEF Outer
<1> QED BY <1>1, <1>2, <1>3

(* The rules that keep the frames: plain, drop, select, br_if. *)
LEMMA LevelShape ==
  ASSUME Inv, ctrls # <<>>, NEW i \in Instructions, Allows(i),
         Plainly(i) \/ Drop(i) \/ Select(i) \/ BrIf(i),
         NEW t, t.vals = vals', t.ctrls = ctrls'
  PROVE  Shape(now, i, t)
<1>1. /\ ctrls' = ctrls /\ i.op \in {"plain", "drop", "select", "br_if"}
      /\ \E n \in Nat, ts \in Seq(Vals) : vals' = Popped(n) \o ts
  BY LevelFacts
<1>2. PICK n \in Nat, ts \in Seq(Vals) : vals' = Popped(n) \o ts
  BY <1>1
<1>3. innermost.height \in Nat
  BY InnermostFacts
<1>4. \A k \in 1..innermost.height : vals'[k] = vals[k]
  <2>1. /\ Len(Popped(n)) \in innermost.height..Len(vals)
        /\ \A k \in 1..Len(Popped(n)) : (Popped(n) \o ts)[k] = vals[k]
    BY PoppedKeeps
  <2> QED BY <1>2, <1>3, <2>1
<1>5. Keeps(now, t)
  BY <1>1, <1>4, NowFacts DEF Keeps
<1>6. Stays(now, t)
  BY <1>1, NowFacts DEF Stays, Inner
<1> QED BY <1>1, <1>5, <1>6 DEF Shape, Openers

(* block, loop and if open one frame. *)
LEMMA OpenShape ==
  ASSUME Inv, ctrls # <<>>, NEW i \in Instructions, Open(i),
         NEW t, t.vals = vals', t.ctrls = ctrls'
  PROVE  Shape(now, i, t)
<1> DEFINE n == Len(i.type.params) + (IF i.op = "if" THEN 1 ELSE 0)
           f == ControlFrame(i.op, i.type.params, i.type.results, Len(Popped(n)))
<1>1. /\ i.op \in {"block", "loop", "if"}
      /\ vals' = Popped(n) \o i.type.params /\ ctrls' = Append(ctrls, f)
  BY DEF Open, Stacks
<1>2. i.type.params \in Seq(ValTypes)
  BY <1>1, InstrFacts
<1>3. i.type.params \in Seq(Vals) /\ Len(i.type.params) \in Nat
  BY <1>2 DEF Vals
<1>4. n \in Nat
  <2>1. \A m \in Nat : m + (IF i.op = "if" THEN 1 ELSE 0) \in Nat
    OBVIOUS
  <2> QED BY <1>3, <2>1, Zenon
<1> DEFINE below == Popped(n)
<1>5. /\ Len(vals') = Len(below) + Len(i.type.params)
      /\ Len(below) \in innermost.height..Len(vals)
      /\ \A k \in 1..Len(below) : vals'[k] = vals[k]
  <2> HIDE DEF n
  <2> QED BY <1>1, <1>3, <1>4, PoppedKeeps
<1>6. below \in Seq(Vals) /\ Len(below) \in Nat
  <2> HIDE DEF n
  <2> QED BY <1>4, PoppedFacts
<1>7. innermost.height \in Nat /\ ctrls \in Seq(Frame) /\ Len(ctrls) \in Nat
  BY InnermostFacts DEF Inv, VTypeOK, Frame
<1> HIDE DEF n
<1>8. Keeps(now, t)
  <2>1. \A k \in 1..innermost.height : vals'[k] = vals[k]
    BY <1>5, <1>6, <1>7
  <2>2. \A j \in 1..(Len(ctrls) - 1) : ctrls'[j] = ctrls[j]
    BY <1>1, <1>7
  <2> QED BY <2>1, <2>2, NowFacts DEF Keeps
<1>9. Len(vals') - Len(i.type.params) = Len(below)
  BY <1>3, <1>5, <1>6
<1>10. SubSeq(vals', 1, Len(below)) = below
  <2> HIDE DEF below
  <2>1. vals' = below \o i.type.params
    BY <1>1 DEF below
  <2> QED BY <1>3, <1>6, <2>1, Prefix
<1>11. /\ Len(ctrls') = Len(ctrls) + 1 /\ ctrls'[Len(ctrls)] = innermost
       /\ ctrls'[Len(ctrls) + 1] = f
  <2> HIDE DEF f
  <2>1. Len(ctrls) \in 1..Len(ctrls)
    BY <1>7, InnermostFacts
  <2> QED BY <1>1, <1>7, <2>1 DEF innermost
<1>12. innermost.height <= Len(below)
  BY <1>5, <1>6, <1>7
<1>13. Opens(now, i, t)
  <2> HIDE DEF below
  <2>1. f = ControlFrame(i.op, i.type.params, i.type.results, Len(below))
    BY DEF below
  <2>2. vals' = below \o i.type.params
    BY <1>1 DEF below
  <2> HIDE DEF f
  <2> QED BY <1>9, <1>10, <1>11, <1>12, <2>1, <2>2, NowFacts DEF Opens
<1> QED BY <1>1, <1>8, <1>13 DEF Shape, Openers

(* else replaces the if's frame. *)
LEMMA ElseShape ==
  ASSUME Inv, ctrls # <<>>, NEW i \in Instructions, Allows(i), Else(i),
         NEW t, t.vals = vals', t.ctrls = ctrls'
  PROVE  Shape(now, i, t)
<1> DEFINE f == ControlFrame("else", innermost.start_types,
                             innermost.end_types, innermost.height)
<1>1. i.op = "else" /\ innermost.opcode = "if" /\ CanClose
  BY DEF Allows, Else
<1>2. innermost.start_types \in Seq(Vals) /\ innermost \in Frame /\ innermost.height \in Nat
  BY InnermostFacts, FrameFacts
<1>3. Len(Closed) = innermost.height
  BY <1>1, ClosedFacts
<1>4. vals' = Closed \o innermost.start_types /\ ctrls' = Append(Outer, f)
  BY <1>3 DEF Else, Stacks
<1>5. f \in Frame
  BY <1>2 DEF Frame, ControlFrame, Opcodes
<1> HIDE DEF f
<1>6. /\ Closed = Under(now)
      /\ \A k \in 1..innermost.height : vals'[k] = vals[k]
  BY <1>1, <1>2, <1>4, ClosedIs
<1>7. /\ Len(ctrls') = Len(ctrls) /\ ctrls'[Len(ctrls)] = f
      /\ \A j \in 1..(Len(ctrls) - 1) : ctrls'[j] = ctrls[j]
  <2>1. ctrls' = Append(Outer, f)
    BY <1>4
  <2> QED BY <1>5, <2>1, OuterIs
<1>8. Keeps(now, t)
  BY <1>6, <1>7, NowFacts DEF Keeps
<1>9. Elses(now, t)
  <2>1. Inner(t) = f
    BY <1>7 DEF Inner
  <2> QED BY <1>1, <1>4, <1>6, <1>7, <2>1, NowFacts DEF Elses, f
<1> QED BY <1>1, <1>8, <1>9 DEF Shape, Openers

(* end closes one frame and leaves its results. *)
LEMMA EndShape ==
  ASSUME Inv, ctrls # <<>>, NEW i \in Instructions, Allows(i), End(i),
         NEW t, t.vals = vals', t.ctrls = ctrls'
  PROVE  Shape(now, i, t)
<1>1. /\ i.op = "end" /\ CanClose
      /\ innermost.opcode = "if" => innermost.start_types = innermost.end_types
  BY DEF Allows, End, EndAllowed
<1>2. innermost.end_types \in Seq(Vals) /\ innermost \in Frame
  BY InnermostFacts, FrameFacts
<1>3. vals' = Closed \o innermost.end_types /\ ctrls' = Outer
  BY DEF End, Stacks
<1>4. /\ Closed = Under(now)
      /\ \A k \in 1..innermost.height : vals'[k] = vals[k]
  BY <1>1, <1>2, <1>3, ClosedIs
<1>5. /\ Len(ctrls') = Len(ctrls) - 1
      /\ \A j \in 1..(Len(ctrls) - 1) : ctrls'[j] = ctrls[j]
  BY <1>2, <1>3, OuterIs
<1>6. Keeps(now, t)
  BY <1>4, <1>5, NowFacts DEF Keeps
<1>7. Ends(now, t)
  BY <1>1, <1>3, <1>4, <1>5, NowFacts DEF Ends
<1> QED BY <1>1, <1>6, <1>7 DEF Shape, Openers

(* br, br_table and return leave the frames, the innermost one now         *)
(* unreachable.                                                            *)
LEMMA LeaveShape ==
  ASSUME Inv, ctrls # <<>>, NEW i \in Instructions, Leave(i),
         NEW t, t.vals = vals', t.ctrls = ctrls'
  PROVE  Shape(now, i, t)
<1> DEFINE f == [innermost EXCEPT !.unreachable = TRUE]
<1>1. /\ i.op \in {"br", "br_table", "return", "unreachable"}
      /\ vals' = Base /\ ctrls' = Append(Outer, f)
  BY DEF Leave, Stacks
<1>2. /\ innermost \in Frame /\ innermost.height \in 0..Len(vals)
      /\ vals \in Seq(Vals)
  BY InnermostFacts DEF Inv, VTypeOK, Vals
<1>3. f \in Frame
  BY <1>2 DEF Frame
<1> HIDE DEF f
<1>4. \A k \in 1..innermost.height : vals'[k] = vals[k]
  BY <1>1, <1>2, SubSeqFacts DEF Base
<1>5. /\ Len(ctrls') = Len(ctrls) /\ ctrls'[Len(ctrls)] = f
      /\ \A j \in 1..(Len(ctrls) - 1) : ctrls'[j] = ctrls[j]
  BY <1>1, <1>3, OuterIs
<1>6. Keeps(now, t)
  BY <1>4, <1>5, NowFacts DEF Keeps
<1>7. Stays(now, t)
  <2>1. Inner(t) = f
    BY <1>5 DEF Inner
  <2> QED BY <1>5, <2>1, NowFacts DEF Stays, f
<1> QED BY <1>1, <1>6, <1>7 DEF Shape, Openers

(* Every rule has its shape.                                               *)
LEMMA RuleShape ==
  ASSUME Inv, NEW i \in Instructions, Allows(i), Rule(i),
         NEW t, t.vals = vals', t.ctrls = ctrls'
  PROVE  Shape(now, i, t)
<1>1. ctrls # <<>>
  BY DEF Allows
<1>2. CASE Plainly(i) \/ Drop(i) \/ Select(i) \/ BrIf(i)
  BY <1>1, <1>2, LevelShape
<1>3. CASE Open(i)
  BY <1>1, <1>3, OpenShape
<1>4. CASE Else(i)
  BY <1>1, <1>4, ElseShape
<1>5. CASE End(i)
  BY <1>1, <1>5, EndShape
<1>6. CASE Leave(i)
  BY <1>1, <1>6, LeaveShape
<1> QED BY <1>2, <1>3, <1>4, <1>5, <1>6 DEF Rule

----------------------------------------------------------------------------
(* What an instruction of a given shape keeps of the frames.               *)
LEMMA ShapeFrames ==
  ASSUME NEW s \in State, NEW t \in State, NEW i \in Instructions, Shape(s, i, t),
         NEW n \in Nat, n = Len(s.ctrls)
  PROVE  /\ n \in Nat \ {0} /\ Len(t.ctrls) \in Nat
         /\ Len(t.ctrls) = IF i.op \in Openers THEN n + 1
                           ELSE IF i.op = "end" THEN n - 1 ELSE n
         /\ \A j \in 1..n : j \in 1..Len(t.ctrls) =>
              /\ t.ctrls[j].height = s.ctrls[j].height
              /\ t.ctrls[j].start_types = s.ctrls[j].start_types
              /\ t.ctrls[j].end_types = s.ctrls[j].end_types
              /\ \/ t.ctrls[j].opcode = s.ctrls[j].opcode
                 \/ /\ i.op = "else" /\ j = n
                    /\ s.ctrls[j].opcode = "if" /\ t.ctrls[j].opcode = "else"
              /\ j < n => t.ctrls[j] = s.ctrls[j]
         /\ i.op \in Openers =>
              /\ t.ctrls[n] = s.ctrls[n] /\ t.ctrls[n + 1].opcode = i.op
              /\ s.ctrls[n].height <= t.ctrls[n + 1].height
<1>1. /\ s.ctrls \in Seq(Frame) /\ t.ctrls \in Seq(Frame)
      /\ n \in Nat \ {0} /\ Len(t.ctrls) \in Nat
  BY StateFacts DEF Shape, Keeps
<1>2. Inner(s) = s.ctrls[n] /\ Inner(s) \in Frame /\ n \in 1..n
  BY <1>1 DEF Inner
<1>3. \A j \in 1..(n - 1) : t.ctrls[j] = s.ctrls[j]
  BY DEF Shape, Keeps
<1>4. \A j \in 1..n : j = n \/ (j \in 1..(n - 1) /\ j < n)
  BY <1>1
<1>5. CASE i.op \in Openers
  <2>1. Opens(s, i, t) /\ i.op # "end"
    BY <1>5 DEF Shape, Openers
  <2>2. /\ Len(t.ctrls) = n + 1 /\ t.ctrls[n] = s.ctrls[n]
        /\ t.ctrls[n + 1].opcode = i.op
        /\ s.ctrls[n].height <= t.ctrls[n + 1].height
    <3> DEFINE h == Len(t.vals) - Len(i.type.params)
    <3>1. /\ Len(t.ctrls) = n + 1 /\ t.ctrls[n] = s.ctrls[n] /\ s.ctrls[n].height <= h
          /\ t.ctrls[n + 1] = ControlFrame(i.op, i.type.params, i.type.results, h)
      BY <1>2, <2>1 DEF Opens
    <3> HIDE DEF h
    <3>2. t.ctrls[n + 1].opcode = i.op /\ t.ctrls[n + 1].height = h
      BY <3>1 DEF ControlFrame
    <3> QED BY <3>1, <3>2
  <2> QED BY <1>1, <1>3, <1>4, <1>5, <2>2
<1>6. CASE i.op = "else"
  <2>1. Elses(s, t) /\ i.op \notin Openers /\ i.op # "end"
    BY <1>6 DEF Shape, Openers
  <2>2. /\ Len(t.ctrls) = n /\ Inner(s).opcode = "if"
        /\ t.ctrls[n] = ControlFrame("else", Inner(s).start_types, Inner(s).end_types, Inner(s).height)
    BY <2>1 DEF Elses, Inner
  <2>3. /\ t.ctrls[n].height = s.ctrls[n].height
        /\ t.ctrls[n].start_types = s.ctrls[n].start_types
        /\ t.ctrls[n].end_types = s.ctrls[n].end_types
        /\ s.ctrls[n].opcode = "if" /\ t.ctrls[n].opcode = "else"
    BY <1>2, <2>2 DEF ControlFrame
  <2> QED BY <1>1, <1>3, <1>4, <1>6, <2>1, <2>2, <2>3
<1>7. CASE i.op = "end"
  <2>1. Len(t.ctrls) = n - 1 /\ i.op \notin Openers
    BY <1>7 DEF Shape, Ends, Openers
  <2> QED BY <1>1, <1>3, <1>4, <1>7, <2>1
<1>8. CASE i.op \notin Openers \cup {"else", "end"}
  <2>1. /\ Len(t.ctrls) = n
        /\ t.ctrls[n] \in {s.ctrls[n], [s.ctrls[n] EXCEPT !.unreachable = TRUE]}
    BY <1>8 DEF Shape, Stays, Inner
  <2>2. /\ t.ctrls[n].height = s.ctrls[n].height
        /\ t.ctrls[n].start_types = s.ctrls[n].start_types
        /\ t.ctrls[n].end_types = s.ctrls[n].end_types
        /\ t.ctrls[n].opcode = s.ctrls[n].opcode
    BY <1>2, <2>1 DEF Frame
  <2> QED BY <1>1, <1>3, <1>4, <1>8, <2>1, <2>2
<1> QED BY <1>5, <1>6, <1>7, <1>8

(* No frame begins above the innermost one's height, nor above the stack. *)
LEMMA HeightFacts ==
  ASSUME NEW s \in State, Ordered(s), NEW j \in 1..Len(s.ctrls)
  PROVE  /\ s.ctrls[j] \in Frame /\ s.ctrls[j].height \in Nat
         /\ s.ctrls[j].height <= Inner(s).height
         /\ s.ctrls[j].height <= Len(s.vals) /\ Inner(s).height \in Nat
<1>1. s.ctrls \in Seq(Frame) /\ Len(s.ctrls) \in Nat
  BY StateFacts
<1>2. Len(s.ctrls) \in 1..Len(s.ctrls) /\ j <= Len(s.ctrls)
  BY <1>1
<1>3. s.ctrls[j] \in Frame /\ Inner(s) \in Frame
  BY <1>1, <1>2 DEF Inner
<1>4. /\ s.ctrls[j].height <= Inner(s).height
      /\ s.ctrls[j].height <= Len(s.vals)
  BY <1>1, <1>2 DEF Ordered, Inner
<1> QED BY <1>3, <1>4, FrameFacts

(* A rule of that shape keeps the order of the frames' heights. *)
LEMMA ShapeOrdered ==
  ASSUME NEW s \in State, NEW t \in State, NEW i \in Instructions, Shape(s, i, t),
         Ordered(s),
         t.ctrls # <<>> => /\ t.ctrls[1].opcode = "func" /\ t.ctrls[1].height = 0
                           /\ t.ctrls[1].end_types = FuncResults
                           /\ Inner(t).height <= Len(t.vals)
  PROVE  Ordered(t)
<1> DEFINE n == Len(s.ctrls)
           m == Len(t.ctrls)
<1>1. /\ n \in Nat \ {0} /\ m \in Nat /\ m <= n + 1
      /\ \A j \in 1..n : j \in 1..m => t.ctrls[j].height = s.ctrls[j].height
      /\ m = n + 1 => s.ctrls[n].height <= t.ctrls[n + 1].height
  <2>1. /\ n \in Nat \ {0} /\ m \in Nat
        /\ m = IF i.op \in Openers THEN n + 1 ELSE IF i.op = "end" THEN n - 1 ELSE n
        /\ \A j \in 1..n : j \in 1..m => t.ctrls[j].height = s.ctrls[j].height
        /\ i.op \in Openers => s.ctrls[n].height <= t.ctrls[n + 1].height
    <3>1. n = Len(s.ctrls) /\ m = Len(t.ctrls)
      OBVIOUS
    <3> HIDE DEF n
    <3> QED BY <3>1, ShapeFrames
  <2> HIDE DEF n, m
  <2> QED BY <2>1
<1>2. /\ s.ctrls \in Seq(Frame) /\ t.ctrls \in Seq(Frame) /\ Len(t.vals) \in Nat
  BY StateFacts
<1>3. \A j \in 1..m : t.ctrls[j].height \in Nat
  BY <1>2, FrameFacts
<1>4. \A j \in 1..n : s.ctrls[j].height \in Nat /\ s.ctrls[j].height <= s.ctrls[n].height
  BY HeightFacts DEF Inner
<1>5. ASSUME NEW j \in 1..m, NEW k \in 1..m, j <= k
      PROVE  t.ctrls[j].height <= t.ctrls[k].height
  <2>1. CASE k <= n
    <3>1. j \in 1..n /\ k \in 1..n
      BY <1>1, <1>5, <2>1
    <3>2. s.ctrls[j].height <= s.ctrls[k].height
      BY <1>2, <1>5, <3>1 DEF Ordered
    <3> QED BY <1>1, <3>1, <3>2
  <2>2. CASE k = n + 1
    <3>1. m = n + 1
      BY <1>1, <2>2
    <3>2. CASE j = k
      BY <1>3, <3>2
    <3>3. CASE j # k
      <4>1. j \in 1..n
        BY <1>1, <1>5, <2>2, <3>3
      <4>2. /\ t.ctrls[j].height = s.ctrls[j].height
            /\ s.ctrls[j].height <= s.ctrls[n].height
            /\ s.ctrls[n].height <= t.ctrls[k].height
        BY <1>1, <1>4, <2>2, <3>1, <4>1
      <4>3. n \in 1..n
        BY <1>1
      <4> QED BY <1>3, <1>4, <4>1, <4>2, <4>3, SMTT(60)
    <3> QED BY <3>2, <3>3
  <2> QED BY <1>1, <2>1, <2>2
<1>6. ASSUME NEW j \in 1..m
      PROVE  t.ctrls[j].height <= Len(t.vals)
  <2>1. t.ctrls # <<>> /\ m \in 1..m /\ j <= m
    BY <1>1
  <2>2. Inner(t).height <= Len(t.vals) /\ t.ctrls[j].height <= Inner(t).height
    BY <1>5, <2>1 DEF Inner
  <2>3. t.ctrls[j].height \in Nat /\ Inner(t).height \in Nat
    BY <1>3, <2>1 DEF Inner
  <2> QED BY <1>2, <2>2, <2>3
<1>7. DOMAIN t.ctrls = 1..m
  BY <1>2
<1> QED BY <1>5, <1>6, <1>7 DEF Ordered

----------------------------------------------------------------------------
(* One more instruction: what is recorded stays, the state after it is     *)
(* new, and the instruction had its shape.                                 *)
Grown(i) ==
  LET n == Len(body) + 1
  IN  /\ n \in Nat \ {0} /\ Len(body') = n
      /\ \A p \in 1..(n - 1) : body'[p] = body[p] /\ body[p] \in Instructions
      /\ body'[n] = i
      /\ \A p \in 1..n : hist'[p] = hist[p] /\ hist[p] \in State
      /\ hist'[n + 1] \in State
      /\ Shape(hist[n], i, hist'[n + 1])

(* A checked instruction is recorded: the history grows by the state it    *)
(* led to.                                                                 *)
LEMMA CheckGrows ==
  ASSUME Inv, Inv', Recorded, NEW i \in Instructions, Check(i), Allows(i), Traced
  PROVE  Grown(i) /\ Recorded' /\ hist[Len(body) + 1] = now /\ hist'[Len(body) + 2] = now'
<1> DEFINE n == Len(body) + 1
<1>1. Rule(i) /\ body' = Append(body, i)
  BY DEF Check
<1>2. /\ body \in Seq(Instructions) /\ Len(body) \in Nat /\ now \in State
  BY NowFacts
<1>3. now' = [vals |-> vals', ctrls |-> ctrls'] /\ now' \in State
  <2>1. vals' \in Seq(Vals) /\ ctrls' \in Seq(Frame)
    BY DEF Inv, VTypeOK, Frame, Vals
  <2> QED BY <2>1 DEF now, State
<1>4. /\ body' \in Seq(Instructions) /\ Len(body') = n
      /\ \A p \in 1..Len(body) : body'[p] = body[p]
      /\ body'[n] = i
  BY <1>1, <1>2, AppendAt
<1>5. body' # body
  BY <1>2, <1>4
<1>6. trace' = hist
  BY <1>5 DEF Traced, hist, now
<1>7. /\ hist \in Seq(State) /\ Len(hist) = n
      /\ \A p \in 1..Len(body) : hist[p] = trace[p]
      /\ hist[n] = now
  BY HistFacts
<1>8. Recorded'
  BY <1>4, <1>6, <1>7 DEF Recorded
<1>9. hist' = Append(hist, now')
  BY <1>6 DEF hist
<1>10. /\ \A p \in 1..n : hist'[p] = hist[p]
       /\ hist'[n + 1] = now'
  BY <1>3, <1>7, <1>9, AppendAt
<1>11. \A p \in 1..n : hist[p] \in State
  BY <1>7
<1>12. \A p \in 1..(n - 1) : body[p] \in Instructions
  BY <1>2
<1>13. Shape(hist[n], i, hist'[n + 1])
  <2>1. now'.vals = vals' /\ now'.ctrls = ctrls'
    BY <1>3
  <2> QED BY <1>1, <1>7, <1>10, <2>1, RuleShape
<1>14. n \in Nat \ {0} /\ n + 1 = Len(body) + 2 /\ n - 1 = Len(body)
  BY <1>2
<1> HIDE DEF hist, now
<1> QED BY <1>2, <1>3, <1>4, <1>7, <1>8, <1>10, <1>11, <1>12, <1>13, <1>14 DEF Grown

(* What a rule does to the depth depends on the opcode alone. *)
LEMMA ShapeDepth ==
  ASSUME NEW s \in State, NEW t \in State, NEW i \in Instructions, Shape(s, i, t)
  PROVE  /\ Len(s.ctrls) \in Nat \ {0} /\ Len(t.ctrls) \in Nat
         /\ Len(t.ctrls) = IF i.op \in Openers THEN Len(s.ctrls) + 1
                           ELSE IF i.op = "end" THEN Len(s.ctrls) - 1 ELSE Len(s.ctrls)
<1> DEFINE n == Len(s.ctrls)
<1>1. n = Len(s.ctrls) /\ n \in Nat
  BY StateFacts
<1> HIDE DEF n
<1>2. /\ n \in Nat \ {0} /\ Len(t.ctrls) \in Nat
      /\ Len(t.ctrls) = IF i.op \in Openers THEN n + 1
                        ELSE IF i.op = "end" THEN n - 1 ELSE n
  BY <1>1, ShapeFrames
<1> QED BY <1>1, <1>2

(* The depth after the new instruction.                                    *)
LEMMA GrownDepth ==
  ASSUME NEW i \in Instructions, Grown(i), NEW n, n = Len(body) + 1
  PROVE  /\ \A p \in 1..n : Depth(p)' = Depth(p) /\ Depth(p) \in Nat
         /\ Depth(n) >= 1 /\ Depth(n + 1)' \in Nat
         /\ Depth(n + 1)' = IF i.op \in Openers THEN Depth(n) + 1
                            ELSE IF i.op = "end" THEN Depth(n) - 1 ELSE Depth(n)
<1>1. /\ n \in Nat \ {0} /\ \A p \in 1..n : hist'[p] = hist[p] /\ hist[p] \in State
      /\ hist'[n + 1] \in State /\ Shape(hist[n], i, hist'[n + 1])
  BY DEF Grown
<1>2. \A p \in 1..n : Depth(p)' = Depth(p) /\ Depth(p) \in Nat
  BY <1>1, StateFacts DEF Depth
<1>3. n \in 1..n
  BY <1>1
<1>4. /\ Len(hist[n].ctrls) \in Nat \ {0} /\ Len(hist'[n + 1].ctrls) \in Nat
      /\ Len(hist'[n + 1].ctrls) =
           IF i.op \in Openers THEN Len(hist[n].ctrls) + 1
           ELSE IF i.op = "end" THEN Len(hist[n].ctrls) - 1 ELSE Len(hist[n].ctrls)
  BY <1>1, <1>3, ShapeDepth
<1> QED BY <1>2, <1>4 DEF Depth

(* The recorded states stay ordered when one is added. *)
LEMMA GrownOrderly ==
  ASSUME Inv', Recorded', NEW i \in Instructions, Grown(i), Orderly,
         hist'[Len(body) + 2] = now'
  PROVE  Orderly'
<1> DEFINE n == Len(body) + 1
<1>1. /\ n \in Nat \ {0} /\ Len(body') = n
      /\ \A p \in 1..n : hist'[p] = hist[p] /\ hist[p] \in State
      /\ hist'[n + 1] \in State /\ Shape(hist[n], i, hist'[n + 1])
      /\ hist'[n + 1] = now'
  BY DEF Grown
<1>2. \A p \in 1..n : Ordered(hist[p])
  BY DEF Orderly
<1> DEFINE t == hist'[n + 1]
<1>3. t.ctrls = ctrls' /\ t.vals = vals'
  BY <1>1 DEF now
<1>4. t.ctrls # <<>> => /\ t.ctrls[1].opcode = "func" /\ t.ctrls[1].height = 0
                        /\ t.ctrls[1].end_types = FuncResults
                        /\ Inner(t).height <= Len(t.vals)
  BY <1>3 DEF Inv, Nested, Whole, Inner, innermost
<1>5. n \in 1..n
  BY <1>1
<1> HIDE DEF t, n
<1>6. Ordered(t)
  <2>1. t \in State /\ Shape(hist[n], i, t) /\ hist[n] \in State /\ Ordered(hist[n])
    BY <1>1, <1>2, <1>5 DEF t
  <2> QED BY <1>4, <2>1, ShapeOrdered
<1>7. \A p \in 1..(n + 1) : p \in 1..n \/ p = n + 1
  BY <1>1
<1>8. \A p \in 1..(n + 1) : Ordered(hist'[p])
  BY <1>1, <1>2, <1>6, <1>7 DEF t
<1> QED BY <1>1, <1>8 DEF Orderly, Ordered, n

----------------------------------------------------------------------------
(* Unknown operands come of unreachable frames only.                       *)
LEMMA KnownUnder ==
  ASSUME Inv, ctrls # <<>>, Known, NEW k \in 1..innermost.height, vals[k] = Unknown
  PROVE  \E j \in 1..(Len(ctrls) - 1) : ctrls[j].unreachable /\ ctrls[j].height < k
<1>1. /\ ctrls \in Seq(Frame) /\ Len(ctrls) \in Nat /\ vals \in Seq(Vals)
      /\ innermost.height \in Nat /\ innermost.height <= Len(vals) /\ Len(vals) \in Nat
  BY InnermostFacts DEF Inv, VTypeOK, Frame, Vals
<1>2. k \in DOMAIN vals
  BY <1>1
<1>3. PICK j \in DOMAIN ctrls : ctrls[j].unreachable /\ ctrls[j].height < k
  BY <1>2 DEF Known
<1>4. j \in 1..Len(ctrls) /\ ctrls[j].height \in Nat
  BY <1>1, <1>3, FrameFacts
<1>5. j # Len(ctrls)
  BY <1>1, <1>3, <1>4 DEF innermost
<1> QED BY <1>1, <1>3, <1>4, <1>5

\* An end or else puts known types on what is under the innermost frame.
LEMMA KnownClosed ==
  ASSUME Inv, ctrls # <<>>, Known, CanClose, NEW ts \in Seq(ValTypes),
         vals' = Closed \o ts,
         \A j \in 1..(Len(ctrls) - 1) : j \in DOMAIN ctrls' /\ ctrls'[j] = ctrls[j]
  PROVE  Known'
<1>1. Closed \in Seq(Vals) /\ Len(Closed) = innermost.height /\ innermost.height \in Nat
  BY ClosedFacts, InnermostFacts
<1>2. ts \in Seq(Vals) /\ Len(ts) \in Nat /\ \A k \in 1..Len(ts) : ts[k] # Unknown
  BY ValidatorAssumption DEF Vals
<1>3. /\ Len(vals') = innermost.height + Len(ts) /\ DOMAIN vals' = 1..Len(vals')
      /\ \A k \in 1..Len(ts) : vals'[innermost.height + k] = ts[k]
  <2>1. Closed \o ts \in Seq(Vals) /\ Len(Closed \o ts) = Len(Closed) + Len(ts)
    BY ONLY <1>1, <1>2, ConcatFacts
  <2>2. \A k \in 1..Len(ts) : (Closed \o ts)[Len(Closed) + k] = ts[k]
    BY ONLY <1>1, <1>2, ConcatAt
  <2> QED BY <1>1, <2>1, <2>2
<1>4. \A k \in 1..innermost.height : vals'[k] = vals[k]
  BY <1>2, ClosedIs
<1> SUFFICES ASSUME NEW k \in DOMAIN vals', vals'[k] = Unknown
             PROVE  \E j \in DOMAIN ctrls' : ctrls'[j].unreachable /\ ctrls'[j].height < k
  BY DEF Known
<1>5. k \in 1..innermost.height
  <2>1. CASE k > innermost.height
    <3>1. k - innermost.height \in 1..Len(ts) /\ innermost.height + (k - innermost.height) = k
      BY <1>1, <1>2, <1>3, <2>1
    <3>2. vals'[k] = ts[k - innermost.height]
      BY <1>3, <3>1
    <3> QED BY <1>2, <3>1, <3>2
  <2> QED BY <1>1, <1>2, <1>3, <2>1
<1>6. PICK j \in 1..(Len(ctrls) - 1) : ctrls[j].unreachable /\ ctrls[j].height < k
  BY <1>4, <1>5, KnownUnder
<1> QED BY <1>6

\* The frames stay, and so do the operands up to some place above which an
\* Unknown is new only if one of the frames was unreachable.
LEMMA KnownAbove ==
  ASSUME Inv, Inv', ctrls # <<>>, Ordered(now), Known,
         \A j \in 1..Len(ctrls) : j \in DOMAIN ctrls' /\ ctrls'[j] = ctrls[j],
         NEW m \in Nat, innermost.height <= m,
         \A k \in 1..m : k \in DOMAIN vals' => k \in DOMAIN vals /\ vals'[k] = vals[k],
         ASSUME NEW k \in DOMAIN vals', k > m, vals'[k] = Unknown
         PROVE  \E j \in DOMAIN ctrls : ctrls[j].unreachable
  PROVE  Known'
<1>1. ctrls \in Seq(Frame) /\ Len(ctrls) \in Nat /\ vals' \in Seq(Vals)
  BY DEF Inv, VTypeOK, Frame, Vals
<1> SUFFICES ASSUME NEW k \in DOMAIN vals', vals'[k] = Unknown
             PROVE  \E j \in DOMAIN ctrls' : ctrls'[j].unreachable /\ ctrls'[j].height < k
  BY DEF Known
<1>2. k \in Nat /\ k >= 1
  BY <1>1
<1>3. CASE k <= m
  <2>1. k \in DOMAIN vals /\ vals[k] = Unknown
    BY <1>2, <1>3
  <2>2. PICK j \in DOMAIN ctrls : ctrls[j].unreachable /\ ctrls[j].height < k
    BY <2>1 DEF Known
  <2>3. j \in 1..Len(ctrls)
    BY <1>1
  <2> QED BY <2>2, <2>3
<1>4. CASE k > m
  <2>1. PICK j \in DOMAIN ctrls : ctrls[j].unreachable
    BY <1>4
  <2>2. j \in 1..Len(ctrls)
    BY <1>1
  <2>3. ctrls[j].height <= innermost.height /\ ctrls[j].height \in Nat /\ innermost.height \in Nat
    BY <2>2, NowFacts, HeightFacts
  <2>4. ctrls[j].height < k
    BY <1>2, <1>4, <2>3
  <2> QED BY <2>1, <2>2, <2>4
<1> QED BY <1>2, <1>3, <1>4

(* Every wildcard on the stack lies in an unreachable frame, after every   *)
(* rule.                                                                   *)
LEMMA RuleKnown ==
  ASSUME Inv, Inv', Ordered(now), Known, NEW i \in Instructions, Allows(i), Rule(i)
  PROVE  Known'
<1>0. /\ ctrls # <<>> /\ innermost.height \in Nat /\ vals \in Seq(Vals) /\ Len(vals) \in Nat
      /\ ctrls \in Seq(Frame) /\ Len(ctrls) \in Nat /\ Len(ctrls) >= 1 /\ DOMAIN ctrls = 1..Len(ctrls)
      /\ vals' \in Seq(Vals) /\ DOMAIN vals' = 1..Len(vals') /\ Len(vals') \in Nat
      /\ DOMAIN vals = 1..Len(vals)
  BY InnermostFacts DEF Allows, Inv, VTypeOK, Frame, Vals
<1>1. CASE Plainly(i) \/ Drop(i) \/ Select(i) \/ BrIf(i)
  <2>1. ctrls' = ctrls
    BY <1>0, <1>1, LevelFacts
  <2>2. PICK n \in Nat, ts \in Seq(Vals) :
              /\ vals' = Popped(n) \o ts
              /\ (\E k \in 1..Len(ts) : ts[k] = Unknown) =>
                   innermost.unreachable \/ \E k \in 1..Len(vals) : vals[k] = Unknown
    BY <1>0, <1>1, LevelFacts
  <2> DEFINE m == Len(Popped(n))
  <2>3. /\ m \in Nat /\ innermost.height <= m /\ m <= Len(vals)
        /\ Len(vals') = m + Len(ts)
        /\ \A k \in 1..m : vals'[k] = vals[k]
        /\ \A k \in 1..Len(ts) : vals'[m + k] = ts[k]
    <3>1. /\ Len(Popped(n) \o ts) = Len(Popped(n)) + Len(ts)
          /\ Len(Popped(n)) \in innermost.height..Len(vals)
          /\ \A k \in 1..Len(Popped(n)) : (Popped(n) \o ts)[k] = vals[k]
          /\ \A k \in 1..Len(ts) : (Popped(n) \o ts)[Len(Popped(n)) + k] = ts[k]
      BY <1>0, PoppedKeeps
    <3> HIDE DEF Popped
    <3> QED BY <1>0, <2>2, <3>1
  <2> HIDE DEF m
  <2>4. ASSUME NEW k \in DOMAIN vals', k > m, vals'[k] = Unknown
        PROVE  \E j \in DOMAIN ctrls : ctrls[j].unreachable
    <3>1. k - m \in 1..Len(ts) /\ m + (k - m) = k
      BY <1>0, <2>3, <2>4
    <3>2. ts[k - m] = Unknown
      BY <2>3, <2>4, <3>1
    <3>3. innermost.unreachable \/ \E q \in 1..Len(vals) : vals[q] = Unknown
      BY <2>2, <3>1, <3>2
    <3>4. CASE innermost.unreachable
      BY <1>0, <3>4 DEF innermost
    <3>5. CASE \E q \in 1..Len(vals) : vals[q] = Unknown
      BY <1>0, <3>5 DEF Known
    <3> QED BY <3>3, <3>4, <3>5
  <2>5. \A k \in 1..m : k \in DOMAIN vals' => k \in DOMAIN vals /\ vals'[k] = vals[k]
    BY <1>0, <2>3
  <2>6. \A j \in 1..Len(ctrls) : j \in DOMAIN ctrls' /\ ctrls'[j] = ctrls[j]
    BY <1>0, <2>1
  <2> QED BY <1>0, <2>3, <2>4, <2>5, <2>6, KnownAbove
<1>2. CASE Open(i)
  <2> DEFINE n == Len(i.type.params) + (IF i.op = "if" THEN 1 ELSE 0)
             f == ControlFrame(i.op, i.type.params, i.type.results, Len(Popped(n)))
             m == Len(Popped(n))
  <2>1. /\ i.op \in {"block", "loop", "if"}
        /\ vals' = Popped(n) \o i.type.params /\ ctrls' = Append(ctrls, f)
    BY <1>2 DEF Open, Stacks
  <2>2. i.type.params \in Seq(ValTypes)
    BY <2>1, InstrFacts
  <2>3. /\ i.type.params \in Seq(Vals) /\ Len(i.type.params) \in Nat
        /\ \A k \in 1..Len(i.type.params) : i.type.params[k] # Unknown
    BY <2>2, ValidatorAssumption DEF Vals
  <2>4. n \in Nat
    <3>1. \A x \in Nat : x + (IF i.op = "if" THEN 1 ELSE 0) \in Nat
      OBVIOUS
    <3> QED BY <2>3, <3>1, Zenon
  <2>5. \A j \in 1..Len(ctrls) : j \in DOMAIN ctrls' /\ ctrls'[j] = ctrls[j]
    <3> HIDE DEF f
    <3> QED BY <1>0, <2>1
  <2> HIDE DEF n, f
  <2>6. /\ m \in Nat /\ innermost.height <= m /\ m <= Len(vals)
        /\ Len(vals') = m + Len(i.type.params)
        /\ \A k \in 1..m : vals'[k] = vals[k]
        /\ \A k \in 1..Len(i.type.params) : vals'[m + k] = i.type.params[k]
    <3> DEFINE ts == i.type.params
    <3>1. /\ Len(Popped(n) \o ts) = Len(Popped(n)) + Len(ts)
          /\ Len(Popped(n)) \in innermost.height..Len(vals)
          /\ \A k \in 1..Len(Popped(n)) : (Popped(n) \o ts)[k] = vals[k]
          /\ \A k \in 1..Len(ts) : (Popped(n) \o ts)[Len(Popped(n)) + k] = ts[k]
      BY <1>0, <2>3, <2>4, PoppedKeeps
    <3> HIDE DEF Popped
    <3> QED BY <1>0, <2>1, <3>1
  <2> HIDE DEF m
  <2>7. ASSUME NEW k \in DOMAIN vals', k > m, vals'[k] = Unknown
        PROVE  FALSE
    <3>1. k - m \in 1..Len(i.type.params) /\ m + (k - m) = k
      BY <1>0, <2>3, <2>6, <2>7
    <3> QED BY <2>3, <2>6, <2>7, <3>1
  <2>8. \A k \in 1..m : k \in DOMAIN vals' => k \in DOMAIN vals /\ vals'[k] = vals[k]
    BY <1>0, <2>6
  <2> QED BY <1>0, <2>5, <2>6, <2>7, <2>8, KnownAbove
<1>3. CASE Else(i)
  <2> DEFINE f == ControlFrame("else", innermost.start_types,
                               innermost.end_types, Len(Closed))
  <2>1. /\ vals' = Closed \o innermost.start_types /\ ctrls' = Append(Outer, f)
        /\ CanClose
    BY <1>3 DEF Else, Stacks, Allows
  <2>2. innermost \in Frame /\ Len(Closed) \in Nat
    BY <1>0, <2>1, InnermostFacts, ClosedFacts
  <2>3. f \in Frame /\ innermost.start_types \in Seq(ValTypes)
    BY <2>2, FrameFacts DEF Frame, ControlFrame, Opcodes
  <2> HIDE DEF f
  <2>4. \A j \in 1..(Len(ctrls) - 1) : j \in DOMAIN ctrls' /\ ctrls'[j] = ctrls[j]
    <3>1. /\ Append(Outer, f) \in Seq(Frame) /\ Len(Append(Outer, f)) = Len(ctrls)
          /\ \A j \in 1..(Len(ctrls) - 1) : Append(Outer, f)[j] = ctrls[j]
      BY <1>0, <2>3, OuterIs
    <3> HIDE DEF Outer
    <3> QED BY <1>0, <2>1, <3>1
  <2> QED BY <1>0, <2>1, <2>3, <2>4, KnownClosed
<1>4. CASE End(i)
  <2>1. vals' = Closed \o innermost.end_types /\ ctrls' = Outer /\ CanClose
    BY <1>4 DEF End, Stacks, Allows, EndAllowed
  <2>2. innermost \in Frame /\ innermost.end_types \in Seq(ValTypes)
    BY <1>0, InnermostFacts
  <2>3. \A j \in 1..(Len(ctrls) - 1) : j \in DOMAIN ctrls' /\ ctrls'[j] = ctrls[j]
    <3>1. /\ Outer \in Seq(Frame) /\ Len(Outer) = Len(ctrls) - 1
          /\ \A j \in 1..(Len(ctrls) - 1) : Outer[j] = ctrls[j]
      BY <1>0, <2>2, OuterIs
    <3> HIDE DEF Outer
    <3> QED BY <1>0, <2>1, <3>1
  <2> QED BY <1>0, <2>1, <2>2, <2>3, KnownClosed
<1>5. CASE Leave(i)
  <2> DEFINE f == [innermost EXCEPT !.unreachable = TRUE]
  <2>1. vals' = Base /\ ctrls' = Append(Outer, f)
    BY <1>5 DEF Leave, Stacks
  <2>2. innermost \in Frame /\ innermost.height \in 0..Len(vals)
    BY <1>0, InnermostFacts
  <2>3. f \in Frame
    BY <2>2 DEF Frame
  <2>4. Len(vals') = innermost.height /\ \A k \in 1..innermost.height : vals'[k] = vals[k]
    BY <1>0, <2>1, <2>2, SubSeqFacts DEF Base
  <2> HIDE DEF f
  <2>5. \A j \in 1..(Len(ctrls) - 1) : j \in DOMAIN ctrls' /\ ctrls'[j] = ctrls[j]
    <3>1. /\ Append(Outer, f) \in Seq(Frame) /\ Len(Append(Outer, f)) = Len(ctrls)
          /\ \A j \in 1..(Len(ctrls) - 1) : Append(Outer, f)[j] = ctrls[j]
      BY <1>0, <2>3, OuterIs
    <3> HIDE DEF Outer
    <3> QED BY <1>0, <2>1, <3>1
  <2> SUFFICES ASSUME NEW k \in DOMAIN vals', vals'[k] = Unknown
               PROVE  \E j \in DOMAIN ctrls' : ctrls'[j].unreachable /\ ctrls'[j].height < k
    BY DEF Known
  <2>6. k \in 1..innermost.height
    BY <1>0, <2>4
  <2>7. PICK j \in 1..(Len(ctrls) - 1) : ctrls[j].unreachable /\ ctrls[j].height < k
    BY <1>0, <2>4, <2>6, KnownUnder
  <2> QED BY <2>5, <2>7
<1> QED BY <1>1, <1>2, <1>3, <1>4, <1>5 DEF Rule

----------------------------------------------------------------------------
(* Where no frame is unreachable, a rule finds the operands it names.      *)
LEMMA LivePop ==
  ASSUME Inv, ctrls # <<>>, Known, Live(now), NEW types \in Seq(Vals), CanPop(types)
  PROVE  /\ Len(types) <= Available /\ Len(types) \in Nat
         /\ innermost.height <= Len(vals) - Len(types)
         /\ Len(types) \in 0..Len(vals)
         /\ \A k \in 1..Len(types) : types[k] # Unknown =>
              vals[Len(vals) - Len(types) + k] = types[k]
         /\ \A k \in 1..Len(vals) : vals[k] # Unknown
<1>1. /\ ctrls \in Seq(Frame) /\ Len(ctrls) \in Nat /\ Len(ctrls) >= 1 /\ vals \in Seq(Vals)
      /\ innermost.height \in Nat /\ innermost.height <= Len(vals) /\ Len(vals) \in Nat
      /\ Len(types) \in Nat
  BY InnermostFacts DEF Inv, VTypeOK, Frame, Vals
<1>2. \A j \in DOMAIN ctrls : ~ctrls[j].unreachable
  BY NowFacts DEF Live
<1>3. ~innermost.unreachable
  BY <1>1, <1>2 DEF innermost
<1>4. \A k \in 1..Len(vals) : vals[k] # Unknown
  BY <1>1, <1>2 DEF Known
<1>5. /\ Len(types) <= Available
      /\ \A j \in 0..(Len(types) - 1) : Fits(Operand(j), types[Len(types) - j])
  BY <1>3 DEF CanPop
<1>6. innermost.height <= Len(vals) - Len(types) /\ Len(types) \in 0..Len(vals)
  BY <1>1, <1>5 DEF Available
<1>7. ASSUME NEW k \in 1..Len(types), types[k] # Unknown
      PROVE  vals[Len(vals) - Len(types) + k] = types[k]
  <2> DEFINE j == Len(types) - k
  <2>1. /\ j \in 0..(Len(types) - 1) /\ Len(types) - j = k
        /\ Len(vals) - j = Len(vals) - Len(types) + k
        /\ Len(vals) - j \in 1..Len(vals)
    BY <1>1, <1>6
  <2>2. j < Available
    BY <1>1, <1>5, <2>1 DEF Available
  <2> HIDE DEF j
  <2>3. Operand(j) = vals[Len(vals) - j]
    BY <2>2 DEF Operand
  <2>4. Fits(Operand(j), types[k])
    BY <1>5, <2>1
  <2> QED BY <1>4, <1>7, <2>1, <2>3, <2>4 DEF Fits
<1> QED BY <1>1, <1>4, <1>5, <1>6, <1>7

\* The stack is what is below the operands, and the operands.
LEMMA LiveWhole ==
  ASSUME Inv, ctrls # <<>>, Known, Live(now), NEW ts \in Seq(ValTypes), CanPop(ts)
  PROVE  /\ Popped(Len(ts)) \o ts = vals
         /\ Popped(Len(ts)) = SubSeq(vals, 1, Len(vals) - Len(ts))
         /\ Len(ts) \in 0..Len(vals) /\ innermost.height <= Len(vals)
         /\ SubSeq(vals, Len(vals) - Len(ts) + 1, Len(vals)) = ts
<1>1. /\ ts \in Seq(Vals) /\ \A k \in 1..Len(ts) : ts[k] # Unknown
  BY ValidatorAssumption DEF Vals
<1>2. /\ Len(ts) <= Available /\ Len(ts) \in Nat /\ Len(ts) \in 0..Len(vals)
      /\ \A k \in 1..Len(ts) : vals[Len(vals) - Len(ts) + k] = ts[k]
  BY <1>1, LivePop
<1>3. vals \in Seq(Vals) /\ Len(vals) \in Nat
  BY DEF Inv, VTypeOK, Vals
<1>4. /\ Popped(Len(ts)) \o ts \in Seq(Vals)
      /\ Len(Popped(Len(ts)) \o ts) = Len(Popped(Len(ts))) + Len(ts)
      /\ Len(Popped(Len(ts))) = Len(vals) - Len(ts)
      /\ Popped(Len(ts)) = SubSeq(vals, 1, Len(vals) - Len(ts))
      /\ \A k \in 1..Len(Popped(Len(ts))) : (Popped(Len(ts)) \o ts)[k] = vals[k]
      /\ \A k \in 1..Len(ts) : (Popped(Len(ts)) \o ts)[Len(Popped(Len(ts))) + k] = ts[k]
  BY <1>1, <1>2, PoppedKeeps
<1>5. Popped(Len(ts)) \o ts = vals
  <2> DEFINE w == Popped(Len(ts)) \o ts
             m == Len(Popped(Len(ts)))
  <2>1. /\ w \in Seq(Vals) /\ Len(w) = m + Len(ts) /\ m = Len(vals) - Len(ts)
        /\ \A k \in 1..m : w[k] = vals[k]
        /\ \A k \in 1..Len(ts) : w[m + k] = vals[m + k]
    BY <1>2, <1>4
  <2> HIDE DEF w, m
  <2>2. Len(w) = Len(vals) /\ m \in Nat /\ Len(w) \in Nat
    BY <1>2, <1>3, <2>1
  <2>3. ASSUME NEW k \in 1..Len(w) PROVE w[k] = vals[k]
    <3>1. CASE k <= m
      <4>1. k \in 1..m
        BY <2>2, <3>1
      <4> QED BY <2>1, <4>1
    <3>2. CASE k > m
      <4>1. k - m \in 1..Len(ts) /\ m + (k - m) = k
        BY <1>2, <2>1, <2>2, <3>2
      <4> QED BY <2>1, <4>1
    <3> QED BY <2>2, <3>1, <3>2
  <2> QED BY <1>3, <2>1, <2>2, <2>3, Alike DEF w
<1>6. SubSeq(vals, Len(vals) - Len(ts) + 1, Len(vals)) = ts
  <2> DEFINE w == SubSeq(vals, Len(vals) - Len(ts) + 1, Len(vals))
  <2>1. w \in Seq(Vals) /\ Len(w) = Len(ts) /\ \A k \in 1..Len(ts) : w[k] = vals[Len(vals) - Len(ts) + k]
    BY <1>2, <1>3, Suffix
  <2> HIDE DEF w
  <2>2. \A k \in 1..Len(w) : w[k] = ts[k]
    BY <1>2, <2>1
  <2> QED BY <1>1, <2>1, <2>2, Alike DEF w
<1> QED BY <1>2, <1>4, <1>5, <1>6, InnermostFacts

\* With a condition or an index on top.
LEMMA LiveTest ==
  ASSUME Inv, ctrls # <<>>, Known, Live(now), NEW ts \in Seq(ValTypes),
         CanPop(Append(ts, "i32")), NEW vs, vs = SubSeq(vals, 1, Len(vals) - 1)
  PROVE  /\ 1 <= Len(vals) /\ Popped(Len(ts) + 1) \o ts = vs
         /\ Len(ts) <= Len(vs) /\ innermost.height <= Len(vs)
         /\ SubSeq(vs, Len(vs) - Len(ts) + 1, Len(vs)) = ts
<1> DEFINE us == Append(ts, "i32")
<1>1. /\ ts \in Seq(Vals) /\ Len(ts) \in Nat /\ us \in Seq(ValTypes) /\ us \in Seq(Vals)
      /\ Len(us) = Len(ts) + 1 /\ \A k \in 1..Len(ts) : us[k] = ts[k]
  BY ValidatorAssumption DEF Vals
<1>2. \A k \in 1..Len(us) : us[k] # Unknown
  BY <1>1, ValidatorAssumption
<1> HIDE DEF us
<1>3. /\ Len(us) <= Available /\ Len(us) \in 0..Len(vals)
      /\ innermost.height <= Len(vals) - Len(us)
      /\ \A k \in 1..Len(us) : vals[Len(vals) - Len(us) + k] = us[k]
  BY <1>1, <1>2, LivePop DEF us
<1>4. vals \in Seq(Vals) /\ Len(vals) \in Nat /\ innermost.height \in Nat
  BY InnermostFacts DEF Inv, VTypeOK, Vals
<1>5. /\ vs \in Seq(Vals) /\ Len(vs) = Len(vals) - 1 /\ Len(vs) \in Nat
      /\ \A k \in 1..Len(vs) : vs[k] = vals[k]
  <2>1. Len(vals) - 1 \in 0..Len(vals) /\ Len(vals) - 1 \in Nat
    BY <1>1, <1>3, <1>4
  <2>2. /\ vs \in Seq(Vals) /\ Len(vs) = Len(vals) - 1
        /\ \A k \in 1..(Len(vals) - 1) : vs[k] = vals[k]
    BY <1>4, <2>1, SubSeqFacts
  <2> QED BY <2>1, <2>2
<1>6. /\ 1 <= Len(vals) /\ Len(ts) <= Len(vs) /\ innermost.height <= Len(vs)
  BY <1>1, <1>3, <1>4, <1>5
<1>7. \A k \in 1..Len(ts) : vs[Len(vs) - Len(ts) + k] = ts[k]
  <2> SUFFICES ASSUME NEW k \in 1..Len(ts) PROVE vs[Len(vs) - Len(ts) + k] = ts[k]
    OBVIOUS
  <2>1. /\ k \in 1..Len(us) /\ Len(vs) - Len(ts) + k \in 1..Len(vs)
        /\ Len(vs) - Len(ts) + k = Len(vals) - Len(us) + k
    BY <1>1, <1>4, <1>5, <1>6
  <2> QED BY <1>1, <1>3, <1>5, <2>1
<1>8. SubSeq(vs, Len(vs) - Len(ts) + 1, Len(vs)) = ts
  <2> DEFINE w == SubSeq(vs, Len(vs) - Len(ts) + 1, Len(vs))
  <2>0. Len(ts) \in 0..Len(vs)
    BY <1>1, <1>5, <1>6
  <2>1. w \in Seq(Vals) /\ Len(w) = Len(ts) /\ \A k \in 1..Len(ts) : w[k] = vs[Len(vs) - Len(ts) + k]
    BY <1>5, <2>0, Suffix
  <2> HIDE DEF w
  <2>2. \A k \in 1..Len(w) : w[k] = ts[k]
    BY <1>7, <2>1
  <2> QED BY <1>1, <2>1, <2>2, Alike DEF w
<1>9. Popped(Len(ts) + 1) \o ts = vs
  <2> DEFINE m == Len(Popped(Len(ts) + 1))
             w == Popped(Len(ts) + 1) \o ts
  <2>1. Len(ts) + 1 \in Nat
    BY <1>1
  <2>2. /\ w \in Seq(Vals) /\ Len(w) = m + Len(ts) /\ m = Len(vals) - (Len(ts) + 1)
        /\ \A k \in 1..m : w[k] = vals[k]
        /\ \A k \in 1..Len(ts) : w[m + k] = ts[k]
    BY <1>1, <1>3, <2>1, PoppedKeeps
  <2> HIDE DEF w, m
  <2>3. Len(w) = Len(vs) /\ m = Len(vs) - Len(ts) /\ m \in Nat /\ Len(w) = m + Len(ts)
    BY <1>1, <1>4, <1>5, <1>6, <2>2
  <2>4. ASSUME NEW k \in 1..Len(w) PROVE w[k] = vs[k]
    <3>0. k \in Nat /\ k >= 1 /\ k <= Len(vs) /\ Len(vs) \in Nat /\ Len(ts) \in Nat
      BY <1>1, <1>5, <2>3
    <3>1. CASE k <= m
      <4>1. k \in 1..m /\ k \in 1..Len(vs)
        BY ONLY <2>3, <3>0, <3>1
      <4>2. w[k] = vals[k] /\ vs[k] = vals[k]
        BY <1>5, <2>2, <4>1
      <4> QED BY <4>2
    <3>2. CASE k > m
      <4>1. k - m \in 1..Len(ts) /\ m + (k - m) = k /\ Len(vs) - Len(ts) + (k - m) = k
        BY ONLY <2>3, <3>0, <3>2
      <4> QED BY <1>7, <2>2, <4>1, ZenonT(60)
    <3> QED BY <2>3, <3>0, <3>1, <3>2
  <2> QED BY <1>5, <2>2, <2>3, <2>4, Alike DEF w
<1> QED BY <1>6, <1>8, <1>9

(* A label that exists is a frame of the validator, and takes what that    *)
(* frame's label takes.                                                    *)
LEMMA LabelFacts ==
  ASSUME Inv, ctrls # <<>>, NEW d \in Nat, HasLabel(d)
  PROVE  /\ d < Len(now.ctrls) /\ Len(ctrls) - d \in 1..Len(ctrls)
         /\ LabelTypes(d) = LTypes(now.ctrls[Len(now.ctrls) - d])
         /\ LabelTypes(d) \in Seq(ValTypes)
<1>1. ctrls \in Seq(Frame) /\ Len(ctrls) \in Nat /\ d < Len(ctrls)
  BY DEF Inv, VTypeOK, Frame, HasLabel
<1>2. Len(ctrls) - d \in 1..Len(ctrls)
  BY <1>1
<1>3. LabelTypes(d) = LTypes(ctrls[Len(ctrls) - d])
  BY DEF LabelTypes, LTypes
<1>4. ctrls[Len(ctrls) - d] \in Frame
  BY <1>1, <1>2
<1> QED BY <1>1, <1>2, <1>3, <1>4, FrameFacts, NowFacts

(* The labels of a br_table, default last. *)
LEMMA TableFacts ==
  ASSUME NEW i \in Instructions, i.op = "br_table"
  PROVE  /\ Append(i.targets, i.default) \in Seq(Nat)
         /\ DOMAIN Append(i.targets, i.default) = 1..(Len(i.targets) + 1)
         /\ Len(i.targets) \in Nat
<1>1. i.targets \in Seq(Nat) /\ i.default \in Nat
  BY ValidatorAssumption DEF Instr
<1> QED BY <1>1

(* The level rules, where no frame is unreachable.                         *)
LEMMA LevelSteps ==
  ASSUME Inv, ctrls # <<>>, Known, Live(now), NEW i \in Instructions, Allows(i),
         Plainly(i) \/ Drop(i) \/ Select(i) \/ BrIf(i),
         NEW t, t.vals = vals', t.ctrls = ctrls'
  PROVE  Steps(now, i, t)
<1>0. /\ now.vals = vals /\ now.ctrls = ctrls /\ Inner(now) = innermost
      /\ vals \in Seq(Vals) /\ Len(vals) \in Nat
  BY NowFacts DEF Inv, VTypeOK, Vals
<1>1. CASE Plainly(i)
  <2>1. i.op = "plain" /\ ctrls' = ctrls /\ CanPop(i.type.params)
        /\ vals' = Popped(Len(i.type.params)) \o i.type.results
    BY <1>1 DEF Plainly, Stacks, Allows
  <2>2. i.type.params \in Seq(ValTypes)
    BY <2>1, InstrFacts
  <2>3. /\ Popped(Len(i.type.params)) = SubSeq(vals, 1, Len(vals) - Len(i.type.params))
        /\ Len(i.type.params) <= Len(vals)
    <3>1. /\ Popped(Len(i.type.params)) = SubSeq(vals, 1, Len(vals) - Len(i.type.params))
          /\ Len(i.type.params) \in 0..Len(vals)
      BY <2>1, <2>2, LiveWhole
    <3> QED BY <1>0, <3>1
  <2> QED BY <1>0, <2>1, <2>3 DEF Steps
<1>2. CASE Drop(i)
  <2>1. i.op = "drop" /\ ctrls' = ctrls /\ CanPop(<<Unknown>>) /\ vals' = Popped(1)
    BY <1>2 DEF Drop, Stacks, Allows
  <2>2. <<Unknown>> \in Seq(Vals) /\ Len(<<Unknown>>) = 1
    BY DEF Vals
  <2>3. 1 <= Available /\ 1 <= Len(vals)
    <3>1. Len(<<Unknown>>) <= Available /\ Len(<<Unknown>>) \in 0..Len(vals)
      BY <2>1, <2>2, LivePop
    <3> QED BY <1>0, <2>2, <3>1
  <2>4. Popped(1) = SubSeq(vals, 1, Len(vals) - 1)
    BY <2>3 DEF Popped
  <2> QED BY <1>0, <2>1, <2>3, <2>4 DEF Steps
<1>3. CASE Select(i)
  <2> DEFINE three == <<Unknown, Unknown, "i32">>
  <2>1. /\ i.op = "select" /\ ctrls' = ctrls /\ CanPop(three)
        /\ Fits(Operand(2), Operand(1))
        /\ vals' = Append(Popped(3),
                     IF Operand(1) # Unknown THEN Operand(1) ELSE Operand(2))
    BY <1>3 DEF Select, Stacks, Allows, SelectAllowed
  <2>2. three \in Seq(Vals) /\ Len(three) = 3
    BY ValidatorAssumption DEF Vals
  <2> HIDE DEF three
  <2>3. 3 <= Available /\ 3 <= Len(vals) /\ \A k \in 1..Len(vals) : vals[k] # Unknown
    <3>1. /\ Len(three) <= Available /\ Len(three) \in 0..Len(vals)
          /\ \A k \in 1..Len(vals) : vals[k] # Unknown
      BY <2>1, <2>2, LivePop
    <3> QED BY <1>0, <2>2, <3>1
  <2>4. /\ 1 < Available /\ 2 < Available
        /\ Len(vals) - 1 \in 1..Len(vals) /\ Len(vals) - 2 \in 1..Len(vals)
    <3>1. Available \in Int
      BY <1>0, InnermostFacts DEF Available
    <3> QED BY <1>0, <2>3, <3>1
  <2>5. Operand(1) = vals[Len(vals) - 1] /\ Operand(2) = vals[Len(vals) - 2]
    BY <2>4 DEF Operand
  <2>6. Operand(1) # Unknown /\ Operand(1) = Operand(2)
    BY <2>1, <2>3, <2>4, <2>5 DEF Fits
  <2>7. Popped(3) = SubSeq(vals, 1, Len(vals) - 3)
    BY <2>3 DEF Popped
  <2> QED BY <1>0, <2>1, <2>3, <2>5, <2>6, <2>7 DEF Steps
<1>4. CASE BrIf(i)
  <2> DEFINE types == LabelTypes(i.label)
             vs == SubSeq(vals, 1, Len(vals) - 1)
  <2>1. /\ i.op = "br_if" /\ ctrls' = ctrls /\ HasLabel(i.label)
        /\ CanPop(Append(types, "i32"))
        /\ vals' = Popped(Len(types) + 1) \o types
    BY <1>4 DEF BrIf, Stacks, Allows, BrIfAllowed
  <2>2. i.label \in Nat
    BY <2>1, InstrFacts
  <2>3. /\ i.label < Len(now.ctrls) /\ types \in Seq(ValTypes)
        /\ types = LTypes(now.ctrls[Len(now.ctrls) - i.label])
    BY <2>1, <2>2, LabelFacts
  <2> HIDE DEF types
  <2>4. /\ 1 <= Len(vals) /\ Popped(Len(types) + 1) \o types = vs
        /\ Len(types) <= Len(vs) /\ innermost.height <= Len(vs)
        /\ SubSeq(vs, Len(vs) - Len(types) + 1, Len(vs)) = types
    BY <2>1, <2>3, LiveTest
  <2>5. Takes(now, vs, i.label)
    <3> HIDE DEF vs
    <3> QED BY <1>0, <2>3, <2>4 DEF Takes
  <2> QED BY <1>0, <2>1, <2>4, <2>5 DEF Steps
<1> QED BY <1>1, <1>2, <1>3, <1>4

(* In reachable code, opening a block takes the condition of an if and     *)
(* leaves the rest.                                                        *)
LEMMA OpenSteps ==
  ASSUME Inv, ctrls # <<>>, Known, Live(now), NEW i \in Instructions, Allows(i), Open(i),
         NEW t, t.vals = vals', t.ctrls = ctrls'
  PROVE  Steps(now, i, t)
<1>0. now.vals = vals
  BY NowFacts
<1>1. i.op \in {"block", "loop", "if"} /\ i.type.params \in Seq(ValTypes)
  BY InstrFacts DEF Open
<1>2. Len(i.type.params) \in Nat
  BY <1>1
<1>3. CASE i.op = "if"
  <2>1. CanPop(Append(i.type.params, "i32"))
    BY <1>3 DEF Allows
  <2>2. vals' = Popped(Len(i.type.params) + 1) \o i.type.params
    BY <1>3 DEF Open, Stacks
  <2>3. 1 <= Len(vals) /\ vals' = SubSeq(vals, 1, Len(vals) - 1)
    BY <1>1, <2>1, <2>2, LiveTest
  <2> QED BY <1>0, <1>3, <2>3 DEF Steps
<1>4. CASE i.op # "if"
  <2>1. CanPop(i.type.params)
    BY <1>1, <1>4 DEF Allows
  <2>2. vals' = Popped(Len(i.type.params) + 0) \o i.type.params
    BY <1>4 DEF Open, Stacks
  <2>3. Len(i.type.params) + 0 = Len(i.type.params)
    BY <1>2
  <2>4. vals' = vals
    BY <1>1, <2>1, <2>2, <2>3, LiveWhole
  <2> QED BY <1>0, <1>1, <1>4, <2>4 DEF Steps
<1> QED BY <1>3, <1>4

(* In reachable code, else and end find exactly the results of their block *)
(* on top.                                                                 *)
LEMMA CloseSteps ==
  ASSUME Inv, ctrls # <<>>, Known, Live(now), NEW i \in Instructions, Allows(i),
         Else(i) \/ End(i), NEW t, t.vals = vals', t.ctrls = ctrls'
  PROVE  Steps(now, i, t)
<1>1. i.op \in {"else", "end"} /\ CanClose
  BY DEF Else, End, Allows, EndAllowed
<1>2. innermost.end_types \in Seq(ValTypes) /\ CanPop(innermost.end_types)
  BY <1>1, InnermostFacts DEF CanClose
<1>3. Popped(Len(innermost.end_types)) \o innermost.end_types = vals
  BY <1>2, LiveWhole
<1>4. <<>> \in Seq(Vals)
  OBVIOUS
<1>5. Closed = Under(now)
  BY <1>1, <1>4, ClosedIs
<1>6. vals = Under(now) \o Inner(now).end_types
  BY <1>3, <1>5, NowFacts DEF Closed
<1> QED BY <1>1, <1>6, NowFacts DEF Steps

(* In reachable code, a branch that leaves finds what its label takes on   *)
(* top.                                                                    *)
LEMMA LeaveSteps ==
  ASSUME Inv, ctrls # <<>>, Known, Live(now), NEW i \in Instructions, Allows(i), Leave(i),
         NEW t, t.vals = vals', t.ctrls = ctrls'
  PROVE  Steps(now, i, t)
<1>0. /\ now.vals = vals /\ now.ctrls = ctrls /\ Inner(now) = innermost
      /\ ctrls \in Seq(Frame) /\ Len(ctrls) \in Nat /\ Len(ctrls) >= 1
  BY NowFacts, InnermostFacts DEF Inv, VTypeOK, Frame
<1>1. i.op \in {"br", "br_table", "return", "unreachable"}
  BY DEF Leave
<1>2. CASE i.op = "br"
  <2> DEFINE types == LabelTypes(i.label)
  <2>1. HasLabel(i.label) /\ CanPop(types) /\ i.label \in Nat
    BY <1>2, InstrFacts DEF Allows, BrAllowed
  <2>2. /\ i.label < Len(now.ctrls) /\ types \in Seq(ValTypes)
        /\ types = LTypes(now.ctrls[Len(now.ctrls) - i.label])
    BY <2>1, LabelFacts
  <2> HIDE DEF types
  <2>3. /\ Len(types) \in 0..Len(vals) /\ innermost.height <= Len(vals)
        /\ SubSeq(vals, Len(vals) - Len(types) + 1, Len(vals)) = types
    BY <2>1, <2>2, LiveWhole
  <2>4. Takes(now, now.vals, i.label)
    BY <1>0, <2>2, <2>3 DEF Takes
  <2> QED BY <1>2, <2>4 DEF Steps
<1>3. CASE i.op = "br_table"
  <2> DEFINE all == Append(i.targets, i.default)
             vs == SubSeq(vals, 1, Len(vals) - 1)
             types == LabelTypes(all[1])
  <2>1. /\ \A k \in DOMAIN all : HasLabel(all[k]) /\ LabelTypes(all[k]) = types
        /\ CanPop(Append(types, "i32"))
    BY <1>3 DEF Allows, BrTableAllowed, BrIfAllowed
  <2>2. /\ all \in Seq(Nat) /\ DOMAIN all = 1..(Len(i.targets) + 1)
        /\ Len(i.targets) \in Nat
    BY <1>3, TableFacts
  <2>3. 1 \in DOMAIN all
    <3> HIDE DEF all
    <3> QED BY <2>2
  <2> HIDE DEF all
  <2>4. \A k \in DOMAIN all : all[k] \in Nat
    BY <2>2
  <2>5. ASSUME NEW k \in DOMAIN all
        PROVE  /\ all[k] < Len(now.ctrls)
               /\ types = LTypes(now.ctrls[Len(now.ctrls) - all[k]])
    BY <2>1, <2>4, LabelFacts
  <2>6. types \in Seq(ValTypes)
    BY <2>1, <2>3, <2>4, LabelFacts
  <2> HIDE DEF types
  <2>7. /\ 1 <= Len(vals)
        /\ Len(types) <= Len(vs) /\ innermost.height <= Len(vs)
        /\ SubSeq(vs, Len(vs) - Len(types) + 1, Len(vs)) = types
    BY <2>1, <2>6, LiveTest
  <2>8. \A k \in DOMAIN all : Takes(now, vs, all[k])
    <3> HIDE DEF vs
    <3> QED BY <1>0, <2>5, <2>7 DEF Takes
  <2> QED BY <1>0, <1>3, <2>7, <2>8 DEF Steps, all
<1>4. CASE i.op = "return"
  <2> DEFINE types == ctrls[1].end_types
  <2>1. CanPop(types)
    BY <1>4 DEF Allows
  <2>2. types = LTypes(ctrls[1]) /\ ctrls[1] \in Frame
    <3>1. ctrls[1].opcode = "func" /\ 1 \in 1..Len(ctrls)
      BY <1>0 DEF Inv, Nested
    <3> QED BY <1>0, <3>1 DEF LTypes
  <2>3. types \in Seq(ValTypes)
    BY <2>2, FrameFacts
  <2> HIDE DEF types
  <2>4. /\ Len(types) \in 0..Len(vals) /\ innermost.height <= Len(vals)
        /\ SubSeq(vals, Len(vals) - Len(types) + 1, Len(vals)) = types
    BY <2>1, <2>3, LiveWhole
  <2>5. Len(ctrls) - (Len(ctrls) - 1) = 1 /\ Len(ctrls) - 1 < Len(ctrls)
    BY <1>0
  <2>6. Takes(now, now.vals, Len(now.ctrls) - 1)
    BY <1>0, <2>2, <2>4, <2>5 DEF Takes
  <2> QED BY <1>4, <2>6 DEF Steps
<1>5. CASE i.op = "unreachable"
  BY <1>5 DEF Steps
<1> QED BY <1>1, <1>2, <1>3, <1>4, <1>5

(* In reachable code, every rule finds its operands and leaves its         *)
(* results.                                                                *)
LEMMA RuleSteps ==
  ASSUME Inv, Known, Live(now), NEW i \in Instructions, Allows(i), Rule(i),
         NEW t, t.vals = vals', t.ctrls = ctrls'
  PROVE  Steps(now, i, t)
<1>1. ctrls # <<>>
  BY DEF Allows
<1>2. CASE Plainly(i) \/ Drop(i) \/ Select(i) \/ BrIf(i)
  BY <1>1, <1>2, LevelSteps
<1>3. CASE Open(i)
  BY <1>1, <1>3, OpenSteps
<1>4. CASE Else(i) \/ End(i)
  BY <1>1, <1>4, CloseSteps
<1>5. CASE Leave(i)
  BY <1>1, <1>5, LeaveSteps
<1> QED BY <1>2, <1>3, <1>4, <1>5 DEF Rule

(* One instruction more follows from the state before it. *)
LEMMA GrownFollows ==
  ASSUME Inv, Inv', NEW i \in Instructions, Allows(i), Rule(i), Known, Follows,
         Grown(i), hist[Len(body) + 1] = now, hist'[Len(body) + 2] = now'
  PROVE  Follows'
<1> DEFINE n == Len(body) + 1
<1>1. /\ n \in Nat \ {0} /\ Len(body') = n /\ n - 1 = Len(body)
      /\ \A p \in 1..(n - 1) : body'[p] = body[p]
      /\ body'[n] = i
      /\ \A p \in 1..n : hist'[p] = hist[p]
      /\ Shape(hist[n], i, hist'[n + 1])
  BY NowFacts DEF Grown
<1>2. ASSUME Live(hist[n])
      PROVE  Steps(hist[n], i, hist'[n + 1])
  <2>1. hist'[n + 1].vals = vals' /\ hist'[n + 1].ctrls = ctrls'
    <3>1. hist'[n + 1] = now' /\ now' = [vals |-> vals', ctrls |-> ctrls']
      BY <1>1 DEF now
    <3> QED BY <3>1
  <2>2. hist[n] = now
    OBVIOUS
  <2> HIDE DEF n
  <2> QED BY <1>2, <2>1, <2>2, RuleSteps
<1> HIDE DEF n
<1>3. ASSUME NEW p \in 1..n
      PROVE  /\ Shape(hist'[p], body'[p], hist'[p + 1])
             /\ Live(hist'[p]) => Steps(hist'[p], body'[p], hist'[p + 1])
  <2>1. CASE p = n
    BY <1>1, <1>2, <2>1
  <2>2. CASE p # n
    <3>1. p \in 1..(n - 1) /\ p + 1 \in 1..n
      BY <1>1, <2>2
    <3>2. /\ Shape(hist[p], body[p], hist[p + 1])
          /\ Live(hist[p]) => Steps(hist[p], body[p], hist[p + 1])
      <4>1. p \in 1..Len(body)
        BY <1>1, <3>1
      <4> QED BY <4>1 DEF Follows
    <3> QED BY <1>1, <3>1, <3>2
  <2> QED BY <2>1, <2>2
<1> QED BY <1>1, <1>3 DEF Follows

----------------------------------------------------------------------------
(* The depth is the count of blocks opened and not closed.                 *)
LEMMA CountUpTo ==
  ASSUME NEW p \in Nat, NEW n \in Nat, p <= n,
         NEW A \in SUBSET (p..(n - 1)), NEW B \in SUBSET (p..n),
         \A j \in p..(n - 1) : j \in A <=> j \in B
  PROVE  /\ Cardinality(A) \in Nat /\ Cardinality(B) \in Nat
         /\ Cardinality(B) = Cardinality(A) + (IF n \in B THEN 1 ELSE 0)
<1>1. p \in Int /\ n \in Int /\ n - 1 \in Int
  OBVIOUS
<1>2. IsFiniteSet(p..(n - 1)) /\ IsFiniteSet(p..n)
  BY <1>1, FS_Interval
<1>3. IsFiniteSet(A) /\ IsFiniteSet(B)
  BY <1>2, FS_Subset
<1>4. Cardinality(A) \in Nat /\ Cardinality(B) \in Nat
  BY <1>3, FS_CardinalityType
<1>5. n \notin A
  BY <1>1
<1>6. \A j \in p..n : j = n \/ j \in p..(n - 1)
  BY <1>1
<1>7. CASE n \in B
  <2>1. B = A \cup {n}
    BY <1>6, <1>7
  <2>2. Cardinality(A \cup {n}) = Cardinality(A) + 1
    BY <1>3, <1>5, FS_AddElement
  <2> QED BY <1>4, <1>7, <2>1, <2>2
<1>8. CASE n \notin B
  <2>1. B = A
    BY <1>6, <1>8
  <2> QED BY <1>4, <1>8, <2>1
<1> QED BY <1>7, <1>8

(* The count of openers and ends between two places is the difference of   *)
(* their depths.                                                           *)
LEMMA GrownCounted ==
  ASSUME Inv, NEW i \in Instructions, Grown(i), Counted
  PROVE  Counted'
<1>0. PICK n : n = Len(body) + 1
  OBVIOUS
<1>1. /\ n \in Nat \ {0} /\ Len(body') = n /\ Len(body) = n - 1
      /\ \A p \in 1..(n - 1) : body'[p] = body[p]
      /\ body'[n] = i
  <2>1. /\ n \in Nat \ {0} /\ Len(body') = n
        /\ \A p \in 1..(n - 1) : body'[p] = body[p]
        /\ body'[n] = i
    BY <1>0 DEF Grown
  <2>2. Len(body) \in Int => Len(body) = n - 1
    BY <1>0
  <2>3. Len(body) = n - 1
    BY <2>1, <2>2, NowFacts
  <2> QED BY <2>1, <2>3
<1>2. /\ \A p \in 1..n : Depth(p)' = Depth(p) /\ Depth(p) \in Nat
      /\ Depth(n + 1)' \in Nat
      /\ Depth(n + 1)' = IF i.op \in Openers THEN Depth(n) + 1
                         ELSE IF i.op = "end" THEN Depth(n) - 1 ELSE Depth(n)
  BY <1>0, GrownDepth
<1> DEFINE Opening(b, p, q) == {j \in p..q : b[j].op \in Openers}
           Ending(b, p, q) == {j \in p..q : b[j].op = "end"}
<1>3. ASSUME NEW p \in 1..n, NEW q \in (p - 1)..(n - 1)
      PROVE  OpenIn(p, q)' = Depth(q + 1)' - Depth(p)'
  <2>1. \A j \in p..q : body'[j] = body[j]
    BY <1>1
  <2>2. Opening(body', p, q) = Opening(body, p, q) /\ Ending(body', p, q) = Ending(body, p, q)
    BY <2>1
  <2>3. OpenIn(p, q)' = OpenIn(p, q)
    BY <2>2 DEF OpenIn
  <2>4. OpenIn(p, q) = Depth(q + 1) - Depth(p)
    BY <1>1 DEF Counted
  <2>5. q + 1 \in 1..n
    BY <1>1
  <2>6. Depth(q + 1)' = Depth(q + 1) /\ Depth(p)' = Depth(p)
    BY <1>2, <2>5
  <2> QED BY <2>3, <2>4, <2>6
<1>4. ASSUME NEW p \in 1..n
      PROVE  OpenIn(p, n)' = Depth(n + 1)' - Depth(p)'
  <2>0. p \in Nat /\ p <= n /\ n \in Nat
    BY <1>1
  <2>1. \A j \in p..(n - 1) : body'[j] = body[j]
    BY <1>1
  <2> DEFINE A == Opening(body, p, n - 1)
             B == Opening(body', p, n)
             C == Ending(body, p, n - 1)
             D == Ending(body', p, n)
  <2>2. /\ A \subseteq p..(n - 1) /\ B \subseteq p..n /\ C \subseteq p..(n - 1) /\ D \subseteq p..n
        /\ \A j \in p..(n - 1) : j \in A <=> j \in B
        /\ \A j \in p..(n - 1) : j \in C <=> j \in D
    BY <2>0, <2>1
  <2>3. (n \in B <=> i.op \in Openers) /\ (n \in D <=> i.op = "end")
    BY <1>1, <2>0
  <2>4. OpenIn(p, n)' = Cardinality(B) - Cardinality(D)
    BY DEF OpenIn
  <2>5. OpenIn(p, n - 1) = Cardinality(A) - Cardinality(C)
    BY DEF OpenIn
  <2> HIDE DEF A, B, C, D, Opening, Ending
  <2>6. /\ Cardinality(A) \in Nat /\ Cardinality(B) \in Nat
        /\ Cardinality(B) = Cardinality(A) + (IF n \in B THEN 1 ELSE 0)
    <3>1. /\ A \in SUBSET (p..(n - 1)) /\ B \in SUBSET (p..n)
          /\ \A j \in p..(n - 1) : j \in A <=> j \in B
      BY <2>2
    <3> QED BY ONLY <2>0, <3>1, CountUpTo
  <2>7. /\ Cardinality(C) \in Nat /\ Cardinality(D) \in Nat
        /\ Cardinality(D) = Cardinality(C) + (IF n \in D THEN 1 ELSE 0)
    <3>1. /\ C \in SUBSET (p..(n - 1)) /\ D \in SUBSET (p..n)
          /\ \A j \in p..(n - 1) : j \in C <=> j \in D
      BY <2>2
    <3> QED BY ONLY <2>0, <3>1, CountUpTo, SMTT(60)
  <2>8. n - 1 \in (p - 1)..(n - 1) /\ n - 1 + 1 = n /\ n \in 1..n
    BY <1>1
  <2>9. OpenIn(p, n - 1) = Depth(n) - Depth(p)
    BY <1>1, <2>8 DEF Counted
  <2>10. Depth(p) \in Nat /\ Depth(n) \in Nat /\ Depth(p)' = Depth(p)
    BY <1>2, <2>8
  <2>11. Cardinality(A) - Cardinality(C) = Depth(n) - Depth(p)
    BY <2>5, <2>9
  <2>12. CASE i.op \in Openers
    <3>1. i.op # "end"
      BY <2>12 DEF Openers
    <3>2. Cardinality(B) = Cardinality(A) + 1 /\ Cardinality(D) = Cardinality(C)
      BY <2>3, <2>6, <2>7, <2>12, <3>1
    <3>3. Depth(n + 1)' = Depth(n) + 1
      BY <1>2, <2>12
    <3> QED BY ONLY <2>4, <2>6, <2>7, <2>10, <2>11, <3>2, <3>3
  <2>13. CASE i.op = "end"
    <3>1. i.op \notin Openers
      BY <2>13 DEF Openers
    <3>2. Cardinality(B) = Cardinality(A) /\ Cardinality(D) = Cardinality(C) + 1
      BY <2>3, <2>6, <2>7, <2>13, <3>1
    <3>3. Depth(n + 1)' = Depth(n) - 1
      BY <1>2, <2>13, <3>1
    <3> QED BY ONLY <2>4, <2>6, <2>7, <2>10, <2>11, <3>2, <3>3
  <2>14. CASE i.op \notin Openers /\ i.op # "end"
    <3>2. Cardinality(B) = Cardinality(A) /\ Cardinality(D) = Cardinality(C)
      BY <2>3, <2>6, <2>7, <2>14
    <3>3. Depth(n + 1)' = Depth(n)
      BY <1>2, <2>14
    <3> QED BY ONLY <2>4, <2>6, <2>7, <2>10, <2>11, <3>2, <3>3
  <2> QED BY <2>12, <2>13, <2>14
<1>5. OpenIn(n + 1, n)' = Depth(n + 1)' - Depth(n + 1)'
  <2>1. (n + 1)..n = {}
    BY <1>1
  <2>2. Opening(body', n + 1, n) = {} /\ Ending(body', n + 1, n) = {}
    BY <2>1
  <2>3. OpenIn(n + 1, n)' = Cardinality({}) - Cardinality({})
    BY <2>2 DEF OpenIn
  <2>4. Cardinality({}) = 0
    BY FS_EmptySet
  <2> QED BY <1>2, <2>3, <2>4
<1>6. ASSUME NEW p \in 1..(n + 1), NEW q \in (p - 1)..n
      PROVE  OpenIn(p, q)' = Depth(q + 1)' - Depth(p)'
  <2>1. CASE p = n + 1
    <3>1. q = n
      BY <1>1, <2>1
    <3> QED BY <1>5, <2>1, <3>1
  <2>2. CASE p \in 1..n /\ q = n
    BY <1>4, <2>2
  <2>3. CASE p \in 1..n /\ q \in (p - 1)..(n - 1)
    BY <1>3, <2>3
  <2>4. (p = n + 1) \/ (p \in 1..n /\ q = n) \/ (p \in 1..n /\ q \in (p - 1)..(n - 1))
    BY <1>1
  <2> QED BY <2>1, <2>2, <2>3, <2>4
<1> QED BY <1>1, <1>6 DEF Counted

----------------------------------------------------------------------------
(* Each block opened has been closed, at the depth it was opened at, or is *)
(* still open.                                                             *)
LEMMA GrownWithin ==
  ASSUME NEW i \in Instructions, Grown(i), NEW n, n = Len(body) + 1,
         NEW o \in 1..n, NEW p \in Nat, p <= n
  PROVE  Within(o, p)' <=> Within(o, p)
<1>1. n \in Nat \ {0} /\ \A r \in 1..n : Depth(r)' = Depth(r)
  BY GrownDepth DEF Grown
<1>2. \A r \in (o + 1)..p : Depth(r)' = Depth(r)
  BY <1>1
<1>3. Depth(o)' = Depth(o)
  BY <1>1
<1> QED BY <1>2, <1>3 DEF Within

(* Every opener is closed later at its own depth, or the body has not left *)
(* it yet.                                                                 *)
LEMMA GrownSpans ==
  ASSUME Inv, NEW i \in Instructions, Grown(i), Spans
  PROVE  Spans'
<1>0. PICK n : n = Len(body) + 1
  OBVIOUS
<1>1. /\ n \in Nat \ {0} /\ Len(body') = n /\ Len(body) = n - 1
      /\ \A p \in 1..(n - 1) : body'[p] = body[p]
      /\ body'[n] = i
  <2>1. /\ n \in Nat \ {0} /\ Len(body') = n
        /\ \A p \in 1..(n - 1) : body'[p] = body[p]
        /\ body'[n] = i
    BY <1>0 DEF Grown
  <2> QED BY <1>0, <2>1, NowFacts
<1>2. /\ \A p \in 1..n : Depth(p)' = Depth(p) /\ Depth(p) \in Nat
      /\ Depth(n + 1)' \in Nat
      /\ Depth(n + 1)' = IF i.op \in Openers THEN Depth(n) + 1
                         ELSE IF i.op = "end" THEN Depth(n) - 1 ELSE Depth(n)
  BY <1>0, GrownDepth
<1>3. ASSUME NEW o \in 1..n, body'[o].op \in Openers
      PROVE  \/ \E q \in (o + 1)..n : Depth(q + 1)' = Depth(o)' /\ Within(o, q)'
             \/ Within(o, n + 1)'
  <2>1. CASE o = n
    <3>1. i.op \in Openers /\ n \in 1..n
      BY <1>1, <1>3, <2>1
    <3>2. Depth(n + 1)' > Depth(n)'
      BY <1>2, <3>1
    <3>3. \A r \in (n + 1)..(n + 1) : r = n + 1
      BY <1>1
    <3>4. Within(n, n + 1)'
      BY <3>2, <3>3 DEF Within
    <3> QED BY <2>1, <3>4
  <2>2. CASE o # n
    <3>1. o \in 1..(n - 1) /\ o + 1 \in 1..n /\ n \in (o + 1)..n /\ n \in 1..n
      BY <1>1, <2>2
    <3>2. body[o].op \in Openers
      BY <1>1, <1>3, <3>1
    <3>3. \/ \E q \in (o + 1)..(n - 1) : Depth(q + 1) = Depth(o) /\ Within(o, q)
          \/ Within(o, n)
      <4>1. Len(body) + 1 = n
        BY <1>0
      <4> QED BY <1>1, <3>1, <3>2, <4>1 DEF Spans
    <3>4. CASE \E q \in (o + 1)..(n - 1) : Depth(q + 1) = Depth(o) /\ Within(o, q)
      <4>1. PICK q \in (o + 1)..(n - 1) : Depth(q + 1) = Depth(o) /\ Within(o, q)
        BY <3>4
      <4>2. q \in (o + 1)..n /\ q \in Nat /\ q <= n /\ q + 1 \in 1..n
        BY <1>1
      <4>3. Within(o, q)'
        BY <1>0, <4>1, <4>2, GrownWithin
      <4> QED BY <1>2, <4>1, <4>2, <4>3
    <3>5. CASE Within(o, n)
      <4>1. Within(o, n)'
        BY <1>0, <1>1, <3>5, GrownWithin
      <4>2. Depth(n) > Depth(o) /\ Depth(n) \in Nat /\ Depth(o) \in Nat /\ Depth(o)' = Depth(o)
        BY <1>2, <3>1, <3>5 DEF Within
      <4>3. CASE Depth(n + 1)' > Depth(o)'
        <5>1. \A r \in (o + 1)..(n + 1) : r = n + 1 \/ r \in (o + 1)..n
          BY <1>1
        <5>2. Within(o, n + 1)'
          BY <4>1, <4>3, <5>1 DEF Within
        <5> QED BY <5>2
      <4>4. CASE ~(Depth(n + 1)' > Depth(o)')
        <5>1. Depth(n + 1)' = Depth(o)'
          BY <1>2, <4>2, <4>4
        <5> QED BY <3>1, <4>1, <5>1
      <4> QED BY <4>3, <4>4
    <3> QED BY <3>3, <3>4, <3>5
  <2> QED BY <2>1, <2>2
<1> QED BY <1>1, <1>3 DEF Spans

----------------------------------------------------------------------------
(* While a block is open its frame and what is under it stay.              *)
LEMMA ShapeBlock ==
  ASSUME NEW s \in State, NEW t \in State, NEW i \in Instructions, Shape(s, i, t),
         Ordered(s), NEW j \in 1..Len(s.ctrls), j \in 1..Len(t.ctrls)
  PROVE  /\ SameBlock(s, t, j)
         /\ \/ t.ctrls[j].opcode = s.ctrls[j].opcode
            \/ /\ i.op = "else" /\ j = Len(s.ctrls) /\ Len(t.ctrls) = Len(s.ctrls)
               /\ s.ctrls[j].opcode = "if" /\ t.ctrls[j].opcode = "else"
<1> DEFINE n == Len(s.ctrls)
<1>0. n = Len(s.ctrls) /\ n \in Nat /\ s.ctrls \in Seq(Frame) /\ t.ctrls \in Seq(Frame)
  BY StateFacts
<1> HIDE DEF n
<1>1. /\ Len(t.ctrls) = IF i.op \in Openers THEN n + 1
                        ELSE IF i.op = "end" THEN n - 1 ELSE n
      /\ \A k \in 1..n : k \in 1..Len(t.ctrls) =>
              /\ t.ctrls[k].height = s.ctrls[k].height
              /\ t.ctrls[k].start_types = s.ctrls[k].start_types
              /\ t.ctrls[k].end_types = s.ctrls[k].end_types
              /\ \/ t.ctrls[k].opcode = s.ctrls[k].opcode
                 \/ /\ i.op = "else" /\ k = n
                    /\ s.ctrls[k].opcode = "if" /\ t.ctrls[k].opcode = "else"
              /\ k < n => t.ctrls[k] = s.ctrls[k]
  BY <1>0, ShapeFrames
<1>2. i.op = "else" => i.op \notin Openers /\ i.op # "end"
  BY DEF Openers
<1>3. \A k \in 1..(j - 1) : k \in 1..n /\ k \in 1..Len(t.ctrls) /\ k < n
  <2>1. j \in 1..n /\ Len(t.ctrls) \in Nat
    BY <1>0
  <2> QED BY <1>0, <2>1
<1>4. \A k \in 1..(j - 1) : t.ctrls[k] = s.ctrls[k]
  BY <1>1, <1>3
<1>5. \A k \in 1..s.ctrls[j].height : t.vals[k] = s.vals[k]
  <2>1. /\ s.ctrls[j].height \in Nat /\ Inner(s).height \in Nat
        /\ s.ctrls[j].height <= Inner(s).height
    BY HeightFacts
  <2>2. \A k \in 1..Inner(s).height : t.vals[k] = s.vals[k]
    BY DEF Shape, Keeps
  <2> QED BY <2>1, <2>2
<1>6. j \in 1..n /\ DOMAIN s.ctrls = 1..n /\ DOMAIN t.ctrls = 1..Len(t.ctrls)
  BY <1>0
<1>7. SameBlock(s, t, j)
  BY <1>1, <1>4, <1>5, <1>6 DEF SameBlock
<1> QED BY <1>0, <1>1, <1>2, <1>6, <1>7

(* Belonging to the same block is transitive. *)
LEMMA BlockTrans ==
  ASSUME NEW s, NEW t, NEW u, NEW j, SameBlock(s, t, j), SameBlock(t, u, j)
  PROVE  SameBlock(s, u, j)
  BY DEF SameBlock

(* As long as a block has not been left, its frame and the stack below it  *)
(* are the same.                                                           *)
LEMMA GrownStable ==
  ASSUME Inv, NEW i \in Instructions, Grown(i), Orderly, Stable
  PROVE  Stable'
<1>0. PICK n : n = Len(body) + 1
  OBVIOUS
<1>1. /\ n \in Nat \ {0} /\ Len(body') = n /\ Len(body) = n - 1
      /\ \A p \in 1..(n - 1) : body'[p] = body[p]
      /\ body'[n] = i
      /\ \A p \in 1..n : hist'[p] = hist[p] /\ hist[p] \in State /\ Ordered(hist[p])
      /\ hist'[n + 1] \in State
      /\ Shape(hist[n], i, hist'[n + 1])
  <2>1. /\ n \in Nat \ {0} /\ Len(body') = n
        /\ \A p \in 1..(n - 1) : body'[p] = body[p]
        /\ body'[n] = i
        /\ \A p \in 1..n : hist'[p] = hist[p] /\ hist[p] \in State
        /\ hist'[n + 1] \in State
        /\ Shape(hist[n], i, hist'[n + 1])
    BY <1>0 DEF Grown
  <2>2. \A p \in 1..n : Ordered(hist[p])
    BY <1>0 DEF Orderly
  <2> QED BY <1>0, <2>1, <2>2, NowFacts
<1>2. /\ \A p \in 1..n : Depth(p)' = Depth(p) /\ Depth(p) \in Nat
      /\ Depth(n + 1)' \in Nat
      /\ Depth(n + 1)' = IF i.op \in Openers THEN Depth(n) + 1
                         ELSE IF i.op = "end" THEN Depth(n) - 1 ELSE Depth(n)
  BY <1>0, GrownDepth
<1> DEFINE s == hist[n]
           t == hist'[n + 1]
<1>3. /\ s \in State /\ t \in State /\ Shape(s, i, t) /\ Ordered(s)
      /\ Depth(n) = Len(s.ctrls) /\ Depth(n + 1)' = Len(t.ctrls) /\ n \in 1..n
  BY <1>1 DEF Depth
<1>4. ASSUME NEW o \in 1..n, NEW p \in (o + 1)..(n + 1),
             body'[o].op \in Openers, Within(o, p)'
      PROVE  /\ SameBlock(hist'[o + 1], hist'[p], Depth(o)' + 1)
             /\ \/ hist'[p].ctrls[Depth(o)' + 1].opcode = body'[o].op
                \/ /\ body'[o].op = "if" /\ hist'[p].ctrls[Depth(o)' + 1].opcode = "else"
                   /\ \E q \in (o + 1)..(p - 1) :
                        body'[q].op = "else" /\ Depth(q + 1)' = Depth(o)' + 1
  <2> DEFINE j == Depth(o) + 1
  <2>0. Depth(o)' = Depth(o) /\ Depth(o) \in Nat /\ j \in Nat /\ j >= 1
    BY <1>2
  <2>1. CASE o = n
    <3>1. p = n + 1 /\ i.op \in Openers
      BY <1>1, <1>4, <2>1
    <3>2. Len(t.ctrls) = j /\ Len(s.ctrls) = Depth(o)
      BY <1>2, <1>3, <2>1, <3>1
    <3>3. t.ctrls[Depth(o) + 1].opcode = i.op
      <4> HIDE DEF s, t
      <4> QED BY <1>3, <2>0, <3>1, <3>2, ShapeFrames
    <3>4. j \in DOMAIN t.ctrls
      <4>1. t.ctrls \in Seq(Frame)
        BY <1>3, StateFacts
      <4> QED BY <2>0, <3>2, <4>1
    <3>5. SameBlock(t, t, j)
      BY <3>4 DEF SameBlock
    <3> QED BY <1>1, <2>0, <2>1, <3>1, <3>3, <3>5
  <2>2. CASE o # n
    <3>1. o \in 1..(n - 1) /\ o + 1 \in 1..n
      BY <1>1, <2>2
    <3>2. body[o].op \in Openers /\ body'[o] = body[o] /\ hist'[o + 1] = hist[o + 1]
      BY <1>1, <1>4, <3>1
    <3>3. ASSUME NEW x \in (o + 1)..n, Within(o, x)
          PROVE  /\ SameBlock(hist[o + 1], hist[x], j)
                 /\ \/ hist[x].ctrls[j].opcode = body[o].op
                    \/ /\ body[o].op = "if" /\ hist[x].ctrls[j].opcode = "else"
                       /\ \E q \in (o + 1)..(x - 1) : body[q].op = "else" /\ Depth(q + 1) = j
      <4>1. o \in 1..Len(body) /\ x \in (o + 1)..(Len(body) + 1)
        BY <1>0, <1>1, <3>1
      <4> QED BY <3>2, <3>3, <4>1 DEF Stable
    <3>4. \A x \in (o + 1)..n, q \in Nat :
            q \in (o + 1)..(x - 1) /\ body[q].op = "else" /\ Depth(q + 1) = j =>
              body'[q].op = "else" /\ Depth(q + 1)' = j
      <4> SUFFICES ASSUME NEW x \in (o + 1)..n, NEW q \in (o + 1)..(x - 1)
                   PROVE  body'[q] = body[q] /\ Depth(q + 1)' = Depth(q + 1)
        OBVIOUS
      <4>1. q \in 1..(n - 1) /\ q + 1 \in 1..n
        BY <1>1
      <4> QED BY <1>1, <1>2, <4>1
    <3>5. CASE p # n + 1
      <4>1. p \in (o + 1)..n /\ p \in 1..n /\ p \in Nat /\ p <= n
        BY <1>1, <3>5
      <4>2. Within(o, p)
        BY <1>0, <1>4, <4>1, GrownWithin
      <4>3. /\ SameBlock(hist[o + 1], hist[p], j)
            /\ \/ hist[p].ctrls[j].opcode = body[o].op
               \/ /\ body[o].op = "if" /\ hist[p].ctrls[j].opcode = "else"
                  /\ \E q \in (o + 1)..(p - 1) : body[q].op = "else" /\ Depth(q + 1) = j
        BY <3>3, <4>1, <4>2
      <4>4. hist'[p] = hist[p] /\ \A q \in (o + 1)..(p - 1) : q \in Nat
        BY <1>1, <4>1
      <4> QED BY <2>0, <3>2, <3>4, <4>1, <4>3, <4>4
    <3>6. CASE p = n + 1
      <4>0. n \in (o + 1)..n /\ n \in (o + 1)..(n + 1) /\ n + 1 \in (o + 1)..(n + 1)
            /\ \A r \in (o + 1)..n : r \in (o + 1)..(n + 1)
        BY <1>1, <3>1
      <4>1. Within(o, n)' /\ Depth(n + 1)' > Depth(o)
        BY <1>4, <2>0, <3>6, <4>0 DEF Within
      <4>2. Within(o, n)
        BY <1>0, <1>1, <4>1, GrownWithin
      <4>3. Depth(n) > Depth(o)
        BY <4>0, <4>2 DEF Within
      <4>4. /\ SameBlock(hist[o + 1], s, j)
            /\ \/ s.ctrls[j].opcode = body[o].op
               \/ /\ body[o].op = "if" /\ s.ctrls[j].opcode = "else"
                  /\ \E q \in (o + 1)..(n - 1) : body[q].op = "else" /\ Depth(q + 1) = j
        BY <3>3, <4>0, <4>2
      <4>5. j \in 1..Len(s.ctrls) /\ j \in 1..Len(t.ctrls)
        BY <1>2, <1>3, <2>0, <4>1, <4>3
      <4>6. /\ SameBlock(s, t, j)
            /\ \/ t.ctrls[j].opcode = s.ctrls[j].opcode
               \/ /\ i.op = "else" /\ j = Len(s.ctrls) /\ Len(t.ctrls) = Len(s.ctrls)
                  /\ s.ctrls[j].opcode = "if" /\ t.ctrls[j].opcode = "else"
        <5> HIDE DEF s, t, j
        <5> QED BY <1>3, <4>5, ShapeBlock
      <4>7. SameBlock(hist[o + 1], t, j)
        BY <4>4, <4>6, BlockTrans
      <4>8. p - 1 = n /\ \A q \in (o + 1)..(n - 1) : q \in Nat /\ q \in (o + 1)..n
        BY <1>1, <3>6
      <4> HIDE DEF s, t, j
      <4>9. \/ t.ctrls[j].opcode = body[o].op
            \/ /\ body[o].op = "if" /\ t.ctrls[j].opcode = "else"
               /\ \E q \in (o + 1)..n : body'[q].op = "else" /\ Depth(q + 1)' = j
        <5>1. CASE t.ctrls[j].opcode = s.ctrls[j].opcode
          BY <3>4, <4>0, <4>4, <4>8, <5>1
        <5>2. CASE /\ i.op = "else" /\ j = Len(s.ctrls) /\ Len(t.ctrls) = Len(s.ctrls)
                   /\ s.ctrls[j].opcode = "if" /\ t.ctrls[j].opcode = "else"
          <6>1. body'[n].op = "else" /\ Depth(n + 1)' = j
            BY <1>1, <1>3, <5>2
          <6>2. body[o].op = "if"
            BY <4>4, <5>2
          <6> QED BY <4>0, <5>2, <6>1, <6>2
        <5> QED BY <4>6, <5>1, <5>2
      <4>10. hist'[p] = t
        BY <3>6 DEF t
      <4>11. Depth(o)' + 1 = j
        BY <2>0 DEF j
      <4> QED BY <3>2, <4>7, <4>8, <4>9, <4>10, <4>11
    <3> QED BY <3>5, <3>6
  <2> QED BY <2>1, <2>2
<1> HIDE DEF s, t
<1> QED BY <1>1, <1>4 DEF Stable

----------------------------------------------------------------------------
(* What is recorded of the validation, at every moment of it and after it. *)
TraceInv ==
  Recorded /\ Fresh /\ Orderly /\ Known /\ Follows /\ Counted /\ Spans /\ Stable

(* Before the first instruction the history is that of an empty body. *)
LEMMA InitTrace == Init => TraceInv
<1> SUFFICES ASSUME Init PROVE TraceInv
  OBVIOUS
<1>1. Inv
  BY InitInv DEF Init
<1>2. /\ body = <<>> /\ trace = <<>> /\ vals = <<>> /\ Len(body) = 0 /\ Len(body) + 1 = 1
  BY DEF Init, VInit
<1>3. trace \in Seq(State) /\ Len(trace) = Len(body)
  BY <1>2
<1>4. Recorded
  BY <1>3 DEF Recorded
<1>5. hist[1] = now /\ now \in State /\ now.ctrls = ctrls /\ now.vals = vals
  BY <1>1, <1>2, <1>4, HistFacts, NowFacts
<1>6. Len(ctrls) = 1 /\ ctrls # <<>> /\ ctrls \in Seq(Frame)
  BY <1>1 DEF Init, VInit, Inv, VTypeOK, Frame
<1>a. Fresh
  BY <1>5 DEF Fresh, Init, VInit
<1>7. Ordered(now)
  <2>1. /\ ctrls[1].opcode = "func" /\ ctrls[1].height = 0
        /\ ctrls[1].end_types = FuncResults /\ Len(vals) = 0 /\ DOMAIN ctrls = {1}
    BY <1>1, <1>2, <1>6 DEF Inv, Nested, Whole
  <2> QED BY <1>5, <1>6, <2>1 DEF Ordered
<1>8. Orderly
  BY <1>2, <1>5, <1>7 DEF Orderly
<1>9. Known
  BY <1>2 DEF Known
<1>10. Follows /\ Spans /\ Stable
  BY <1>2 DEF Follows, Spans, Stable
<1>11. Counted
  <2>1. 1..0 = {}
    OBVIOUS
  <2>2. {i \in 1..0 : body[i].op \in Openers} = {} /\ {i \in 1..0 : body[i].op = "end"} = {}
    BY <2>1
  <2>3. OpenIn(1, 0) = Cardinality({}) - Cardinality({})
    BY <2>2 DEF OpenIn
  <2>4. OpenIn(1, 0) = 0
    BY <2>3, FS_EmptySet
  <2>5. Depth(1) = 1
    BY <1>5, <1>6 DEF Depth
  <2>6. \A p \in 1..1 : p = 1
    OBVIOUS
  <2>7. \A q \in (1 - 1)..0 : q = 0 /\ q + 1 = 1
    OBVIOUS
  <2>8. Depth(0 + 1) - Depth(1) = 0
    BY <2>5
  <2> QED BY <1>2, <2>4, <2>6, <2>7, <2>8 DEF Counted
<1> QED BY <1>4, <1>8, <1>9, <1>10, <1>11, <1>a DEF TraceInv

(* What is said of the history stays true while a body runs. *)
LEMMA SameTrace ==
  ASSUME TraceInv, UNCHANGED <<body, vals, ctrls, trace>>
  PROVE  TraceInv'
<1>1. hist' = hist /\ body' = body
  BY DEF hist, now
<1>2. Recorded'
  BY DEF TraceInv, Recorded
<1>a. Fresh'
  BY <1>1 DEF TraceInv, Fresh
<1>3. Orderly'
  BY <1>1 DEF TraceInv, Orderly
<1>4. Known'
  BY DEF TraceInv, Known
<1>5. Follows'
  BY <1>1 DEF TraceInv, Follows
<1>6. \A p : Depth(p)' = Depth(p)
  BY <1>1 DEF Depth
<1>7. \A p, q : OpenIn(p, q)' = OpenIn(p, q)
  BY <1>1 DEF OpenIn
<1>8. Counted'
  BY <1>1, <1>6, <1>7 DEF TraceInv, Counted
<1>9. \A o, p : Within(o, p)' <=> Within(o, p)
  BY <1>6 DEF Within
<1>10. Spans'
  BY <1>1, <1>6, <1>9 DEF TraceInv, Spans
<1>11. Stable'
  BY <1>1, <1>6, <1>9 DEF TraceInv, Stable
<1> QED BY <1>2, <1>3, <1>4, <1>5, <1>8, <1>10, <1>11, <1>a DEF TraceInv

(* Every step keeps what is said of the history. *)
LEMMA NextTrace == Inv /\ TraceInv /\ [Next]_vars => TraceInv'
<1> SUFFICES ASSUME Inv, TraceInv, [Next]_vars PROVE TraceInv'
  OBVIOUS
<1>1. CASE UNCHANGED vars
  BY <1>1, SameTrace DEF vars, vvars
<1>2. CASE Run
  BY <1>2, SameTrace DEF Run, vvars
<1>3. CASE Finish /\ UNCHANGED trace
  BY <1>3, SameTrace DEF Finish
<1>4. ASSUME NEW i \in Instructions, Check(i), Traced
      PROVE  TraceInv'
  <2>1. CASE ~Allows(i)
    <3>1. UNCHANGED <<body, vals, ctrls>>
      BY <1>4, <2>1 DEF Check
    <3>2. UNCHANGED trace
      BY <1>4, <3>1 DEF Traced
    <3> QED BY <3>1, <3>2, SameTrace
  <2>2. CASE Allows(i)
    <3>1. Inv' /\ Rule(i)
      BY <1>4, <2>2, CheckInv DEF Check
    <3>2. Grown(i) /\ Recorded' /\ hist[Len(body) + 1] = now /\ hist'[Len(body) + 2] = now'
      BY <1>4, <2>2, <3>1, CheckGrows DEF TraceInv
    <3>3. Ordered(now)
      <4>1. Len(body) + 1 \in 1..(Len(body) + 1)
        BY NowFacts
      <4> QED BY <3>2, <4>1 DEF TraceInv, Orderly
    <3>a. Fresh'
      <4>1. 1 \in 1..(Len(body) + 1)
        BY NowFacts
      <4>2. hist'[1] = hist[1]
        BY <3>2, <4>1 DEF Grown
      <4> QED BY <4>2 DEF TraceInv, Fresh
    <3>4. Orderly'
      BY <1>4, <3>1, <3>2, GrownOrderly DEF TraceInv
    <3>5. Known'
      BY <1>4, <2>2, <3>1, <3>3, RuleKnown DEF TraceInv
    <3>6. Follows'
      BY <1>4, <2>2, <3>1, <3>2, GrownFollows DEF TraceInv
    <3>7. Counted'
      BY <1>4, <3>2, GrownCounted DEF TraceInv
    <3>8. Spans'
      BY <1>4, <3>2, GrownSpans DEF TraceInv
    <3>9. Stable'
      BY <1>4, <3>2, GrownStable DEF TraceInv
    <3> QED BY <3>2, <3>4, <3>5, <3>6, <3>7, <3>8, <3>9, <3>a DEF TraceInv
  <2> QED BY <2>1, <2>2
<1>5. CASE Validate
  BY <1>3, <1>4, <1>5 DEF Validate
<1> QED BY <1>1, <1>2, <1>5 DEF Next

----------------------------------------------------------------------------
(* The body of which all this was recorded.                                *)
LEMMA BodyStep ==
  ASSUME Inv, TraceInv, NEW p \in 1..Len(body)
  PROVE  /\ body[p] \in Instructions /\ p + 1 \in 1..(Len(body) + 1)
         /\ hist[p] \in State /\ hist[p + 1] \in State
         /\ Ordered(hist[p]) /\ Ordered(hist[p + 1])
         /\ Shape(hist[p], body[p], hist[p + 1])
         /\ Live(hist[p]) => Steps(hist[p], body[p], hist[p + 1])
         /\ hist[p] = trace[p]
         /\ Depth(p) \in Nat \ {0} /\ Depth(p + 1) \in Nat
         /\ Depth(p) = Len(hist[p].ctrls) /\ Depth(p + 1) = Len(hist[p + 1].ctrls)
         /\ Depth(p + 1) = IF body[p].op \in Openers THEN Depth(p) + 1
                           ELSE IF body[p].op = "end" THEN Depth(p) - 1 ELSE Depth(p)
<1>1. body \in Seq(Instructions) /\ Len(body) \in Nat
  BY NowFacts
<1>2. body[p] \in Instructions /\ p \in 1..(Len(body) + 1) /\ p + 1 \in 1..(Len(body) + 1)
  BY <1>1
<1>3. hist[p] \in State /\ hist[p + 1] \in State /\ hist[p] = trace[p]
  BY <1>2, HistState, HistFacts DEF TraceInv
<1>4. Ordered(hist[p]) /\ Ordered(hist[p + 1])
  BY <1>2 DEF TraceInv, Orderly
<1>5. /\ Shape(hist[p], body[p], hist[p + 1])
      /\ Live(hist[p]) => Steps(hist[p], body[p], hist[p + 1])
  BY DEF TraceInv, Follows
<1>6. /\ Len(hist[p].ctrls) \in Nat \ {0} /\ Len(hist[p + 1].ctrls) \in Nat
      /\ Len(hist[p + 1].ctrls) =
           IF body[p].op \in Openers THEN Len(hist[p].ctrls) + 1
           ELSE IF body[p].op = "end" THEN Len(hist[p].ctrls) - 1 ELSE Len(hist[p].ctrls)
  BY <1>2, <1>3, <1>5, ShapeDepth
<1> QED BY <1>2, <1>3, <1>4, <1>5, <1>6 DEF Depth

\* An accepted body has closed every block, and is left at its own end only.
LEMMA Accepted ==
  ASSUME Inv, TraceInv, verdict = "accepted", NEW p \in 1..(Len(body) + 1), Depth(p) # 0
  PROVE  p \in 1..Len(body)
<1>1. ctrls = <<>> /\ Len(body) \in Nat
  BY NowFacts DEF Inv, Whole
<1>2. hist[Len(body) + 1] = now /\ now.ctrls = ctrls
  BY HistFacts, NowFacts DEF TraceInv
<1>3. Depth(Len(body) + 1) = 0
  BY <1>1, <1>2 DEF Depth
<1> QED BY <1>1, <1>3

\* EndOf finds the end that closes the block.
LEMMA EndFacts ==
  ASSUME Inv, TraceInv, verdict = "accepted",
         NEW o \in 1..Len(body), body[o].op \in Openers
  PROVE  /\ EndOf(o) \in (o + 1)..Len(body) /\ EndOf(o) \in 1..Len(body)
         /\ body[EndOf(o)].op = "end" /\ Within(o, EndOf(o))
         /\ Depth(EndOf(o) + 1) = Depth(o) /\ Depth(EndOf(o)) = Depth(o) + 1
<1>1. Len(body) \in Nat /\ o \in Nat /\ Depth(o) \in Nat
  BY NowFacts, BodyStep
<1>2. ASSUME NEW r \in o..Len(body)
      PROVE  /\ r \in 1..Len(body) /\ Depth(r + 1) \in Nat
             /\ OpenIn(o, r) = Depth(r + 1) - Depth(o)
  <2>1. r \in 1..Len(body) /\ o \in 1..(Len(body) + 1) /\ r \in (o - 1)..Len(body)
    BY <1>1
  <2>2. Depth(r + 1) \in Nat
    BY <2>1, BodyStep
  <2> QED BY <2>1, <2>2 DEF TraceInv, Counted
<1>3. PICK q \in (o + 1)..Len(body) : Depth(q + 1) = Depth(o) /\ Within(o, q)
  <2>1. \/ \E q \in (o + 1)..Len(body) : Depth(q + 1) = Depth(o) /\ Within(o, q)
        \/ Within(o, Len(body) + 1)
    BY DEF TraceInv, Spans
  <2>2. CASE Within(o, Len(body) + 1)
    <3>1. Len(body) + 1 \in (o + 1)..(Len(body) + 1) /\ Len(body) + 1 \in 1..(Len(body) + 1)
      BY <1>1
    <3>2. Depth(Len(body) + 1) > Depth(o)
      BY <2>2, <3>1 DEF Within
    <3>3. Depth(Len(body) + 1) # 0
      BY <1>1, <3>2
    <3>4. Len(body) + 1 \in 1..Len(body)
      BY <3>1, <3>3, Accepted
    <3> QED BY <1>1, <3>4
  <2> QED BY <2>1, <2>2
<1> DEFINE P(x) == OpenIn(o, x) = 0 /\ \A r \in o..(x - 1) : OpenIn(o, r) > 0
<1>4. P(q)
  <2>1. q \in o..Len(body) /\ \A r \in o..(q - 1) : r \in o..Len(body) /\ r + 1 \in (o + 1)..q
    BY <1>1
  <2>2. OpenIn(o, q) = 0
    BY <1>1, <1>2, <1>3, <2>1
  <2>3. \A r \in o..(q - 1) : Depth(r + 1) > Depth(o)
    BY <1>3, <2>1 DEF Within
  <2>4. \A r \in o..(q - 1) : OpenIn(o, r) > 0
    BY <1>1, <1>2, <2>1, <2>3
  <2> QED BY <2>2, <2>4
<1> DEFINE e == EndOf(o)
<1>5. e = CHOOSE x \in (o + 1)..Len(body) : P(x)
  BY DEF EndOf
<1> HIDE DEF P, e
<1>6. e \in (o + 1)..Len(body) /\ P(e)
  BY <1>4, <1>5
<1>7. e \in o..Len(body) /\ e \in 1..Len(body) /\ e - 1 \in o..Len(body) /\ e - 1 + 1 = e
  BY <1>1, <1>6
<1>8. Depth(e + 1) = Depth(o)
  BY <1>1, <1>2, <1>6, <1>7 DEF P
<1>9. Within(o, e)
  <2> SUFFICES ASSUME NEW r \in (o + 1)..e PROVE Depth(r) > Depth(o)
    BY DEF Within
  <2>1. PICK x \in o..(e - 1) : x \in o..Len(body) /\ x + 1 = r
    <3>1. r - 1 \in o..(e - 1) /\ r - 1 \in o..Len(body) /\ r - 1 + 1 = r
      BY <1>1, <1>7
    <3> QED BY <3>1
  <2>2. OpenIn(o, x) > 0
    BY <1>6, <2>1 DEF P
  <2>3. Depth(r) \in Nat /\ OpenIn(o, x) = Depth(r) - Depth(o)
    BY <1>2, <2>1
  <2> QED BY <1>1, <2>2, <2>3
<1>10. Depth(e) > Depth(o) /\ Depth(e) \in Nat
  <2>1. e \in (o + 1)..e
    BY <1>6
  <2> QED BY <1>7, <1>9, <2>1, BodyStep DEF Within
<1>11. Depth(e + 1) = IF body[e].op \in Openers THEN Depth(e) + 1
                      ELSE IF body[e].op = "end" THEN Depth(e) - 1 ELSE Depth(e)
  BY <1>7, BodyStep
<1>12. body[e].op = "end" /\ Depth(e) = Depth(o) + 1
  BY <1>1, <1>8, <1>10, <1>11
<1> QED BY <1>6, <1>7, <1>8, <1>9, <1>12 DEF e

\* Inside a block its frame is the one it was opened with, but for the
\* else, and what is under it is untouched.
LEMMA InsideFacts ==
  ASSUME Inv, TraceInv, verdict = "accepted",
         NEW o \in 1..Len(body), body[o].op \in Openers,
         NEW p \in (o + 1)..EndOf(o), NEW j, j = Depth(o) + 1
  PROVE  /\ p \in 1..Len(body) /\ o \in Nat /\ Depth(o) \in Nat /\ Depth(o) >= 1
         /\ Within(o, p) /\ Depth(o + 1) = j /\ Depth(p) >= j
         /\ SameBlock(hist[o + 1], hist[p], j)
         /\ \A k \in 1..Depth(o) : hist[p].ctrls[k] = hist[o].ctrls[k]
         /\ \/ hist[p].ctrls[j].opcode = body[o].op
            \/ /\ body[o].op = "if" /\ hist[p].ctrls[j].opcode = "else"
               /\ \E q \in (o + 1)..(p - 1) : body[q].op = "else" /\ Depth(q + 1) = j
         /\ j \in 1..Len(hist[p].ctrls) /\ j \in 1..Len(hist[o + 1].ctrls)
         /\ hist[p] \in State /\ hist[o + 1] \in State
         /\ Ordered(hist[p]) /\ Ordered(hist[o + 1])
<1>1. Len(body) \in Nat /\ EndOf(o) \in (o + 1)..Len(body) /\ Within(o, EndOf(o))
  BY NowFacts, EndFacts
<1>2. /\ p \in 1..Len(body) /\ o \in Nat /\ o + 1 \in 1..Len(body)
      /\ p \in (o + 1)..(Len(body) + 1) /\ p \in (o + 1)..p
  BY <1>1
<1>3. Within(o, p)
  <2>1. \A r \in (o + 1)..p : r \in (o + 1)..EndOf(o)
    BY <1>1
  <2> QED BY <1>1, <2>1 DEF Within
<1>4. /\ SameBlock(hist[o + 1], hist[p], j)
      /\ \/ hist[p].ctrls[j].opcode = body[o].op
         \/ /\ body[o].op = "if" /\ hist[p].ctrls[j].opcode = "else"
            /\ \E q \in (o + 1)..(p - 1) : body[q].op = "else" /\ Depth(q + 1) = j
  BY <1>2, <1>3 DEF TraceInv, Stable
<1>5. /\ Depth(o) \in Nat \ {0} /\ Depth(o + 1) = Depth(o) + 1
      /\ Depth(o) = Len(hist[o].ctrls) /\ Depth(o + 1) = Len(hist[o + 1].ctrls)
      /\ Shape(hist[o], body[o], hist[o + 1]) /\ hist[o + 1] \in State /\ Ordered(hist[o + 1])
  BY BodyStep
<1>6. Depth(p) > Depth(o) /\ Depth(p) \in Nat /\ Depth(p) = Len(hist[p].ctrls)
      /\ hist[p] \in State /\ Ordered(hist[p])
  BY <1>2, <1>3, BodyStep DEF Within
<1>7. \A k \in 1..Depth(o) : hist[p].ctrls[k] = hist[o].ctrls[k]
  <2>1. \A k \in 1..(j - 1) : hist[p].ctrls[k] = hist[o + 1].ctrls[k]
    BY <1>4 DEF SameBlock
  <2>2. /\ \A k \in 1..(Depth(o) - 1) : hist[o + 1].ctrls[k] = hist[o].ctrls[k]
        /\ hist[o + 1].ctrls[Depth(o)] = hist[o].ctrls[Depth(o)]
    BY <1>5 DEF Shape, Keeps, Opens, Inner
  <2>3. \A k \in 1..Depth(o) : k \in 1..(j - 1) /\ (k = Depth(o) \/ k \in 1..(Depth(o) - 1))
    BY <1>5
  <2> QED BY <2>1, <2>2, <2>3
<1>8. j \in Nat /\ j >= 1 /\ j <= Depth(p) /\ Depth(o + 1) = j /\ Depth(o) >= 1
  <2>1. Depth(o) \in Nat \ {0} /\ Depth(p) \in Nat /\ Depth(p) > Depth(o) /\ Depth(o + 1) = Depth(o) + 1
    BY <1>5, <1>6
  <2> QED BY ONLY <2>1, j = Depth(o) + 1
<1> QED BY <1>2, <1>3, <1>4, <1>5, <1>6, <1>7, <1>8

\* Of two blocks around a place, the deeper one begins later and ends first.
LEMMA Nesting ==
  ASSUME Inv, TraceInv, verdict = "accepted",
         NEW a \in 1..Len(body), body[a].op \in Openers,
         NEW o \in 1..Len(body), body[o].op \in Openers, Depth(a) < Depth(o),
         NEW p \in Nat, a < p, p <= EndOf(a), o < p, p <= EndOf(o)
  PROVE  a < o /\ EndOf(o) < EndOf(a)
<1>1. /\ Len(body) \in Nat /\ a \in Nat /\ o \in Nat
      /\ EndOf(a) \in (a + 1)..Len(body) /\ EndOf(o) \in (o + 1)..Len(body)
      /\ EndOf(a) \in Nat /\ EndOf(o) \in Nat
      /\ Within(a, EndOf(a)) /\ Within(o, EndOf(o))
      /\ Depth(EndOf(a) + 1) = Depth(a) /\ Depth(EndOf(o) + 1) = Depth(o)
      /\ Depth(a) \in Nat /\ Depth(o) \in Nat
  <2>1. /\ Len(body) \in Nat /\ a \in Nat /\ o \in Nat
        /\ Depth(a) \in Nat /\ Depth(o) \in Nat
    BY NowFacts, BodyStep
  <2>2. /\ EndOf(a) \in (a + 1)..Len(body) /\ EndOf(o) \in (o + 1)..Len(body)
        /\ Within(a, EndOf(a)) /\ Within(o, EndOf(o))
        /\ Depth(EndOf(a) + 1) = Depth(a) /\ Depth(EndOf(o) + 1) = Depth(o)
    BY EndFacts
  <2>3. EndOf(a) \in Nat /\ EndOf(o) \in Nat
    BY <2>1, <2>2
  <2> QED BY <2>1, <2>2, <2>3
<1>2. a # o
  BY <1>1
<1>3. ~(o < a)
  <2>1. SUFFICES ASSUME o < a PROVE FALSE
    OBVIOUS
  <2>2. a \in (o + 1)..EndOf(o)
    BY <1>1, <2>1
  <2>3. Depth(a) > Depth(o)
    BY <1>1, <2>2 DEF Within
  <2> QED BY <1>1, <2>3
<1>4. EndOf(a) # EndOf(o)
  BY <1>1
<1>5. ~(EndOf(a) < EndOf(o))
  <2>1. SUFFICES ASSUME EndOf(a) < EndOf(o) PROVE FALSE
    OBVIOUS
  <2>2. EndOf(a) + 1 \in (o + 1)..EndOf(o)
    BY <1>1, <2>1
  <2>3. Depth(EndOf(a) + 1) > Depth(o)
    BY <1>1, <2>2 DEF Within
  <2> QED BY <1>1, <2>3
<1> QED BY <1>1, <1>2, <1>3, <1>4, <1>5

----------------------------------------------------------------------------
(* Labels.                                                                 *)
LEMMA BlockLabelFacts ==
  ASSUME Inv, TraceInv, verdict = "accepted",
         NEW o \in 1..Len(body), body[o].op \in Openers,
         NEW f, f = hist[o + 1].ctrls[Depth(o) + 1]
  PROVE  /\ BlockLabel(o) \in Labels /\ BlockLabel(o).after = EndOf(o)
         /\ BlockLabel(o).arity = Len(LTypes(f)) /\ BlockLabel(o).base = f.height
         /\ BlockLabel(o).again = IF body[o].op = "loop" THEN o + 1 ELSE 0
         /\ f \in Frame
<1>1. /\ EndOf(o) \in 1..Len(body) /\ Len(body) \in Nat /\ o \in Nat /\ EndOf(o) \in Nat
      /\ EndOf(o) \in (o + 1)..Len(body)
  <2>1. EndOf(o) \in 1..Len(body) /\ EndOf(o) \in (o + 1)..Len(body)
    BY EndFacts
  <2>2. Len(body) \in Nat
    BY NowFacts
  <2> QED BY <2>1, <2>2
<1>2. o + 1 \in (o + 1)..EndOf(o)
  BY <1>1
<1>3. Depth(o) + 1 \in 1..Len(hist[o + 1].ctrls) /\ hist[o + 1] \in State
  BY <1>2, InsideFacts
<1>4. f \in Frame
  BY <1>3, StateFacts
<1>5. f.height \in Nat /\ Len(LTypes(f)) \in Nat
  BY <1>4, FrameFacts
<1>6. BlockLabel(o) = [arity |-> Len(LTypes(f)), base |-> f.height,
                       again |-> IF body[o].op = "loop" THEN o + 1 ELSE 0,
                       after |-> EndOf(o)]
  BY DEF BlockLabel, Label
<1>7. (IF body[o].op = "loop" THEN o + 1 ELSE 0) \in Nat
  BY <1>1
<1>8. BlockLabel(o) \in Labels
  BY <1>1, <1>5, <1>6, <1>7 DEF Labels
<1> QED BY <1>4, <1>6, <1>8

(* A label of the machine belongs to a block around the instruction at     *)
(* hand, with the frame the validator had for it.                          *)
LEMMA OpenedFacts ==
  ASSUME Inv, TraceInv, verdict = "accepted", NEW ls, NEW p, LabelsAt(ls, p),
         NEW i \in 2..Len(ls), NEW o, Opened(ls, i, o, p)
  PROVE  /\ o \in 1..Len(body) /\ body[o].op \in Openers /\ o \in Nat /\ p \in Nat
         /\ p \in 1..Len(body) /\ p \in (o + 1)..EndOf(o) /\ i = Depth(o) + 1
         /\ EndOf(o) \in (o + 1)..Len(body) /\ ls[i].after = EndOf(o)
         /\ ls[i].again = IF body[o].op = "loop" THEN o + 1 ELSE 0
         /\ i \in 1..Len(hist[p].ctrls)
         /\ Labelled(ls[i], hist[p].ctrls[i])
         /\ hist[p].ctrls[i].opcode = "loop" <=> body[o].op = "loop"
<1>1. /\ o \in 1..Len(body) /\ body[o].op \in Openers /\ Depth(o) = i - 1
      /\ o < p /\ p <= EndOf(o) /\ ls[i] = BlockLabel(o) /\ p \in 1..Len(body)
  BY DEF Opened, LabelsAt
<1>2. /\ EndOf(o) \in (o + 1)..Len(body) /\ Len(body) \in Nat
  BY <1>1, EndFacts, NowFacts
<1>3. o \in Nat /\ p \in Nat /\ p \in (o + 1)..EndOf(o) /\ i = Depth(o) + 1
  <2>1. i \in Int
    OBVIOUS
  <2> QED BY <1>1, <1>2, <2>1
<1> DEFINE f == hist[o + 1].ctrls[Depth(o) + 1]
           g == hist[p].ctrls[i]
<1>4. /\ ls[i].after = EndOf(o)
      /\ ls[i].arity = Len(LTypes(f)) /\ ls[i].base = f.height
      /\ ls[i].again = IF body[o].op = "loop" THEN o + 1 ELSE 0
  BY <1>1, BlockLabelFacts
<1>5. /\ SameBlock(hist[o + 1], hist[p], i) /\ i \in 1..Len(hist[p].ctrls)
      /\ g.opcode = body[o].op \/ (body[o].op = "if" /\ g.opcode = "else")
      /\ Shape(hist[o], body[o], hist[o + 1]) /\ Len(hist[o].ctrls) = Depth(o)
  <2>1. p \in (o + 1)..EndOf(o)
    BY <1>3
  <2>2. /\ SameBlock(hist[o + 1], hist[p], i) /\ i \in 1..Len(hist[p].ctrls)
        /\ hist[p].ctrls[i].opcode = body[o].op
           \/ (body[o].op = "if" /\ hist[p].ctrls[i].opcode = "else")
    BY <1>1, <1>3, <2>1, InsideFacts, SMTT(60)
  <2>3. Shape(hist[o], body[o], hist[o + 1]) /\ Len(hist[o].ctrls) = Depth(o)
    BY <1>1, BodyStep
  <2> QED BY <2>2, <2>3
<1>6. f.opcode = body[o].op
  <2>1. /\ hist[o] \in State /\ hist[o + 1] \in State /\ body[o] \in Instructions
        /\ Depth(o) \in Nat
    BY <1>1, BodyStep
  <2>2. body[o].op \in Openers => hist[o + 1].ctrls[Depth(o) + 1].opcode = body[o].op
    <3> HIDE DEF f, g
    <3> QED BY ONLY <1>5, <2>1, ShapeFrames
  <2> QED BY <1>1, <2>2
<1>7. /\ g.height = f.height /\ g.start_types = f.start_types /\ g.end_types = f.end_types
  BY <1>3, <1>5 DEF SameBlock
<1>8. (g.opcode = "loop" <=> body[o].op = "loop") /\ (f.opcode = "loop" <=> body[o].op = "loop")
  BY <1>5, <1>6
<1>9. LTypes(g) = LTypes(f)
  BY <1>7, <1>8 DEF LTypes
<1>10. (ls[i].again # 0) <=> body[o].op = "loop"
  BY <1>3, <1>4
<1> HIDE DEF f, g
<1>11. Labelled(ls[i], g)
  BY <1>4, <1>7, <1>8, <1>9, <1>10 DEF Labelled, LTypes
<1> QED BY <1>1, <1>2, <1>3, <1>4, <1>5, <1>8, <1>11 DEF g

\* Each label is as the frame the validator had at its place.
LEMMA Labelling ==
  ASSUME Inv, TraceInv, verdict = "accepted", NEW ls, NEW p, LabelsAt(ls, p),
         NEW i \in 1..Len(ls)
  PROVE  /\ p \in 1..Len(body) /\ i \in 1..Len(hist[p].ctrls)
         /\ Labelled(ls[i], hist[p].ctrls[i])
<1>0. Len(ls) \in Nat /\ p \in 1..Len(body)
  BY DEF LabelsAt
<1>1. CASE i = 1
  <2>1. /\ hist[p] \in State /\ Ordered(hist[p]) /\ Depth(p) \in Nat \ {0}
        /\ Depth(p) = Len(hist[p].ctrls)
    BY <1>0, BodyStep
  <2>2. 1 \in 1..Len(hist[p].ctrls) /\ hist[p].ctrls # <<>>
    BY <2>1, StateFacts
  <2>3. /\ hist[p].ctrls[1].opcode = "func" /\ hist[p].ctrls[1].height = 0
        /\ hist[p].ctrls[1].end_types = FuncResults
    BY <2>1, <2>2 DEF Ordered
  <2>4. ls[1].arity = Len(FuncResults) /\ ls[1].base = 0 /\ ls[1].again = 0
    BY DEF LabelsAt, Label
  <2> QED BY <1>0, <1>1, <2>2, <2>3, <2>4 DEF Labelled
<1>2. CASE i # 1
  <2>1. i \in 2..Len(ls)
    BY <1>0, <1>2
  <2>2. PICK o \in 1..Len(body) : Opened(ls, i, o, p)
    BY <2>1 DEF LabelsAt
  <2> QED BY <1>0, <2>1, <2>2, OpenedFacts
<1> QED BY <1>1, <1>2

\* The outer labels stay good wherever the machine goes within their blocks.
LEMMA LabelsMove ==
  ASSUME Inv, TraceInv, verdict = "accepted", NEW ls, NEW p, LabelsAt(ls, p),
         NEW m \in 1..Len(ls), NEW q \in 1..Len(body), NEW ks,
         ks \in Seq(Labels), Len(ks) = m, \A i \in 1..m : ks[i] = ls[i],
         \A i \in 2..m : \A o \in 1..Len(body) :
           Opened(ls, i, o, p) => o < q /\ q <= EndOf(o)
  PROVE  LabelsAt(ks, q)
<1>1. Len(ls) \in Nat /\ m \in Nat /\ m > 0
  BY DEF LabelsAt
<1>2. ks[1] = Label(Len(FuncResults), 0, 0, Len(body))
  <2>1. 1 \in 1..m
    BY <1>1
  <2> QED BY <2>1 DEF LabelsAt
<1>3. ASSUME NEW i \in 2..m
      PROVE  \E o \in 1..Len(body) : Opened(ks, i, o, q)
  <2>1. i \in 2..Len(ls) /\ i \in 1..m
    BY <1>1
  <2>2. PICK o \in 1..Len(body) : Opened(ls, i, o, p)
    BY <2>1 DEF LabelsAt
  <2>3. Opened(ks, i, o, q)
    BY <2>1, <2>2 DEF Opened
  <2> QED BY <2>3
<1> QED BY <1>1, <1>2, <1>3 DEF LabelsAt

(* The labels below some level. *)
LEMMA Popping ==
  ASSUME NEW ls \in Seq(Labels), NEW m \in 0..Len(ls)
  PROVE  /\ SubSeq(ls, 1, m) \in Seq(Labels) /\ Len(SubSeq(ls, 1, m)) = m
         /\ \A i \in 1..m : SubSeq(ls, 1, m)[i] = ls[i]
  BY SubSeqFacts

\* To the next instruction, which an end alone can have outside a block.
LEMMA LabelsOn ==
  ASSUME Inv, TraceInv, verdict = "accepted", NEW ls, NEW p, LabelsAt(ls, p),
         body[p].op # "end"
  PROVE  p + 1 \in 1..Len(body) /\ LabelsAt(ls, p + 1)
<1>1. p \in 1..Len(body) /\ Len(ls) \in Nat /\ Len(ls) > 0 /\ ls \in Seq(Labels)
  BY DEF LabelsAt
<1>2. p + 1 \in 1..(Len(body) + 1) /\ Depth(p + 1) # 0
  <2>1. /\ p + 1 \in 1..(Len(body) + 1) /\ Depth(p) \in Nat \ {0}
        /\ Depth(p + 1) = IF body[p].op \in Openers THEN Depth(p) + 1
                          ELSE IF body[p].op = "end" THEN Depth(p) - 1 ELSE Depth(p)
    BY <1>1, BodyStep
  <2> QED BY <2>1
<1>3. p + 1 \in 1..Len(body)
  BY <1>2, Accepted
<1>4. ASSUME NEW i \in 2..Len(ls), NEW o \in 1..Len(body), Opened(ls, i, o, p)
      PROVE  o < p + 1 /\ p + 1 <= EndOf(o)
  <2>1. p \in (o + 1)..EndOf(o) /\ EndOf(o) \in (o + 1)..Len(body) /\ o \in Nat /\ body[o].op \in Openers
    BY <1>4, OpenedFacts
  <2>2. body[EndOf(o)].op = "end"
    BY <2>1, EndFacts
  <2>3. p # EndOf(o)
    BY <2>2
  <2> QED BY <2>1, <2>3
<1>5. Len(ls) \in 1..Len(ls)
  BY <1>1
<1> QED BY <1>1, <1>3, <1>4, <1>5, LabelsMove

\* A block is entered.
LEMMA LabelsPush ==
  ASSUME Inv, TraceInv, verdict = "accepted", NEW ls, NEW q, LabelsAt(ls, q),
         NEW o \in 1..Len(body), body[o].op \in Openers, Depth(o) = Len(ls),
         o < q, q <= EndOf(o)
  PROVE  LabelsAt(Append(ls, BlockLabel(o)), q)
<1> DEFINE ks == Append(ls, BlockLabel(o))
<1>1. /\ ls \in Seq(Labels) /\ Len(ls) \in Nat /\ Len(ls) > 0 /\ BlockLabel(o) \in Labels
  BY BlockLabelFacts DEF LabelsAt
<1>2. /\ ks \in Seq(Labels) /\ Len(ks) = Len(ls) + 1
      /\ \A i \in 1..Len(ls) : ks[i] = ls[i]
      /\ ks[Len(ls) + 1] = BlockLabel(o)
  BY <1>1, AppendAt
<1> HIDE DEF ks
<1>3. ks[1] = ls[1] /\ Len(ks) > 0
  BY <1>1, <1>2
<1>4. ASSUME NEW i \in 2..Len(ks)
      PROVE  \E x \in 1..Len(body) : Opened(ks, i, x, q)
  <2>1. CASE i = Len(ls) + 1
    <3>1. Opened(ks, i, o, q)
      BY <1>1, <1>2, <2>1 DEF Opened
    <3> QED BY <3>1
  <2>2. CASE i # Len(ls) + 1
    <3>1. i \in 2..Len(ls) /\ i \in 1..Len(ls)
      BY <1>1, <1>2, <2>2
    <3>2. PICK x \in 1..Len(body) : Opened(ls, i, x, q)
      BY <3>1 DEF LabelsAt
    <3>3. Opened(ks, i, x, q)
      BY <1>2, <3>1, <3>2 DEF Opened
    <3> QED BY <3>3
  <2> QED BY <2>1, <2>2
<1> QED BY <1>2, <1>3, <1>4 DEF LabelsAt, ks

\* Nothing else that happens in the block moves the machine out of the
\* blocks around it.
LEMMA AroundFacts ==
  ASSUME Inv, TraceInv, verdict = "accepted", NEW ls, NEW p, LabelsAt(ls, p),
         NEW i \in 2..Len(ls), NEW o, Opened(ls, i, o, p),
         NEW k \in 2..(i - 1), NEW a, Opened(ls, k, a, p)
  PROVE  a < o /\ EndOf(o) < EndOf(a)
<1>1. Len(ls) \in Nat
  BY DEF LabelsAt
<1>2. k \in 2..Len(ls)
  BY <1>1
<1>3. /\ o \in 1..Len(body) /\ body[o].op \in Openers /\ o \in Nat
      /\ p \in (o + 1)..EndOf(o) /\ i = Depth(o) + 1 /\ EndOf(o) \in (o + 1)..Len(body)
      /\ p \in Nat
  BY OpenedFacts
<1>4. /\ a \in 1..Len(body) /\ body[a].op \in Openers /\ a \in Nat
      /\ p \in (a + 1)..EndOf(a) /\ k = Depth(a) + 1 /\ EndOf(a) \in (a + 1)..Len(body)
  BY <1>2, OpenedFacts
<1>5. a < p /\ p <= EndOf(a) /\ o < p /\ p <= EndOf(o)
  BY <1>3, <1>4
<1>6. Depth(a) < Depth(o)
  <2>1. Depth(a) \in Nat /\ Depth(o) \in Nat
    BY <1>3, <1>4, BodyStep
  <2>2. k < i /\ k \in Int /\ i \in Int
    BY <1>1
  <2>3. i = Depth(o) + 1 /\ k = Depth(a) + 1
    BY <1>3, <1>4
  <2> QED BY ONLY <2>1, <2>2, <2>3
<1> QED BY <1>3, <1>4, <1>5, <1>6, Nesting
----------------------------------------------------------------------------
(* The machine on an accepted body.                                        *)
MachineInv == Running /\ ReturnsAsTyped

\* A step leaves the machine at p, or on its way there.
LEMMA Moved ==
  ASSUME UNCHANGED <<body, vals, ctrls, trace>>, verdict' = "accepted",
         NEW ls, NEW p, NEW vs, NEW d,
         labels' = ls, pc' = p, stack' = vs, branch' = d, outcome' = "running",
         LabelsAt(ls, p), d = -1 => Arrived(ls, p, vs), d # -1 => Unwinding(ls, p, vs, d)
  PROVE  MachineInv'
<1>1. hist' = hist /\ body' = body
  BY DEF hist, now
<1>2. \A o : Depth(o)' = Depth(o)
  BY <1>1 DEF Depth
<1>3. \A o : EndOf(o)' = EndOf(o)
  BY <1>1 DEF EndOf, OpenIn
<1>4. \A o : BlockLabel(o)' = BlockLabel(o)
  BY <1>1, <1>2, <1>3 DEF BlockLabel
<1>5. \A i, o : Opened(ls, i, o, p)' <=> Opened(ls, i, o, p)
  BY <1>1, <1>2, <1>3, <1>4 DEF Opened
<1>6. LabelsAt(ls, p)'
  BY <1>1, <1>5 DEF LabelsAt
<1>7. Arrived(ls, p, vs)' <=> Arrived(ls, p, vs)
  BY <1>1, <1>2 DEF Arrived
<1>8. Unwinding(ls, p, vs, d)' <=> Unwinding(ls, p, vs, d)
  BY <1>1 DEF Unwinding
<1>9. Running'
  BY <1>6, <1>7, <1>8 DEF Running
<1>10. ReturnsAsTyped'
  BY DEF ReturnsAsTyped
<1> QED BY <1>9, <1>10 DEF MachineInv

\* It is on its way out of d blocks.
LEMMA MovedOut ==
  ASSUME UNCHANGED <<body, vals, ctrls, trace>>, verdict' = "accepted",
         NEW ls, NEW p, NEW vs, NEW d \in Nat,
         labels' = ls, pc' = p, stack' = vs, branch' = d, outcome' = "running",
         LabelsAt(ls, p), Unwinding(ls, p, vs, d)
  PROVE  MachineInv'
<1>1. d # -1
  OBVIOUS
<1> QED BY <1>1, Moved

(* The top of a stack that ends in ts is ts. *)
LEMMA TopIs ==
  ASSUME NEW us \in Seq(Vals), NEW ts \in Seq(Vals), NEW vs, vs = us \o ts
  PROVE  /\ Len(ts) <= Len(vs) /\ Len(vs) \in Nat
         /\ SubSeq(vs, Len(vs) - Len(ts) + 1, Len(vs)) = ts
<1>1. /\ vs \in Seq(Vals) /\ Len(vs) = Len(us) + Len(ts) /\ Len(us) \in Nat /\ Len(ts) \in Nat
  BY ConcatFacts
<1>2. Len(ts) \in 0..Len(vs)
  BY <1>1
<1> DEFINE top == SubSeq(vs, Len(vs) - Len(ts) + 1, Len(vs))
<1>3. /\ top \in Seq(Vals) /\ Len(top) = Len(ts)
      /\ \A k \in 1..Len(ts) : top[k] = vs[Len(vs) - Len(ts) + k]
  BY <1>1, <1>2, Suffix
<1> HIDE DEF top
<1>4. \A k \in 1..Len(ts) : vs[Len(us) + k] = ts[k]
  BY ConcatAt
<1>5. Len(vs) - Len(ts) = Len(us)
  BY <1>1
<1>6. \A k \in 1..Len(top) : top[k] = ts[k]
  BY <1>3, <1>4, <1>5
<1>7. top = ts
  BY <1>3, <1>6, Alike
<1> QED BY <1>1, <1>2, <1>7 DEF top

\* A call returns.
LEMMA Returned ==
  ASSUME Returns, stack' = stack, Len(FuncResults) <= Len(stack),
         SubSeq(stack, Len(stack) - Len(FuncResults) + 1, Len(stack)) = FuncResults,
         Len(stack) \in Nat
  PROVE  MachineInv'
<1>1. Len(FuncResults) \in Nat
  BY ValidatorAssumption
<1>2. outcome' = "returned"
  BY <1>1 DEF Returns
<1>3. Running'
  BY <1>2 DEF Running
<1>4. Top(Len(FuncResults))' = FuncResults /\ Len(stack') >= Len(FuncResults)
  BY <1>1 DEF Top
<1>5. ReturnsAsTyped'
  BY <1>2, <1>4 DEF ReturnsAsTyped
<1> QED BY <1>3, <1>5 DEF MachineInv

(* The outermost frame is the function's. *)
LEMMA FuncFrame ==
  ASSUME NEW s \in State, Ordered(s), s.ctrls # <<>>
  PROVE  /\ s.ctrls[1].opcode = "func" /\ s.ctrls[1].height = 0
         /\ s.ctrls[1].end_types = FuncResults /\ LTypes(s.ctrls[1]) = FuncResults
<1>1. /\ s.ctrls[1].opcode = "func" /\ s.ctrls[1].height = 0
      /\ s.ctrls[1].end_types = FuncResults
  BY DEF Ordered
<1> QED BY <1>1 DEF LTypes

\* What the validator recorded of the instruction the machine is at.
LEMMA Arrival ==
  ASSUME Inv, TraceInv, verdict = "accepted", NEW ls, NEW p, NEW vs,
         LabelsAt(ls, p), Arrived(ls, p, vs)
  PROVE  /\ p \in 1..Len(body) /\ p \in Nat /\ body[p] \in Instructions
         /\ hist[p] \in State /\ Ordered(hist[p])
         /\ hist[p + 1] \in State /\ Ordered(hist[p + 1])
         /\ hist[p].ctrls # <<>> /\ hist[p].ctrls \in Seq(Frame) /\ hist[p].vals \in Seq(Vals)
         /\ Len(ls) = Depth(p) /\ Len(ls) \in Nat \ {0} /\ Depth(p) = Len(hist[p].ctrls)
         /\ ls \in Seq(Labels)
         /\ Shape(hist[p], body[p], hist[p + 1])
         /\ body[p].op # "end" =>
              /\ Live(hist[p]) /\ vs = hist[p].vals
              /\ Steps(hist[p], body[p], hist[p + 1])
         /\ body[p].op = "end" => vs = Under(hist[p]) \o Inner(hist[p]).end_types
<1>1. p \in 1..Len(body) /\ p \in Nat /\ ls \in Seq(Labels)
  <2>1. p \in 1..Len(body) /\ ls \in Seq(Labels) /\ Len(body) \in Nat
    BY NowFacts DEF LabelsAt
  <2> QED BY <2>1
<1>2. /\ body[p] \in Instructions /\ hist[p] \in State /\ Ordered(hist[p])
      /\ hist[p + 1] \in State /\ Ordered(hist[p + 1])
      /\ Depth(p) \in Nat \ {0} /\ Depth(p) = Len(hist[p].ctrls)
      /\ Shape(hist[p], body[p], hist[p + 1])
      /\ Live(hist[p]) => Steps(hist[p], body[p], hist[p + 1])
  BY <1>1, BodyStep
<1>3. /\ hist[p].ctrls # <<>> /\ hist[p].ctrls \in Seq(Frame) /\ hist[p].vals \in Seq(Vals)
  BY <1>2, StateFacts
<1>5. /\ Len(ls) = Depth(p)
      /\ (Live(hist[p]) /\ vs = hist[p].vals)
         \/ (body[p].op = "end" /\ vs = Under(hist[p]) \o Inner(hist[p]).end_types)
  BY DEF Arrived
<1>6. body[p].op = "end" /\ Live(hist[p]) => hist[p].vals = Under(hist[p]) \o Inner(hist[p]).end_types
  BY <1>2 DEF Steps
<1> QED BY <1>1, <1>2, <1>3, <1>5, <1>6

\* The next instruction, where control stays in the same block.
LEMMA Onward ==
  ASSUME Inv, TraceInv, verdict = "accepted", NEW ls, NEW p, NEW vs,
         LabelsAt(ls, p), Arrived(ls, p, vs), body[p].op # "end",
         hist[p + 1].ctrls = hist[p].ctrls
  PROVE  LabelsAt(ls, p + 1) /\ Arrived(ls, p + 1, hist[p + 1].vals)
<1>1. /\ Live(hist[p]) /\ Len(ls) = Depth(p) /\ Len(ls) \in Nat \ {0}
      /\ hist[p].ctrls \in Seq(Frame) /\ Depth(p) = Len(hist[p].ctrls)
  BY Arrival
<1>2. LabelsAt(ls, p + 1)
  BY LabelsOn
<1>3. Live(hist[p + 1]) /\ Len(ls) = Depth(p + 1)
  BY <1>1 DEF Live, Depth
<1>4. \A j \in 1..(Len(ls) - 1) : ~hist[p + 1].ctrls[j].unreachable
  BY <1>1 DEF Live
<1>5. Arrived(ls, p + 1, hist[p + 1].vals)
  BY <1>3, <1>4 DEF Arrived
<1> QED BY <1>2, <1>5

(* Entering the body: one label, an empty stack, the validator's first     *)
(* state.                                                                  *)
LEMMA Began ==
  ASSUME Inv, TraceInv, Begin, UNCHANGED <<vvars, trace>>
  PROVE  MachineInv'
<1>1. /\ verdict = "accepted" /\ labels' = <<Label(Len(FuncResults), 0, 0, Len(body))>>
      /\ pc' = 1 /\ stack' = <<>> /\ branch' = -1 /\ outcome' = "running"
      /\ UNCHANGED <<body, vals, ctrls, trace>> /\ verdict' = "accepted"
  BY DEF Begin, vvars
<1> DEFINE ls == <<Label(Len(FuncResults), 0, 0, Len(body))>>
<1>2. /\ hist[1].vals = <<>> /\ hist[1].ctrls = <<ControlFrame("func", <<>>, FuncResults, 0)>>
  BY DEF TraceInv, Fresh
<1>3. Depth(1) = 1 /\ Len(body) \in Nat /\ Len(FuncResults) \in Nat
  BY <1>2, NowFacts, ValidatorAssumption DEF Depth
<1>4. 1 \in 1..Len(body)
  <2>1. 1 \in 1..(Len(body) + 1)
    BY <1>3
  <2> QED BY <1>1, <1>3, <2>1, Accepted
<1>5. Label(Len(FuncResults), 0, 0, Len(body)) \in Labels
  BY <1>3 DEF Label, Labels
<1>6. ls \in Seq(Labels) /\ Len(ls) = 1 /\ ls[1] = Label(Len(FuncResults), 0, 0, Len(body))
  BY <1>5
<1>7. LabelsAt(ls, 1)
  BY <1>4, <1>6 DEF LabelsAt
<1>8. Live(hist[1])
  BY <1>2 DEF Live, ControlFrame
<1>9. Arrived(ls, 1, <<>>)
  BY <1>2, <1>3, <1>6, <1>8 DEF Arrived
<1> HIDE DEF ls
<1> QED BY <1>1, <1>7, <1>9, Moved DEF ls

----------------------------------------------------------------------------
(* The machine's step, whatever instruction it is.                         *)
Going ==
  /\ Inv /\ TraceInv /\ MachineInv /\ outcome = "running"
  /\ UNCHANGED <<vvars, trace>>

(* What is known of the machine between two instructions. *)
LEMMA GoingFacts ==
  ASSUME Going
  PROVE  /\ Inv /\ TraceInv /\ verdict = "accepted" /\ verdict' = "accepted"
         /\ UNCHANGED <<body, vals, ctrls, trace>> /\ LabelsAt(labels, pc)
         /\ branch = -1 => Arrived(labels, pc, stack)
         /\ branch # -1 => Unwinding(labels, pc, stack, branch)
  BY DEF Going, MachineInv, Running, vvars

(* An instruction that pops and pushes leaves the stack the validator      *)
(* found.                                                                  *)
LEMMA PlainMoves == ASSUME Going, ExecPlain PROVE MachineInv'
<1>1. /\ Inv /\ TraceInv /\ verdict = "accepted" /\ verdict' = "accepted"
      /\ UNCHANGED <<body, vals, ctrls, trace>> /\ LabelsAt(labels, pc)
      /\ Arrived(labels, pc, stack) /\ ins = body[pc] /\ body[pc].op = "plain" /\ branch = -1
      /\ outcome = "running"
  BY GoingFacts DEF ExecPlain, Executes, ins
<1> DEFINE s == hist[pc] t == hist[pc + 1] n == Len(body[pc].type.params)
<1>2. /\ Live(s) /\ stack = s.vals /\ s.vals \in Seq(Vals)
      /\ n <= Len(s.vals) /\ t.ctrls = s.ctrls
      /\ t.vals = SubSeq(s.vals, 1, Len(s.vals) - n) \o body[pc].type.results
  <2>1. /\ Live(s) /\ stack = s.vals /\ s.vals \in Seq(Vals) /\ Steps(s, body[pc], t)
    BY <1>1, Arrival
  <2> QED BY <1>1, <2>1 DEF Steps
<1>3. n \in Nat
  <2>1. body[pc] \in Instructions
    BY <1>1, Arrival
  <2>2. body[pc].type.params \in Seq(ValTypes)
    BY <1>1, <2>1, InstrFacts
  <2> QED BY <2>2
<1>4. ~(Len(stack) < n)
  BY <1>2, <1>3
<1>5. /\ stack' = t.vals /\ pc' = pc + 1 /\ labels' = labels /\ branch' = -1
      /\ outcome' = "running"
  BY <1>1, <1>2, <1>4 DEF ExecPlain, Needs, Below, To
<1>6. LabelsAt(labels, pc + 1) /\ Arrived(labels, pc + 1, t.vals)
  BY <1>1, <1>2, Onward
<1> HIDE DEF s, t, n
<1> QED BY <1>1, <1>5, <1>6, Moved

(* So does drop. *)
LEMMA DropMoves == ASSUME Going, ExecDrop PROVE MachineInv'
<1>1. /\ Inv /\ TraceInv /\ verdict = "accepted" /\ verdict' = "accepted"
      /\ UNCHANGED <<body, vals, ctrls, trace>> /\ LabelsAt(labels, pc)
      /\ Arrived(labels, pc, stack) /\ ins = body[pc] /\ body[pc].op = "drop" /\ branch = -1
      /\ outcome = "running"
  BY GoingFacts DEF ExecDrop, Executes, ins
<1> DEFINE s == hist[pc] t == hist[pc + 1]
<1>2. /\ stack = s.vals /\ s.vals \in Seq(Vals)
      /\ 1 <= Len(s.vals) /\ t.ctrls = s.ctrls
      /\ t.vals = SubSeq(s.vals, 1, Len(s.vals) - 1)
  <2>1. /\ Live(s) /\ stack = s.vals /\ s.vals \in Seq(Vals) /\ Steps(s, body[pc], t)
    BY <1>1, Arrival
  <2> QED BY <1>1, <2>1 DEF Steps
<1>3. ~(Len(stack) < 1)
  BY <1>2
<1>4. /\ stack' = t.vals /\ pc' = pc + 1 /\ labels' = labels /\ branch' = -1
      /\ outcome' = "running"
  BY <1>1, <1>2, <1>3 DEF ExecDrop, Needs, Below, To
<1>5. LabelsAt(labels, pc + 1) /\ Arrived(labels, pc + 1, t.vals)
  BY <1>1, <1>2, Onward
<1> HIDE DEF s, t
<1> QED BY <1>1, <1>4, <1>5, Moved

\* The two values a select chooses from have the same type.
LEMMA SelectMoves == ASSUME Going, ExecSelect PROVE MachineInv'
<1>1. /\ Inv /\ TraceInv /\ verdict = "accepted" /\ verdict' = "accepted"
      /\ UNCHANGED <<body, vals, ctrls, trace>> /\ LabelsAt(labels, pc)
      /\ Arrived(labels, pc, stack) /\ ins = body[pc] /\ body[pc].op = "select" /\ branch = -1
      /\ outcome = "running"
  BY GoingFacts DEF ExecSelect, Executes, ins
<1> DEFINE s == hist[pc] t == hist[pc + 1] n == Len(s.vals)
<1>2. /\ stack = s.vals /\ s.vals \in Seq(Vals)
      /\ 3 <= n /\ t.ctrls = s.ctrls /\ s.vals[n - 2] = s.vals[n - 1]
      /\ t.vals = Append(SubSeq(s.vals, 1, n - 3), s.vals[n - 1])
  <2>1. /\ Live(s) /\ stack = s.vals /\ s.vals \in Seq(Vals) /\ Steps(s, body[pc], t)
    BY <1>1, Arrival
  <2> QED BY <1>1, <2>1 DEF Steps
<1>3. ~(Len(stack) < 3)
  BY <1>2
<1>4. PICK i \in {1, 2} : stack' = Append(Below(3), Top(3)[i]) /\ To(pc + 1) /\ UNCHANGED outcome
  BY <1>3 DEF ExecSelect, Needs
<1>5. Top(3)[i] = s.vals[n - 1]
  <2>1. n \in Nat /\ 3 \in 0..n
    BY <1>2
  <2>2. \A k \in 1..3 : SubSeq(s.vals, n - 3 + 1, n)[k] = s.vals[n - 3 + k]
    BY <1>2, <2>1, Suffix
  <2>3. Top(3) = SubSeq(s.vals, n - 3 + 1, n)
    BY <1>2 DEF Top
  <2>4. n - 3 + 1 = n - 2 /\ n - 3 + 2 = n - 1 /\ 1 \in 1..3 /\ 2 \in 1..3
    BY <2>1
  <2>5. Top(3)[1] = s.vals[n - 2] /\ Top(3)[2] = s.vals[n - 1]
    BY <2>2, <2>3, <2>4
  <2> QED BY <1>2, <2>5
<1>6. /\ stack' = t.vals /\ pc' = pc + 1 /\ labels' = labels /\ branch' = -1
      /\ outcome' = "running"
  BY <1>1, <1>2, <1>4, <1>5 DEF Below, To
<1>7. LabelsAt(labels, pc + 1) /\ Arrived(labels, pc + 1, t.vals)
  BY <1>1, <1>2, Onward
<1> HIDE DEF s, t, n
<1> QED BY <1>1, <1>6, <1>7, Moved

(* A trap ends the run. *)
LEMMA TrapMoves == ASSUME Going, ExecTrap PROVE MachineInv'
  BY DEF ExecTrap, MachineInv, Running, ReturnsAsTyped

(* return finds the function's results, and sets off for its label. *)
LEMMA ReturnMoves == ASSUME Going, ExecReturn PROVE MachineInv'
<1>1. /\ Inv /\ TraceInv /\ verdict = "accepted"
      /\ LabelsAt(labels, pc)
      /\ Arrived(labels, pc, stack) /\ body[pc].op = "return"
  BY GoingFacts DEF ExecReturn, Executes, ins
<1> DEFINE s == hist[pc]
<1>2. /\ s \in State /\ Ordered(s) /\ s.ctrls # <<>> /\ s.vals \in Seq(Vals)
      /\ stack = s.vals /\ Steps(s, body[pc], hist[pc + 1]) /\ s.ctrls \in Seq(Frame)
  BY <1>1, Arrival
<1>3. Takes(s, s.vals, Len(s.ctrls) - 1)
  BY <1>1, <1>2 DEF Steps
<1>4. Len(s.ctrls) - (Len(s.ctrls) - 1) = 1
  BY <1>2
<1>5. LTypes(s.ctrls[1]) = FuncResults
  BY <1>2, FuncFrame
<1>6. /\ Len(FuncResults) <= Len(stack)
      /\ SubSeq(stack, Len(stack) - Len(FuncResults) + 1, Len(stack)) = FuncResults
      /\ Len(stack) \in Nat
  <2>1. PICK e : e = Len(s.ctrls) - 1
    OBVIOUS
  <2>2. Takes(s, s.vals, e) /\ Len(s.ctrls) - e = 1
    BY <1>3, <1>4, <2>1
  <2> HIDE DEF s
  <2>3. /\ Len(FuncResults) <= Len(s.vals)
        /\ SubSeq(s.vals, Len(s.vals) - Len(FuncResults) + 1, Len(s.vals)) = FuncResults
    BY ONLY <1>5, <2>2 DEF Takes
  <2>4. stack = s.vals /\ Len(s.vals) \in Nat
    BY <1>2
  <2> QED BY <2>3, <2>4
<1> QED BY <1>6, Returned DEF ExecReturn

----------------------------------------------------------------------------
(* Branches.                                                               *)

\* The stack vs holds the target's operands: _do_br keeps those and what is
\* below its base.
LEMMA JumpMoves ==
  ASSUME Going, branch = -1, body[pc].op # "end",
         NEW d \in Nat, NEW vs, Jump(d, vs), outcome' = "running",
         NEW m \in 0..Len(hist[pc].vals), vs = SubSeq(hist[pc].vals, 1, m),
         Takes(hist[pc], vs, d)
  PROVE  MachineInv'
<1>1. /\ Inv /\ TraceInv /\ verdict = "accepted" /\ verdict' = "accepted"
      /\ UNCHANGED <<body, vals, ctrls, trace>> /\ LabelsAt(labels, pc)
      /\ Arrived(labels, pc, stack)
  BY GoingFacts
<1> DEFINE s == hist[pc] n == Len(labels) f == s.ctrls[n - d] l == labels[n - d]
<1>2. /\ s \in State /\ Ordered(s) /\ s.ctrls \in Seq(Frame) /\ s.vals \in Seq(Vals)
      /\ n \in Nat \ {0} /\ n = Len(s.ctrls) /\ Live(s)
  BY <1>1, Arrival
<1>3. /\ d < n /\ Inner(s).height <= Len(vs) /\ Len(LTypes(f)) <= Len(vs)
      /\ SubSeq(vs, Len(vs) - Len(LTypes(f)) + 1, Len(vs)) = LTypes(f)
  BY <1>2 DEF Takes
<1>4. n - d \in 1..n /\ d \in 0..(n - 1) /\ d # -1 /\ n \in 1..n
  BY <1>2, <1>3
<1>5. Labelled(l, f)
  BY <1>1, <1>4, Labelling
<1>6. l.base = f.height /\ l.arity = Len(LTypes(f))
  BY <1>5 DEF Labelled, LTypes
<1>7. f \in Frame /\ f.height <= Inner(s).height /\ f.height \in Nat
  <2>1. f \in Frame /\ n - d \in DOMAIN s.ctrls /\ n \in DOMAIN s.ctrls /\ n - d <= n
    BY <1>2, <1>4
  <2>2. f.height <= s.ctrls[n].height
    BY <1>2, <2>1 DEF Ordered
  <2> QED BY <1>2, <2>1, <2>2, FrameFacts DEF Inner
<1>8. /\ vs \in Seq(Vals) /\ Len(vs) = m /\ \A k \in 1..m : vs[k] = s.vals[k]
      /\ Len(s.vals) \in Nat /\ m \in Nat /\ m <= Len(s.vals)
  BY <1>2, SubSeqFacts
<1>9. Inner(s).height \in Nat
  <2>1. Inner(s) \in Frame
    BY <1>2, <1>4 DEF Inner
  <2> QED BY <2>1, FrameFacts
<1>10. f.height <= m /\ f.height <= Len(s.vals)
  BY <1>3, <1>7, <1>8, <1>9, SMTT(60)
<1>11. SubSeq(vs, 1, f.height) = SubSeq(s.vals, 1, f.height)
  <2>1. \A k \in 1..f.height : k \in 1..m
    BY <1>7, <1>8, <1>10
  <2>2. \A k \in 1..f.height : vs[k] = s.vals[k]
    BY <1>8, <2>1
  <2>3. /\ vs \in Seq(Vals) /\ s.vals \in Seq(Vals) /\ f.height \in Nat
        /\ f.height <= Len(vs) /\ f.height <= Len(s.vals)
    BY <1>2, <1>7, <1>8, <1>10
  <2> HIDE DEF s, f
  <2> QED BY ONLY <2>2, <2>3, SamePrefix
<1>12. /\ stack' = SubSeq(s.vals, 1, f.height) \o LTypes(f)
       /\ branch' = d /\ pc' = pc /\ labels' = labels
  BY <1>3, <1>6, <1>11 DEF Jump
<1>13. Unwinding(labels, pc, SubSeq(s.vals, 1, f.height) \o LTypes(f), d)
  BY <1>2, <1>4 DEF Unwinding
<1> HIDE DEF s, n, f, l
<1>14. PICK us : us = SubSeq(s.vals, 1, f.height) \o LTypes(f)
  OBVIOUS
<1>15. stack' = us /\ Unwinding(labels, pc, us, d)
  BY <1>12, <1>13, <1>14
<1> QED BY <1>1, <1>12, <1>15, MovedOut

(* br finds what its label takes, and sets off for it. *)
LEMMA BrMoves == ASSUME Going, ExecBr PROVE MachineInv'
<1>1. /\ Inv /\ TraceInv /\ verdict = "accepted" /\ LabelsAt(labels, pc)
      /\ Arrived(labels, pc, stack) /\ ins = body[pc] /\ body[pc].op = "br" /\ branch = -1
      /\ outcome = "running"
  BY GoingFacts DEF ExecBr, Executes, ins
<1> DEFINE s == hist[pc]
<1>2. /\ s.vals \in Seq(Vals) /\ stack = s.vals /\ body[pc] \in Instructions
      /\ Steps(s, body[pc], hist[pc + 1])
  BY <1>1, Arrival
<1>3. Takes(s, s.vals, body[pc].label) /\ body[pc].label \in Nat
  BY <1>1, <1>2, InstrFacts DEF Steps
<1>4. ~(Len(stack) < 0)
  BY <1>2
<1>5. Jump(body[pc].label, s.vals) /\ outcome' = "running"
  BY <1>1, <1>2, <1>4 DEF ExecBr, Needs
<1>6. Len(s.vals) \in 0..Len(s.vals) /\ s.vals = SubSeq(s.vals, 1, Len(s.vals))
  BY <1>2
<1> HIDE DEF s
<1> QED BY <1>1, <1>3, <1>5, <1>6, JumpMoves DEF s

(* br_if does one or the other, as its condition says. *)
LEMMA BrIfMoves == ASSUME Going, ExecBrIf PROVE MachineInv'
<1>1. /\ Inv /\ TraceInv /\ verdict = "accepted" /\ verdict' = "accepted"
      /\ UNCHANGED <<body, vals, ctrls, trace>> /\ LabelsAt(labels, pc)
      /\ Arrived(labels, pc, stack) /\ ins = body[pc] /\ body[pc].op = "br_if" /\ branch = -1
      /\ outcome = "running"
  BY GoingFacts DEF ExecBrIf, Executes, ins
<1> DEFINE s == hist[pc] t == hist[pc + 1] w == SubSeq(s.vals, 1, Len(s.vals) - 1)
<1>2. /\ s.vals \in Seq(Vals) /\ stack = s.vals /\ body[pc] \in Instructions
      /\ Steps(s, body[pc], t)
  BY <1>1, Arrival
<1>3. /\ 1 <= Len(s.vals) /\ Takes(s, w, body[pc].label) /\ t.ctrls = s.ctrls /\ t.vals = w
      /\ body[pc].label \in Nat
  BY <1>1, <1>2, InstrFacts DEF Steps
<1>4. ~(Len(stack) < 1) /\ Below(1) = w /\ Len(s.vals) - 1 \in 0..Len(s.vals)
  BY <1>2, <1>3 DEF Below
<1>5. CASE Jump(body[pc].label, w) /\ outcome' = "running"
  <2> HIDE DEF s, w
  <2> QED BY <1>1, <1>3, <1>4, <1>5, JumpMoves DEF s, w
<1>6. CASE stack' = w /\ To(pc + 1) /\ outcome' = "running"
  <2>1. /\ stack' = t.vals /\ pc' = pc + 1 /\ labels' = labels /\ branch' = -1
    BY <1>1, <1>3, <1>6 DEF To
  <2>2. LabelsAt(labels, pc + 1) /\ Arrived(labels, pc + 1, t.vals)
    BY <1>1, <1>3, Onward
  <2> HIDE DEF s, t, w
  <2> QED BY <1>1, <1>6, <2>1, <2>2, Moved
<1>7. \/ Jump(body[pc].label, w) /\ outcome' = "running"
      \/ stack' = w /\ To(pc + 1) /\ outcome' = "running"
  BY <1>1, <1>4 DEF ExecBrIf, Needs
<1> QED BY <1>5, <1>6, <1>7

(* br_table sets off for the label its operand selects. *)
LEMMA BrTableMoves == ASSUME Going, ExecBrTable PROVE MachineInv'
<1>1. /\ Inv /\ TraceInv /\ verdict = "accepted" /\ LabelsAt(labels, pc)
      /\ Arrived(labels, pc, stack) /\ ins = body[pc] /\ body[pc].op = "br_table" /\ branch = -1
      /\ outcome = "running"
  BY GoingFacts DEF ExecBrTable, Executes, ins
<1> DEFINE s == hist[pc] w == SubSeq(s.vals, 1, Len(s.vals) - 1)
           all == Append(body[pc].targets, body[pc].default)
<1>2. /\ s.vals \in Seq(Vals) /\ stack = s.vals /\ body[pc] \in Instructions
      /\ Steps(s, body[pc], hist[pc + 1])
  BY <1>1, Arrival
<1>3. 1 <= Len(s.vals) /\ \A k \in DOMAIN all : Takes(s, w, all[k])
  BY <1>1, <1>2 DEF Steps
<1>4. ~(Len(stack) < 1) /\ Below(1) = w /\ Len(s.vals) - 1 \in 0..Len(s.vals)
  BY <1>2, <1>3 DEF Below
<1>5. PICK i \in 1..(Len(body[pc].targets) + 1) : Jump(all[i], w) /\ outcome' = "running"
  BY <1>1, <1>4 DEF ExecBrTable, Needs
<1>6. all[i] \in Nat /\ Takes(s, w, all[i])
  <2>1. /\ all \in Seq(Nat) /\ DOMAIN all = 1..(Len(body[pc].targets) + 1)
    BY <1>1, <1>2, TableFacts
  <2>2. i \in DOMAIN all
    BY <2>1
  <2> HIDE DEF all
  <2> QED BY <1>3, <2>1, <2>2
<1>7. PICK d \in Nat : d = all[i]
  BY <1>6
<1> HIDE DEF s, w, all
<1> QED BY <1>1, <1>4, <1>5, <1>6, <1>7, JumpMoves DEF s, w

----------------------------------------------------------------------------
(* Blocks.                                                                 *)

(* What two states inside one block have in common.                        *)
SameAcross(o, p, q) ==
  LET j == Depth(o) + 1
  IN  /\ hist[q].ctrls[j].height = hist[p].ctrls[j].height
      /\ hist[q].ctrls[j].start_types = hist[p].ctrls[j].start_types
      /\ hist[q].ctrls[j].end_types = hist[p].ctrls[j].end_types
      /\ \A k \in 1..Depth(o) : hist[q].ctrls[k] = hist[p].ctrls[k]
      /\ SubSeq(hist[q].vals, 1, hist[q].ctrls[j].height)
           = SubSeq(hist[p].vals, 1, hist[p].ctrls[j].height)

(* Any two states inside one block have it in common. *)
LEMMA AcrossAll ==
  ASSUME Inv, TraceInv, verdict = "accepted"
  PROVE  \A o \in 1..Len(body) : body[o].op \in Openers =>
           \A p, q \in (o + 1)..EndOf(o) : SameAcross(o, p, q)
<1> SUFFICES ASSUME NEW o \in 1..Len(body), body[o].op \in Openers,
                    NEW p \in (o + 1)..EndOf(o), NEW q \in (o + 1)..EndOf(o)
             PROVE  SameAcross(o, p, q)
  OBVIOUS
<1>0. PICK j : j = Depth(o) + 1
  OBVIOUS
<1>1. /\ SameBlock(hist[o + 1], hist[p], j) /\ SameBlock(hist[o + 1], hist[q], j)
      /\ \A k \in 1..Depth(o) : hist[p].ctrls[k] = hist[o].ctrls[k]
      /\ \A k \in 1..Depth(o) : hist[q].ctrls[k] = hist[o].ctrls[k]
      /\ j \in 1..Len(hist[p].ctrls) /\ j \in 1..Len(hist[q].ctrls)
      /\ hist[p] \in State /\ hist[q] \in State /\ Ordered(hist[p]) /\ Ordered(hist[q])
  BY <1>0, InsideFacts
<1> DEFINE h == hist[p].ctrls[j].height
<1>2. /\ hist[q].ctrls[j].height = h
      /\ hist[q].ctrls[j].start_types = hist[p].ctrls[j].start_types
      /\ hist[q].ctrls[j].end_types = hist[p].ctrls[j].end_types
      /\ \A k \in 1..h : hist[q].vals[k] = hist[p].vals[k]
  BY <1>1, ZenonT(60) DEF SameBlock
<1>3. h <= Len(hist[p].vals) /\ h <= Len(hist[q].vals)
  BY <1>1, <1>2, SMTT(60) DEF Ordered
<1>4. /\ hist[p].vals \in Seq(Vals) /\ hist[q].vals \in Seq(Vals)
      /\ hist[p].ctrls[j] \in Frame
  BY <1>1, StateFacts, SMTT(60)
<1>5. h \in Nat
  BY <1>4, FrameFacts
<1> HIDE DEF h
<1>6. SubSeq(hist[q].vals, 1, h) = SubSeq(hist[p].vals, 1, h)
  BY ONLY <1>2, <1>3, <1>4, <1>5, SamePrefix
<1> QED BY <1>0, <1>1, <1>2, <1>6 DEF h, SameAcross

\* Two places in one block.
LEMMA Across ==
  ASSUME Inv, TraceInv, verdict = "accepted",
         NEW o \in 1..Len(body), body[o].op \in Openers,
         NEW p \in (o + 1)..EndOf(o), NEW q \in (o + 1)..EndOf(o),
         NEW j, j = Depth(o) + 1
  PROVE  /\ hist[q].ctrls[j].height = hist[p].ctrls[j].height
         /\ hist[q].ctrls[j].start_types = hist[p].ctrls[j].start_types
         /\ hist[q].ctrls[j].end_types = hist[p].ctrls[j].end_types
         /\ \A k \in 1..Depth(o) : hist[q].ctrls[k] = hist[p].ctrls[k]
         /\ SubSeq(hist[q].vals, 1, hist[q].ctrls[j].height)
              = SubSeq(hist[p].vals, 1, hist[p].ctrls[j].height)
<1>1. SameAcross(o, p, q)
  BY AcrossAll
<1> QED BY ONLY <1>1, j = Depth(o) + 1 DEF SameAcross

\* The stacks when a block was opened.
LEMMA Entered ==
  ASSUME Inv, TraceInv, NEW o \in 1..Len(body), body[o].op \in Openers,
         NEW j, j = Depth(o) + 1
  PROVE  LET t == hist[o + 1] f == t.ctrls[j]
         IN  /\ f.opcode = body[o].op /\ f.start_types = body[o].type.params
             /\ f.end_types = body[o].type.results /\ ~f.unreachable
             /\ f.height = Len(t.vals) - Len(body[o].type.params)
             /\ t.vals = SubSeq(t.vals, 1, f.height) \o f.start_types
             /\ \A k \in 1..Depth(o) : t.ctrls[k] = hist[o].ctrls[k]
             /\ Depth(o + 1) = j /\ Len(t.ctrls) = j /\ Depth(o) \in Nat \ {0}
<1>0. PICK t, f : t = hist[o + 1] /\ f = t.ctrls[j]
  OBVIOUS
<1>1. /\ Depth(o) \in Nat \ {0} /\ Depth(o) = Len(hist[o].ctrls)
      /\ Shape(hist[o], body[o], t) /\ Depth(o + 1) = Len(t.ctrls)
  BY <1>0, BodyStep
<1>2. Opens(hist[o], body[o], t) /\ Keeps(hist[o], t)
  BY <1>1 DEF Shape
<1> DEFINE h == Len(t.vals) - Len(body[o].type.params)
<1>3. /\ Len(t.ctrls) = j /\ t.ctrls[Depth(o)] = hist[o].ctrls[Depth(o)]
      /\ f = ControlFrame(body[o].op, body[o].type.params, body[o].type.results, h)
      /\ t.vals = SubSeq(t.vals, 1, h) \o body[o].type.params
  BY <1>0, <1>1, <1>2 DEF Opens, Inner
<1>4. \A k \in 1..(Depth(o) - 1) : t.ctrls[k] = hist[o].ctrls[k]
  BY <1>1, <1>2 DEF Keeps
<1>5. \A k \in 1..Depth(o) : k = Depth(o) \/ k \in 1..(Depth(o) - 1)
  BY <1>1
<1> HIDE DEF h
<1>6. /\ f.opcode = body[o].op /\ f.start_types = body[o].type.params
      /\ f.end_types = body[o].type.results /\ ~f.unreachable /\ f.height = h
  BY <1>3 DEF ControlFrame
<1>7. \A k \in 1..Depth(o) : t.ctrls[k] = hist[o].ctrls[k]
  BY <1>3, <1>4, <1>5
<1>8. /\ f.height = Len(t.vals) - Len(body[o].type.params)
      /\ t.vals = SubSeq(t.vals, 1, f.height) \o f.start_types
  BY <1>3, <1>6 DEF h
<1> QED BY <1>0, <1>1, <1>3, <1>6, <1>7, <1>8

\* The stacks at a block's end, and after it.
LEMMA AtEnd ==
  ASSUME Inv, TraceInv, verdict = "accepted",
         NEW o \in 1..Len(body), body[o].op \in Openers,
         NEW p \in (o + 1)..EndOf(o), NEW j, j = Depth(o) + 1
  PROVE  LET e == EndOf(o) f == hist[p].ctrls[j]
         IN  /\ Under(hist[e]) = SubSeq(hist[p].vals, 1, f.height)
             /\ Inner(hist[e]).end_types = f.end_types
             /\ Inner(hist[e]).start_types = f.start_types
             /\ Inner(hist[e]) = hist[e].ctrls[j]
             /\ \A k \in 1..Depth(o) : hist[e].ctrls[k] = hist[p].ctrls[k]
             /\ Depth(e) = j /\ Depth(e + 1) = Depth(o)
             /\ e \in 1..Len(body) /\ e + 1 \in 1..Len(body) /\ body[e].op = "end"
             /\ Len(hist[e + 1].ctrls) = Depth(o)
             /\ Inner(hist[e]).opcode = "if" => f.start_types = f.end_types
<1> DEFINE f == hist[p].ctrls[j]
<1>0. PICK e : e = EndOf(o)
  OBVIOUS
<1>1. /\ e \in (o + 1)..Len(body) /\ e \in 1..Len(body) /\ body[e].op = "end"
      /\ Depth(e + 1) = Depth(o) /\ Depth(e) = Depth(o) + 1
      /\ Len(body) \in Nat /\ Depth(o) \in Nat \ {0}
  BY <1>0, EndFacts, NowFacts, BodyStep
<1>2. e \in (o + 1)..EndOf(o)
  BY <1>0, <1>1
<1>3. /\ hist[e].ctrls[j].height = f.height
      /\ hist[e].ctrls[j].start_types = f.start_types
      /\ hist[e].ctrls[j].end_types = f.end_types
      /\ \A k \in 1..Depth(o) : hist[e].ctrls[k] = hist[p].ctrls[k]
      /\ SubSeq(hist[e].vals, 1, hist[e].ctrls[j].height) = SubSeq(hist[p].vals, 1, f.height)
  <2>1. /\ hist[e].ctrls[j].height = hist[p].ctrls[j].height
        /\ hist[e].ctrls[j].start_types = hist[p].ctrls[j].start_types
        /\ hist[e].ctrls[j].end_types = hist[p].ctrls[j].end_types
        /\ \A k \in 1..Depth(o) : hist[e].ctrls[k] = hist[p].ctrls[k]
        /\ SubSeq(hist[e].vals, 1, hist[e].ctrls[j].height)
             = SubSeq(hist[p].vals, 1, hist[p].ctrls[j].height)
    <3>1. /\ Inv /\ TraceInv /\ verdict = "accepted" /\ o \in 1..Len(body)
          /\ body[o].op \in Openers /\ j = Depth(o) + 1 /\ p \in (o + 1)..EndOf(o)
      OBVIOUS
    <3>2. PICK x \in (o + 1)..EndOf(o) : x = e
      BY <1>2
    <3>3. /\ hist[x].ctrls[j].height = hist[p].ctrls[j].height
          /\ hist[x].ctrls[j].start_types = hist[p].ctrls[j].start_types
          /\ hist[x].ctrls[j].end_types = hist[p].ctrls[j].end_types
          /\ \A k \in 1..Depth(o) : hist[x].ctrls[k] = hist[p].ctrls[k]
          /\ SubSeq(hist[x].vals, 1, hist[x].ctrls[j].height)
               = SubSeq(hist[p].vals, 1, hist[p].ctrls[j].height)
      <4>1. SameAcross(o, p, x)
        BY ONLY <3>1, x \in (o + 1)..EndOf(o), AcrossAll
      <4> QED BY ONLY <3>1, <4>1 DEF SameAcross
    <3> QED BY <3>2, <3>3
  <2> QED BY <2>1
<1>4. /\ Shape(hist[e], body[e], hist[e + 1]) /\ Len(hist[e].ctrls) = j
      /\ Len(hist[e + 1].ctrls) = Depth(o)
  BY <1>1, BodyStep
<1>5. Inner(hist[e]) = hist[e].ctrls[j]
  BY <1>4 DEF Inner
<1>6. Under(hist[e]) = SubSeq(hist[p].vals, 1, f.height)
  BY <1>3, <1>5 DEF Under
<1>7. Ends(hist[e], hist[e + 1])
  BY <1>1, <1>4 DEF Shape
<1>8. Inner(hist[e]).opcode = "if" => Inner(hist[e]).start_types = Inner(hist[e]).end_types
  BY <1>7 DEF Ends
<1>10. e + 1 \in 1..Len(body)
  <2>1. e + 1 \in 1..(Len(body) + 1) /\ Depth(e + 1) # 0
    BY <1>1
  <2> QED BY <2>1, Accepted
<1> HIDE DEF f
<1> QED BY <1>0, <1>1, <1>3, <1>4, <1>5, <1>6, <1>8, <1>10 DEF f

(* After a block's end the stack is the one below it with the block's      *)
(* results, wherever in the block it was left.                             *)
LEMMA PastEnd ==
  ASSUME Inv, TraceInv, verdict = "accepted",
         NEW o \in 1..Len(body), body[o].op \in Openers,
         NEW p \in (o + 1)..EndOf(o), NEW j, j = Depth(o) + 1
  PROVE  /\ hist[EndOf(o) + 1].vals =
              SubSeq(hist[p].vals, 1, hist[p].ctrls[j].height) \o hist[p].ctrls[j].end_types
         /\ \A k \in 1..Depth(o) : hist[EndOf(o) + 1].ctrls[k] = hist[p].ctrls[k]
<1>0. PICK e : e = EndOf(o)
  OBVIOUS
<1>1. /\ Under(hist[e]) = SubSeq(hist[p].vals, 1, hist[p].ctrls[j].height)
      /\ Inner(hist[e]).end_types = hist[p].ctrls[j].end_types
  BY <1>0, AtEnd
<1>2. \A k \in 1..Depth(o) : hist[e].ctrls[k] = hist[p].ctrls[k]
  BY <1>0, AtEnd
<1>3. e \in 1..Len(body) /\ body[e].op = "end" /\ Depth(e) = j
  BY <1>0, EndFacts
<1>4. /\ Shape(hist[e], body[e], hist[e + 1]) /\ Depth(e) = Len(hist[e].ctrls)
      /\ Depth(o) \in Nat
  BY <1>3, BodyStep
<1>5. Ends(hist[e], hist[e + 1]) /\ Keeps(hist[e], hist[e + 1])
  BY <1>3, <1>4 DEF Shape
<1>6. hist[e + 1].vals = Under(hist[e]) \o Inner(hist[e]).end_types
  BY <1>5 DEF Ends
<1>7. \A k \in 1..Depth(o) : hist[e + 1].ctrls[k] = hist[e].ctrls[k]
  <2>1. j = Depth(o) + 1 /\ Len(hist[e].ctrls) = j /\ Depth(o) \in Nat
    BY <1>3, <1>4
  <2>2. Len(hist[e].ctrls) - 1 = Depth(o)
    BY ONLY <2>1
  <2> QED BY <1>5, <2>2 DEF Keeps
<1> QED BY <1>0, <1>1, <1>2, <1>6, <1>7

\* ElseOf finds the block's else, or 0 where there is none.
LEMMA ElseFacts ==
  ASSUME Inv, TraceInv, verdict = "accepted",
         NEW o \in 1..Len(body), body[o].op \in Openers
  PROVE  /\ ElseOf(o) = 0 =>
              ~\E q \in (o + 1)..EndOf(o) : body[q].op = "else" /\ Depth(q + 1) = Depth(o) + 1
         /\ ElseOf(o) # 0 =>
              /\ ElseOf(o) \in (o + 1)..EndOf(o) /\ body[ElseOf(o)].op = "else"
              /\ Depth(ElseOf(o) + 1) = Depth(o) + 1
<1>1. /\ Len(body) \in Nat /\ o \in Nat /\ o >= 1 /\ Depth(o) \in Nat
      /\ EndOf(o) \in (o + 1)..Len(body)
  BY NowFacts, BodyStep, EndFacts
<1> DEFINE P(q) == body[q].op = "else" /\ OpenIn(o, q) = 1
           elses == {q \in o..EndOf(o) : P(q)}
<1>2. ElseOf(o) = IF elses = {} THEN 0 ELSE CHOOSE q \in elses : TRUE
  BY DEF ElseOf
<1>3. ASSUME NEW q \in o..EndOf(o)
      PROVE  P(q) <=> body[q].op = "else" /\ Depth(q + 1) = Depth(o) + 1
  <2>1. q \in 1..Len(body) /\ q \in (o - 1)..Len(body) /\ o \in 1..(Len(body) + 1)
    BY <1>1
  <2>2. OpenIn(o, q) = Depth(q + 1) - Depth(o)
    BY <2>1 DEF TraceInv, Counted
  <2>3. Depth(q + 1) \in Nat
    BY <2>1, BodyStep
  <2> QED BY <1>1, <2>2, <2>3
<1>4. \A q \in (o + 1)..EndOf(o) : q \in o..EndOf(o)
  BY <1>1
<1>5. \A q \in elses : q \in (o + 1)..EndOf(o) /\ q # 0
  <2> SUFFICES ASSUME NEW q \in elses PROVE q \in (o + 1)..EndOf(o) /\ q # 0
    OBVIOUS
  <2>1. q \in o..EndOf(o) /\ body[q].op = "else"
    OBVIOUS
  <2>2. q # o
    BY <2>1 DEF Openers
  <2> QED BY <1>1, <2>1, <2>2
<1>6. elses # {} => ElseOf(o) \in elses
  BY <1>2
<1>7. \A q \in elses : q \in o..EndOf(o) /\ P(q)
  OBVIOUS
<1>8. \A q \in o..EndOf(o) : P(q) => q \in elses
  OBVIOUS
<1> HIDE DEF elses, P
<1>9. CASE elses = {}
  BY <1>2, <1>3, <1>4, <1>8, <1>9
<1>10. CASE elses # {}
  BY <1>3, <1>5, <1>6, <1>7, <1>10
<1> QED BY <1>9, <1>10

\* The labels in the block opened at o.
LEMMA LabelsIn ==
  ASSUME Inv, TraceInv, verdict = "accepted", NEW ls, NEW o, LabelsAt(ls, o),
         body[o].op \in Openers, Len(ls) = Depth(o), NEW q \in (o + 1)..EndOf(o)
  PROVE  /\ LabelsAt(Append(ls, BlockLabel(o)), q)
         /\ Len(Append(ls, BlockLabel(o))) = Depth(o) + 1
<1>1. /\ o \in 1..Len(body) /\ ls \in Seq(Labels) /\ Len(ls) \in Nat /\ Len(ls) \in 1..Len(ls)
  BY DEF LabelsAt
<1>2. /\ EndOf(o) \in (o + 1)..Len(body) /\ Len(body) \in Nat /\ o \in Nat
      /\ Depth(o) \in Nat
  BY <1>1, EndFacts, NowFacts, BodyStep
<1>3. q \in 1..Len(body) /\ q \in Nat
  BY <1>1, <1>2
<1>4. LabelsAt(ls, o + 1)
  BY LabelsOn DEF Openers
<1>5. ASSUME NEW i \in 2..Len(ls), NEW a \in 1..Len(body), Opened(ls, i, a, o)
      PROVE  a < q /\ q <= EndOf(a)
  <2>1. Opened(ls, i, a, o + 1)
    <3>1. /\ a \in 1..Len(body) /\ body[a].op \in Openers /\ Depth(a) = i - 1
          /\ a < o /\ o <= EndOf(a) /\ ls[i] = BlockLabel(a)
      BY <1>5 DEF Opened
    <3>2. EndOf(a) \in (a + 1)..Len(body) /\ body[EndOf(a)].op = "end" /\ a \in Nat
      BY <3>1, EndFacts
    <3>3. o # EndOf(a)
      BY <3>2 DEF Openers
    <3>4. a < o + 1 /\ o + 1 <= EndOf(a)
      BY <1>2, <3>1, <3>2, <3>3
    <3> QED BY <3>1, <3>4 DEF Opened
  <2>2. /\ body[a].op \in Openers /\ a \in Nat /\ a < o + 1 /\ o + 1 <= EndOf(a)
        /\ EndOf(a) \in (a + 1)..Len(body) /\ Depth(a) = i - 1
    BY <2>1, EndFacts DEF Opened
  <2>3. Depth(a) < Depth(o) /\ o + 1 \in Nat /\ o < o + 1 /\ o + 1 <= EndOf(o)
    BY <1>1, <1>2, <2>2
  <2>4. a < o /\ EndOf(o) < EndOf(a)
    BY <1>1, <2>2, <2>3, Nesting
  <2> QED BY <1>2, <1>3, <2>2, <2>4
<1>6. LabelsAt(ls, q)
  BY <1>1, <1>3, <1>5, LabelsMove
<1>7. o < q /\ q <= EndOf(o)
  BY <1>2
<1>8. LabelsAt(Append(ls, BlockLabel(o)), q)
  BY <1>1, <1>6, <1>7, LabelsPush
<1>9. BlockLabel(o) \in Labels
  BY <1>1, BlockLabelFacts
<1> QED BY <1>1, <1>8, <1>9, AppendAt

(* The end of an if's first branch goes on behind the else branch, with    *)
(* the block's results.                                                    *)
LEMMA ElseMoves == ASSUME Going, ExecElse PROVE MachineInv'
<1>1. /\ Inv /\ TraceInv /\ verdict = "accepted" /\ verdict' = "accepted"
      /\ UNCHANGED <<body, vals, ctrls, trace>> /\ LabelsAt(labels, pc)
      /\ Arrived(labels, pc, stack) /\ body[pc].op = "else" /\ branch = -1
      /\ outcome = "running"
  BY GoingFacts DEF ExecElse, Executes, ins
<1> DEFINE s == hist[pc] n == Len(labels)
<1>2. /\ s \in State /\ Ordered(s) /\ s.ctrls # <<>> /\ n \in Nat \ {0} /\ n = Len(s.ctrls)
      /\ stack = s.vals /\ Live(s) /\ Steps(s, body[pc], hist[pc + 1])
      /\ Shape(s, body[pc], hist[pc + 1]) /\ s.ctrls \in Seq(Frame)
  BY <1>1, Arrival
<1>3. /\ stack = Under(s) \o Inner(s).end_types /\ Inner(s).opcode = "if"
      /\ Inner(s) = s.ctrls[n]
  BY <1>1, <1>2 DEF Steps, Shape, Elses, Inner
<1>4. n # 1
  BY <1>2, <1>3, FuncFrame
<1>5. n \in 2..Len(labels)
  <2>1. Len(labels) \in Nat \ {0} /\ Len(labels) # 1
    BY <1>2, <1>4
  <2> QED BY ONLY <2>1
<1>6. PICK o \in 1..Len(body) : Opened(labels, n, o, pc)
  BY <1>1, <1>5 DEF LabelsAt
<1>7. /\ body[o].op \in Openers /\ pc \in (o + 1)..EndOf(o) /\ n = Depth(o) + 1
      /\ labels[n].after = EndOf(o) /\ EndOf(o) \in (o + 1)..Len(body) /\ o \in Nat
      /\ pc \in Nat
  BY <1>1, <1>5, <1>6, OpenedFacts
<1> DEFINE e == EndOf(o)
<1>8. /\ Under(hist[e]) = SubSeq(s.vals, 1, s.ctrls[n].height)
      /\ Inner(hist[e]).end_types = s.ctrls[n].end_types
      /\ \A k \in 1..Depth(o) : hist[e].ctrls[k] = s.ctrls[k]
      /\ Depth(e) = n /\ e \in 1..Len(body) /\ body[e].op = "end" /\ Depth(o) \in Nat
  <2>1. Depth(o) \in Nat
    BY BodyStep, <1>1
  <2> QED BY <1>1, <1>7, <2>1, AtEnd
<1>9. stack = Under(hist[e]) \o Inner(hist[e]).end_types
  BY <1>3, <1>8 DEF Under
<1>10. \A j \in 1..(n - 1) : ~hist[e].ctrls[j].unreachable
  <2>a. n \in Nat \ {0} /\ Depth(o) = n - 1 /\ DOMAIN s.ctrls = 1..n
    <3>1. n \in Nat \ {0} /\ DOMAIN s.ctrls = 1..n
      BY <1>2
    <3>2. n = Depth(o) + 1 /\ Depth(o) \in Nat
      BY <1>7, <1>8
    <3> HIDE DEF s, n
    <3> QED BY ONLY <3>1, <3>2
  <2>1. \A j \in 1..(n - 1) : j \in 1..Depth(o) /\ j \in DOMAIN s.ctrls
    <3> HIDE DEF s, n
    <3> QED BY ONLY <2>a
  <2> QED BY <1>2, <1>8, <2>1 DEF Live
<1>11. Arrived(labels, e, stack)
  BY <1>8, <1>9, <1>10 DEF Arrived
<1>12. ASSUME NEW i \in 2..n, NEW a \in 1..Len(body), Opened(labels, i, a, pc)
       PROVE  a < e /\ e <= EndOf(a)
  <2>1. /\ a \in Nat /\ EndOf(a) \in (a + 1)..Len(body) /\ i = Depth(a) + 1
        /\ labels[i].after = EndOf(a)
    BY <1>1, <1>12, OpenedFacts
  <2>2. CASE i = n
    BY <1>7, <2>1, <2>2
  <2>3. CASE i # n
    <3>1. i \in 2..(n - 1)
      BY <1>2, <2>3
    <3>2. a < o /\ EndOf(o) < EndOf(a)
      BY <1>1, <1>5, <1>6, <1>12, <3>1, AroundFacts
    <3> QED BY <1>7, <2>1, <3>2
  <2> QED BY <2>2, <2>3
<1>13. LabelsAt(labels, e)
  <2>1. labels \in Seq(Labels) /\ n \in 1..Len(labels)
    BY <1>1, <1>2 DEF LabelsAt
  <2> QED BY <1>1, <1>8, <1>12, <2>1, LabelsMove
<1>14. /\ pc' = e /\ stack' = stack /\ labels' = labels /\ branch' = -1
       /\ outcome' = "running"
  BY <1>1, <1>7 DEF ExecElse
<1> HIDE DEF s, n, e
<1> QED BY <1>1, <1>11, <1>13, <1>14, Moved

\* Out of the innermost block.
LEMMA LabelsOut ==
  ASSUME Inv, TraceInv, verdict = "accepted", NEW ls, NEW p, LabelsAt(ls, p),
         NEW n, n = Len(ls), n # 1, NEW q \in 1..Len(body),
         \A i \in 2..(n - 1) : \A a \in 1..Len(body) :
           Opened(ls, i, a, p) => a < q /\ q <= EndOf(a)
  PROVE  LabelsAt(SubSeq(ls, 1, n - 1), q) /\ Len(SubSeq(ls, 1, n - 1)) = n - 1
<1>1. ls \in Seq(Labels) /\ n \in Nat /\ n > 1
  BY DEF LabelsAt
<1>2. n - 1 \in 0..Len(ls) /\ n - 1 \in 1..Len(ls)
  BY <1>1
<1>3. /\ SubSeq(ls, 1, n - 1) \in Seq(Labels) /\ Len(SubSeq(ls, 1, n - 1)) = n - 1
      /\ \A i \in 1..(n - 1) : SubSeq(ls, 1, n - 1)[i] = ls[i]
  BY <1>1, <1>2, Popping
<1> DEFINE ks == SubSeq(ls, 1, n - 1)
<1> HIDE DEF ks
<1>4. LabelsAt(ks, q)
  BY <1>2, <1>3, LabelsMove DEF ks
<1> QED BY <1>3, <1>4 DEF ks

(* The end of a block goes on behind it, with the block's results; that of *)
(* the body returns.                                                       *)
LEMMA EndMoves == ASSUME Going, ExecEnd PROVE MachineInv'
<1>1. /\ Inv /\ TraceInv /\ verdict = "accepted" /\ verdict' = "accepted"
      /\ UNCHANGED <<body, vals, ctrls, trace>> /\ LabelsAt(labels, pc)
      /\ Arrived(labels, pc, stack) /\ body[pc].op = "end" /\ branch = -1
      /\ outcome = "running" /\ UNCHANGED <<stack, branch>>
  BY GoingFacts DEF ExecEnd, Executes, ins
<1> DEFINE s == hist[pc] t == hist[pc + 1] n == Len(labels)
<1>2. /\ s \in State /\ Ordered(s) /\ s.ctrls # <<>> /\ n \in Nat \ {0} /\ n = Len(s.ctrls)
      /\ stack = Under(s) \o Inner(s).end_types /\ Shape(s, body[pc], t)
      /\ pc \in 1..Len(body) /\ pc \in Nat /\ s.ctrls \in Seq(Frame) /\ t \in State
  BY <1>1, Arrival
<1>3. Inner(s) = s.ctrls[n]
  BY <1>2 DEF Inner
<1>4. CASE n = 1
  <2>1. Returns
    BY <1>4 DEF ExecEnd, Outermost
  <2>2. Inner(s).end_types = FuncResults
    BY <1>2, <1>3, <1>4, FuncFrame
  <2>3. Under(s) \in Seq(Vals) /\ FuncResults \in Seq(Vals)
    BY <1>2, InnerFacts, ValidatorAssumption DEF Vals
  <2>4. /\ Len(FuncResults) <= Len(stack) /\ Len(stack) \in Nat
        /\ SubSeq(stack, Len(stack) - Len(FuncResults) + 1, Len(stack)) = FuncResults
    BY <1>2, <2>2, <2>3, TopIs
  <2> QED BY <1>1, <2>1, <2>4, Returned
<1>5. CASE n # 1
  <2>1. labels' = SubSeq(labels, 1, n - 1) /\ pc' = pc + 1 /\ outcome' = "running"
    BY <1>1, <1>5 DEF ExecEnd, Outermost
  <2>2. Ends(s, t) /\ Keeps(s, t)
    BY <1>1, <1>2 DEF Shape
  <2>3. stack = t.vals /\ Len(t.ctrls) = n - 1
    BY <1>2, <2>2 DEF Ends
  <2>4. \A j \in 1..(n - 1) : t.ctrls[j] = s.ctrls[j]
    BY <1>2, <2>2 DEF Keeps
  <2>5. Live(t)
    <3>1. \A j \in 1..(n - 1) : ~s.ctrls[j].unreachable
      BY <1>1 DEF Arrived
    <3>2. DOMAIN t.ctrls = 1..(n - 1)
      BY <1>2, <2>3, StateFacts
    <3> QED BY <2>4, <3>1, <3>2 DEF Live
  <2>6. Depth(pc + 1) = n - 1 /\ pc + 1 \in 1..Len(body)
    <3>1. Depth(pc + 1) = n - 1
      BY <2>3 DEF Depth
    <3>2. pc + 1 \in 1..(Len(body) + 1) /\ n - 1 # 0
      BY <1>1, <1>2, <1>5, BodyStep
    <3> QED BY <1>1, <3>1, <3>2, Accepted
  <2>7. ASSUME NEW i \in 2..(n - 1), NEW a \in 1..Len(body), Opened(labels, i, a, pc)
        PROVE  a < pc + 1 /\ pc + 1 <= EndOf(a)
    <3>1. i \in 2..Len(labels)
      BY <1>2
    <3>2. /\ a \in Nat /\ EndOf(a) \in (a + 1)..Len(body) /\ i = Depth(a) + 1
          /\ pc \in (a + 1)..EndOf(a) /\ body[a].op \in Openers
      BY <1>1, <2>7, <3>1, OpenedFacts
    <3>3. Depth(EndOf(a) + 1) = Depth(a) /\ Depth(a) \in Nat
      BY <1>1, <3>2, EndFacts, BodyStep
    <3>4. pc # EndOf(a)
      BY <1>2, <2>6, <3>2, <3>3
    <3> QED BY <1>2, <3>2, <3>4
  <2>8. LabelsAt(SubSeq(labels, 1, n - 1), pc + 1) /\ Len(SubSeq(labels, 1, n - 1)) = n - 1
    BY <1>1, <1>5, <2>6, <2>7, LabelsOut
  <2> DEFINE ks == SubSeq(labels, 1, n - 1)
  <2> HIDE DEF ks
  <2>9. Arrived(ks, pc + 1, stack)
    <3>1. Len(ks) = n - 1 /\ n - 1 = Depth(pc + 1)
      BY <2>6, <2>8 DEF ks
    <3>2. \A j \in 1..(Len(ks) - 1) : j \in DOMAIN t.ctrls
      BY <1>2, <2>3, <3>1, StateFacts, SMTT(60)
    <3>3. \A j \in 1..(Len(ks) - 1) : ~t.ctrls[j].unreachable
      BY <2>5, <3>2 DEF Live
    <3> QED BY <2>3, <2>5, <3>1, <3>3 DEF Arrived
  <2>10. /\ labels' = ks /\ LabelsAt(ks, pc + 1) /\ stack' = stack /\ branch' = -1
    BY <1>1, <2>1, <2>8 DEF ks
  <2> HIDE DEF s, t, n
  <2> QED BY <1>1, <2>1, <2>9, <2>10, Moved
<1> QED BY <1>4, <1>5

(* A branch passes one handler, or arrives: at the loop's first            *)
(* instruction or behind the block.                                        *)
LEMMA UnwindMoves == ASSUME Going, Unwind PROVE MachineInv'
<1>1. /\ Inv /\ TraceInv /\ verdict = "accepted" /\ verdict' = "accepted"
      /\ UNCHANGED <<body, vals, ctrls, trace>> /\ LabelsAt(labels, pc)
      /\ Unwinding(labels, pc, stack, branch) /\ outcome = "running" /\ stack' = stack
  <2>1. branch # -1
    BY DEF Unwind
  <2> QED BY <2>1, GoingFacts DEF Unwind, Going
<1> DEFINE s == hist[pc] n == Len(labels) f == s.ctrls[n - branch]
<1>2. /\ branch \in 0..(n - 1) /\ Live(s) /\ stack = SubSeq(s.vals, 1, f.height) \o LTypes(f)
  BY <1>1 DEF Unwinding
<1>3. /\ pc \in 1..Len(body) /\ labels \in Seq(Labels) /\ n \in Nat \ {0} /\ n \in 1..Len(labels)
      /\ pc \in Nat
  <2>1. /\ pc \in 1..Len(body) /\ labels \in Seq(Labels) /\ n > 0 /\ Len(body) \in Nat
    BY <1>1, NowFacts DEF LabelsAt
  <2>2. n \in Nat
    BY <2>1
  <2> QED BY <2>1, <2>2
<1>4. /\ s \in State /\ Ordered(s) /\ s.ctrls # <<>> /\ s.ctrls \in Seq(Frame)
      /\ s.vals \in Seq(Vals)
  <2>1. s \in State /\ Ordered(s) /\ Len(s.ctrls) \in Nat \ {0}
    BY <1>1, <1>3, BodyStep
  <2> QED BY <2>1, StateFacts
<1>b. branch \in 0..(n - 1) /\ n \in Nat \ {0} /\ branch \in Int
  <2>1. branch \in 0..(n - 1) /\ n \in Nat \ {0}
    BY <1>2, <1>3
  <2> QED BY ONLY <2>1
<1>5. CASE n = 1
  <2>1. branch = 0 /\ n - branch = 1
    <3> HIDE DEF n
    <3> QED BY ONLY <1>b, <1>5
  <2>2. Returns
    BY <1>5 DEF Unwind, Outermost
  <2>3. LTypes(s.ctrls[1]) = FuncResults /\ s.ctrls[1].height = 0
    BY <1>4, FuncFrame
  <2>4. SubSeq(s.vals, 1, 0) \in Seq(Vals) /\ FuncResults \in Seq(Vals)
    <3>1. 0 \in 0..Len(s.vals)
      BY <1>4
    <3> QED BY <1>4, <3>1, SubSeqFacts, ValidatorAssumption DEF Vals
  <2>5. stack = SubSeq(s.vals, 1, 0) \o FuncResults
    BY <1>2, <2>1, <2>3
  <2>6. /\ Len(FuncResults) <= Len(stack) /\ Len(stack) \in Nat
        /\ SubSeq(stack, Len(stack) - Len(FuncResults) + 1, Len(stack)) = FuncResults
    BY <2>4, <2>5, TopIs
  <2> HIDE DEF s, n, f
  <2> QED BY <1>1, <2>2, <2>6, Returned
<1> DEFINE ks == SubSeq(labels, 1, n - 1)
<1>6. CASE n # 1 /\ branch > 0
  <2>1. /\ labels' = ks /\ branch' = branch - 1 /\ pc' = pc /\ outcome' = "running"
    BY <1>1, <1>6 DEF Unwind, Outermost
  <2>2. branch \in Int /\ branch - 1 \in Nat /\ n - 1 - (branch - 1) = n - branch
        /\ branch - 1 \in 0..(n - 1 - 1)
    <3> HIDE DEF n
    <3> QED BY ONLY <1>b, <1>6
  <2>3. ASSUME NEW i \in 2..(n - 1), NEW a \in 1..Len(body), Opened(labels, i, a, pc)
        PROVE  a < pc /\ pc <= EndOf(a)
    BY <2>3 DEF Opened
  <2>4. LabelsAt(ks, pc) /\ Len(ks) = n - 1
    BY <1>1, <1>3, <1>6, <2>3, LabelsOut
  <2> HIDE DEF ks
  <2>5. Unwinding(ks, pc, stack, branch - 1)
    BY <1>2, <2>2, <2>4 DEF Unwinding
  <2> HIDE DEF s, n, f
  <2>6. PICK d \in Nat : d = branch - 1
    BY <2>2
  <2>7. branch' = d /\ Unwinding(ks, pc, stack, d) /\ LabelsAt(ks, pc)
    BY <2>1, <2>4, <2>5, <2>6
  <2> QED BY <1>1, <2>1, <2>7, MovedOut
<1>7. CASE n # 1 /\ ~(branch > 0)
  <2>1. branch = 0 /\ f = s.ctrls[n] /\ n \in 2..Len(labels)
    <3>1. branch = 0 /\ n - branch = n
      <4> HIDE DEF n
      <4> QED BY ONLY <1>b, <1>7
    <3>2. Len(labels) \in Nat \ {0} /\ Len(labels) # 1
      BY <1>3, <1>7
    <3>3. Len(labels) \in 2..Len(labels)
      BY ONLY <3>2
    <3> QED BY <3>1, <3>3
  <2>2. PICK o \in 1..Len(body) : Opened(labels, n, o, pc)
    BY <1>1, <2>1 DEF LabelsAt
  <2>3. /\ body[o].op \in Openers /\ pc \in (o + 1)..EndOf(o) /\ n = Depth(o) + 1
        /\ labels[n].after = EndOf(o) /\ EndOf(o) \in (o + 1)..Len(body) /\ o \in Nat
        /\ labels[n].again = IF body[o].op = "loop" THEN o + 1 ELSE 0
        /\ f.opcode = "loop" <=> body[o].op = "loop"
    BY <1>1, <2>1, <2>2, OpenedFacts
  <2>4. Depth(o) \in Nat /\ Depth(o) = n - 1 /\ Len(body) \in Nat
    BY <1>1, <1>3, <2>3, BodyStep, NowFacts
  <2>5. \A j \in 1..Depth(o) : ~s.ctrls[j].unreachable
    <3>1. n <= Len(s.ctrls)
      <4>1. n \in 1..Len(s.ctrls)
        BY <1>1, <1>3, Labelling
      <4> QED BY <4>1
    <3>2. \A j \in 1..Depth(o) : j \in DOMAIN s.ctrls
      BY <1>3, <1>4, <2>4, <3>1
    <3> QED BY <1>2, <3>2 DEF Live
  <2>6. /\ branch' = -1 /\ outcome' = "running"
        /\ labels[n].again # 0 => pc' = labels[n].again /\ labels' = labels
        /\ labels[n].again = 0 => pc' = labels[n].after + 1 /\ labels' = ks
    BY <1>1, <1>7 DEF Unwind, Outermost
  <2>7. ASSUME NEW i \in 2..(n - 1), NEW a \in 1..Len(body), Opened(labels, i, a, pc)
        PROVE  a < o /\ EndOf(o) < EndOf(a) /\ a \in Nat /\ EndOf(a) \in Nat
    <3>1. a < o /\ EndOf(o) < EndOf(a)
      BY <1>1, <2>1, <2>2, <2>7, AroundFacts
    <3>2. a \in Nat /\ EndOf(a) \in (a + 1)..Len(body)
      BY <2>4, <2>7, EndFacts, <1>1 DEF Opened
    <3> QED BY <2>4, <3>1, <3>2
  <2>8. CASE body[o].op = "loop"
    <3> DEFINE t == hist[o + 1]
    <3>1. /\ pc' = o + 1 /\ labels' = labels /\ labels[n].again = o + 1 /\ o + 1 # 0
      BY <2>3, <2>6, <2>8
    <3>2. o + 1 \in (o + 1)..EndOf(o) /\ o + 1 \in 1..Len(body)
      BY <2>3, <2>4
    <3>3. /\ t.vals = SubSeq(t.vals, 1, t.ctrls[n].height) \o t.ctrls[n].start_types
          /\ ~t.ctrls[n].unreachable
          /\ Depth(o + 1) = n /\ Len(t.ctrls) = n
      <4> HIDE DEF s, n, f, ks
      <4> QED BY ONLY <1>1, <2>3, o \in 1..Len(body), Entered, ZenonT(60)
    <3>4. /\ t.ctrls[n].height = f.height
          /\ t.ctrls[n].start_types = f.start_types
          /\ \A k \in 1..Depth(o) : t.ctrls[k] = s.ctrls[k]
          /\ SubSeq(t.vals, 1, t.ctrls[n].height) = SubSeq(s.vals, 1, f.height)
      <4>1. PICK x \in (o + 1)..EndOf(o) : x = o + 1
        BY <3>2
      <4>2. /\ hist[x].ctrls[n].height = hist[pc].ctrls[n].height
            /\ hist[x].ctrls[n].start_types = hist[pc].ctrls[n].start_types
            /\ hist[x].ctrls[n].end_types = hist[pc].ctrls[n].end_types
            /\ \A k \in 1..Depth(o) : hist[x].ctrls[k] = hist[pc].ctrls[k]
            /\ SubSeq(hist[x].vals, 1, hist[x].ctrls[n].height)
                 = SubSeq(hist[pc].vals, 1, hist[pc].ctrls[n].height)
        <5> HIDE DEF s, t, f, n, ks
        <5>1. SameAcross(o, pc, x)
          BY ONLY <1>1, <2>3, o \in 1..Len(body), x \in (o + 1)..EndOf(o), AcrossAll
        <5> QED BY ONLY <2>3, <5>1 DEF SameAcross
      <4> QED BY <2>1, <4>1, <4>2
    <3>5. stack = t.vals
      BY <1>2, <2>3, <2>8, <3>3, <3>4 DEF LTypes
    <3>6. Live(t)
      <4>1. \A j \in DOMAIN t.ctrls : j = n \/ j \in 1..Depth(o)
        <5>1. DOMAIN t.ctrls = 1..n
          <6>1. t \in State
            BY <1>1, BodyStep
          <6>2. t.ctrls \in Seq(Frame)
            BY <6>1, StateFacts
          <6> HIDE DEF t, n
          <6> QED BY <3>3, <6>2
        <5> QED BY <1>3, <2>4, <5>1
      <4> QED BY <2>5, <3>3, <3>4, <4>1 DEF Live
    <3>7. Arrived(labels, o + 1, stack)
      <4>1. \A j \in 1..(n - 1) : ~t.ctrls[j].unreachable
        BY <2>4, <2>5, <3>4
      <4> QED BY <3>3, <3>5, <3>6, <4>1 DEF Arrived
    <3>8. ASSUME NEW i \in 2..n, NEW a \in 1..Len(body), Opened(labels, i, a, pc)
          PROVE  a < o + 1 /\ o + 1 <= EndOf(a)
      <4>1. CASE i = n
        <5>1. labels[i].again = IF body[a].op = "loop" THEN a + 1 ELSE 0
          BY <1>1, <3>8, OpenedFacts
        <5>2. a = o
          BY <2>3, <3>1, <4>1, <5>1
        <5> QED BY <2>3, <5>2
      <4>2. CASE i # n
        <5>1. i \in 2..(n - 1)
          BY <1>3, <4>2
        <5>2. a < o /\ EndOf(o) < EndOf(a) /\ a \in Nat /\ EndOf(a) \in Nat
          BY <2>7, <3>8, <5>1
        <5> QED BY <2>3, <5>2
      <4> QED BY <4>1, <4>2
    <3>9. LabelsAt(labels, o + 1)
      BY <1>1, <1>3, <3>2, <3>8, LabelsMove
    <3> HIDE DEF s, n, f, t, ks
    <3> QED BY <1>1, <2>6, <3>1, <3>7, <3>9, Moved
  <2>9. CASE body[o].op # "loop"
    <3> DEFINE e == EndOf(o) t == hist[e + 1]
    <3>1. pc' = e + 1 /\ labels' = ks
      BY <2>3, <2>6, <2>9
    <3>2. /\ Depth(e + 1) = Depth(o) /\ e + 1 \in 1..Len(body)
          /\ t.vals = SubSeq(s.vals, 1, f.height) \o f.end_types
          /\ \A k \in 1..Depth(o) : t.ctrls[k] = s.ctrls[k]
          /\ Len(t.ctrls) = Depth(o)
      <4>1. Depth(e + 1) = Depth(o) /\ e + 1 \in 1..Len(body) /\ Len(t.ctrls) = Depth(o)
        BY <1>1, <2>3, AtEnd
      <4>2. /\ Inv /\ TraceInv /\ verdict = "accepted" /\ o \in 1..Len(body)
            /\ body[o].op \in Openers /\ pc \in (o + 1)..EndOf(o)
        BY <1>1, <2>3
      <4>3. PICK j : j = Depth(o) + 1
        OBVIOUS
      <4>4. /\ \A k \in 1..Depth(o) : hist[EndOf(o) + 1].ctrls[k] = hist[pc].ctrls[k]
            /\ hist[EndOf(o) + 1].vals =
                 SubSeq(hist[pc].vals, 1, hist[pc].ctrls[j].height) \o hist[pc].ctrls[j].end_types
        BY ONLY <4>2, <4>3, PastEnd, ZenonT(30)
      <4>5. n = j
        BY <2>3, <4>3
      <4> QED BY <2>1, <4>1, <4>4, <4>5
    <3>3. stack = t.vals
      BY <1>2, <2>3, <2>9, <3>2 DEF LTypes
    <3>4. Live(t)
      <4>1. DOMAIN t.ctrls = 1..Depth(o)
        <5>1. e \in 1..Len(body)
          BY <2>3, <2>4
        <5>2. t \in State
          BY <1>1, <5>1, BodyStep
        <5>3. t.ctrls \in Seq(Frame)
          BY <5>2, StateFacts
        <5>4. Len(t.ctrls) = Depth(o)
          BY <3>2
        <5> HIDE DEF t, n
        <5> QED BY ONLY <5>3, <5>4
      <4> QED BY <2>5, <3>2, <4>1 DEF Live
    <3>5. ASSUME NEW i \in 2..(n - 1), NEW a \in 1..Len(body), Opened(labels, i, a, pc)
          PROVE  a < e + 1 /\ e + 1 <= EndOf(a)
      <4>1. a < o /\ EndOf(o) < EndOf(a) /\ a \in Nat /\ EndOf(a) \in Nat
        BY <2>7, <3>5
      <4> QED BY <2>3, <2>4, <4>1
    <3>6. LabelsAt(ks, e + 1) /\ Len(ks) = n - 1
      <4>1. PICK q \in 1..Len(body) : q = e + 1
        BY <3>2
      <4>2. \A i \in 2..(n - 1) : \A a \in 1..Len(body) :
              Opened(labels, i, a, pc) => a < q /\ q <= EndOf(a)
        BY <3>5, <4>1
      <4>3. LabelsAt(SubSeq(labels, 1, n - 1), q) /\ Len(SubSeq(labels, 1, n - 1)) = n - 1
        BY ONLY <1>1, <1>7, q \in 1..Len(body), <4>2, LabelsOut
      <4> QED BY <4>1, <4>3
    <3> HIDE DEF ks
    <3>7. Arrived(ks, e + 1, stack)
      <4>1. \A j \in 1..(Len(ks) - 1) : j \in 1..Depth(o)
        BY <1>3, <2>4, <3>6
      <4>2. \A j \in 1..(Len(ks) - 1) : ~t.ctrls[j].unreachable
        BY <2>5, <3>2, <4>1
      <4> QED BY <2>4, <3>2, <3>3, <3>4, <3>6, <4>2 DEF Arrived
    <3> HIDE DEF s, n, f, t, e
    <3> QED BY <1>1, <2>6, <3>1, <3>6, <3>7, Moved
  <2> QED BY <2>8, <2>9
<1> QED BY <1>5, <1>6, <1>7

\* A block is entered, at its beginning, in its else or at its end.
LEMMA EnterMoves ==
  ASSUME Going, branch = -1, body[pc].op \in Openers,
         labels' = Append(labels, BlockLabel(pc)), branch' = -1, outcome' = "running",
         stack' = hist[pc + 1].vals,
         pc' \in IF body[pc].op # "if" THEN {pc + 1}
                 ELSE {pc + 1, IF ElseOf(pc) = 0 THEN EndOf(pc) ELSE ElseOf(pc) + 1}
  PROVE  MachineInv'
<1>1. /\ Inv /\ TraceInv /\ verdict = "accepted" /\ verdict' = "accepted"
      /\ UNCHANGED <<body, vals, ctrls, trace>> /\ LabelsAt(labels, pc)
      /\ Arrived(labels, pc, stack)
  BY GoingFacts
<1> DEFINE s == hist[pc] t == hist[pc + 1] ks == Append(labels, BlockLabel(pc))
<1>2. PICK o \in 1..Len(body) : o = pc
  BY <1>1, Arrival
<1>3. PICK j : j = Depth(o) + 1
  OBVIOUS
<1>4. /\ Len(labels) = Depth(o) /\ Live(s) /\ s.ctrls \in Seq(Frame) /\ Depth(o) = Len(s.ctrls)
      /\ body[pc].op # "end" /\ t \in State
  <2>1. body[pc].op # "end"
    BY DEF Openers
  <2>2. /\ Len(labels) = Depth(pc) /\ Depth(pc) = Len(hist[pc].ctrls)
        /\ hist[pc].ctrls \in Seq(Frame) /\ hist[pc + 1] \in State
    BY <1>1, Arrival
  <2>3. Live(hist[pc])
    BY <1>1, <2>1, Arrival
  <2> QED BY <1>2, <2>1, <2>2, <2>3
<1>5. /\ t.vals = SubSeq(t.vals, 1, t.ctrls[j].height) \o t.ctrls[j].start_types
      /\ t.ctrls[j].opcode = body[o].op /\ ~t.ctrls[j].unreachable
      /\ \A k \in 1..Depth(o) : t.ctrls[k] = s.ctrls[k]
      /\ Depth(o + 1) = j /\ Len(t.ctrls) = j /\ Depth(o) \in Nat \ {0}
  BY <1>1, <1>2, <1>3, Entered
<1>6. \A k \in 1..Depth(o) : ~t.ctrls[k].unreachable
  <2>1. DOMAIN s.ctrls = 1..Depth(o)
    BY <1>4
  <2>2. \A k \in 1..Depth(o) : ~s.ctrls[k].unreachable
    BY <1>4, <2>1 DEF Live
  <2> QED BY <1>5, <2>2
<1>7. j - 1 = Depth(o) /\ j \in Nat /\ \A k \in 1..j : k = j \/ k \in 1..Depth(o)
  <2>1. j = Depth(o) + 1 /\ Depth(o) \in Nat
    BY <1>3, <1>5
  <2> QED BY ONLY <2>1
<1>8. /\ EndOf(o) \in (o + 1)..Len(body) /\ body[EndOf(o)].op = "end"
      /\ Depth(EndOf(o)) = j /\ Len(body) \in Nat /\ o \in Nat
  BY <1>1, <1>2, <1>3, EndFacts, NowFacts
<1>9. ASSUME NEW q \in (o + 1)..EndOf(o)
      PROVE  LabelsAt(ks, q) /\ Len(ks) = j
  BY <1>1, <1>2, <1>3, <1>4, LabelsIn
<1> HIDE DEF ks
<1>10. ASSUME NEW q \in (o + 1)..EndOf(o), pc' = q, Arrived(ks, q, t.vals)
       PROVE  MachineInv'
  <2>1. LabelsAt(ks, q)
    BY <1>9
  <2>2. labels' = ks /\ stack' = t.vals
    BY DEF ks
  <2> HIDE DEF s, t
  <2> QED BY <1>1, <1>10, <2>1, <2>2, Moved
<1>11. o + 1 \in (o + 1)..EndOf(o)
  BY <1>8
<1>12. CASE pc' = o + 1
  <2>1. Len(ks) = j
    BY <1>9, <1>11
  <2>2. DOMAIN t.ctrls = 1..j
    <3>1. t.ctrls \in Seq(Frame)
      BY <1>4, StateFacts
    <3> HIDE DEF t
    <3> QED BY <1>5, <3>1
  <2>3. Live(t)
    BY <1>5, <1>6, <1>7, <2>2 DEF Live
  <2>4. Arrived(ks, o + 1, t.vals)
    BY <1>2, <1>5, <1>6, <1>7, <2>1, <2>3 DEF Arrived
  <2> QED BY <1>10, <1>11, <1>12, <2>4
<1>13. CASE body[o].op = "if" /\ ElseOf(o) = 0 /\ pc' = EndOf(o)
  <2>1. PICK e : e = EndOf(o)
    OBVIOUS
  <2>2. /\ Under(hist[e]) = SubSeq(hist[o + 1].vals, 1, hist[o + 1].ctrls[j].height)
        /\ Inner(hist[e]).end_types = hist[o + 1].ctrls[j].end_types
        /\ Inner(hist[e]) = hist[e].ctrls[j]
        /\ Inner(hist[e]).opcode = "if" =>
             hist[o + 1].ctrls[j].start_types = hist[o + 1].ctrls[j].end_types
    BY <1>1, <1>2, <1>3, <1>11, <2>1, AtEnd, SMTT(60)
  <2>3. \A k \in 1..Depth(o) : hist[e].ctrls[k] = hist[o + 1].ctrls[k]
    BY <1>1, <1>2, <1>3, <1>11, <2>1, AtEnd
  <2>4. e \in (o + 1)..EndOf(o) /\ body[e].op = "end" /\ Depth(e) = j
    BY <1>8, <2>1
  <2>5. hist[e].ctrls[j].opcode = "if"
    <3>1. \/ hist[e].ctrls[j].opcode = body[o].op
          \/ \E q \in (o + 1)..(e - 1) : body[q].op = "else" /\ Depth(q + 1) = j
      <4>1. /\ Inv /\ TraceInv /\ verdict = "accepted" /\ o \in 1..Len(body)
            /\ body[o].op \in Openers
        BY <1>1, <1>2
      <4>2. \/ hist[e].ctrls[j].opcode = body[o].op
            \/ /\ body[o].op = "if" /\ hist[e].ctrls[j].opcode = "else"
               /\ \E q \in (o + 1)..(e - 1) : body[q].op = "else" /\ Depth(q + 1) = j
        BY ONLY <1>3, <2>4, <4>1, InsideFacts, ZenonT(60)
      <4> QED BY <4>2
    <3>2. ~\E q \in (o + 1)..EndOf(o) : body[q].op = "else" /\ Depth(q + 1) = j
      BY <1>1, <1>2, <1>3, <1>13, ElseFacts
    <3>3. \A q \in (o + 1)..(e - 1) : q \in (o + 1)..EndOf(o)
      BY <1>8, <2>1
    <3> QED BY <1>13, <3>1, <3>2, <3>3
  <2>6. t.vals = Under(hist[e]) \o Inner(hist[e]).end_types
    BY <1>2, <1>5, <2>2, <2>5
  <2>7. \A k \in 1..Depth(o) : ~hist[e].ctrls[k].unreachable
    BY <1>2, <1>6, <2>3
  <2>8. Len(ks) = j
    BY <1>9, <2>4
  <2>9. Arrived(ks, e, t.vals)
    BY <1>7, <2>4, <2>6, <2>7, <2>8 DEF Arrived
  <2> QED BY <1>10, <1>13, <2>1, <2>4, <2>9
<1>14. CASE body[o].op = "if" /\ ElseOf(o) # 0 /\ pc' = ElseOf(o) + 1
  <2>1. PICK x \in (o + 1)..EndOf(o) : x = ElseOf(o) /\ body[x].op = "else" /\ Depth(x + 1) = j
    BY <1>1, <1>2, <1>3, <1>14, ElseFacts
  <2>2. x \in 1..Len(body) /\ x + 1 \in (o + 1)..EndOf(o) /\ x \in Nat
    <3>1. x # EndOf(o)
      BY <1>8, <2>1
    <3> QED BY <1>8, <2>1, <3>1
  <2>3. /\ Shape(hist[x], body[x], hist[x + 1]) /\ Depth(x + 1) = Depth(x)
        /\ Len(hist[x].ctrls) = Depth(x) /\ Len(hist[x + 1].ctrls) = Depth(x + 1)
        /\ hist[x + 1] \in State
    BY <1>1, <2>1, <2>2, BodyStep DEF Openers
  <2>4. Elses(hist[x], hist[x + 1]) /\ Keeps(hist[x], hist[x + 1])
    BY <2>1, <2>3 DEF Shape
  <2>5. /\ Inner(hist[x]) = hist[x].ctrls[j] /\ Inner(hist[x + 1]) = hist[x + 1].ctrls[j]
    BY <2>1, <2>3 DEF Inner
  <2>6. /\ hist[x].ctrls[j].height = hist[o + 1].ctrls[j].height
        /\ hist[x].ctrls[j].start_types = hist[o + 1].ctrls[j].start_types
        /\ \A k \in 1..Depth(o) : hist[x].ctrls[k] = hist[o + 1].ctrls[k]
    BY <1>1, <1>2, <1>3, <1>11, Across
  <2>7. SubSeq(hist[x].vals, 1, hist[x].ctrls[j].height)
          = SubSeq(hist[o + 1].vals, 1, hist[o + 1].ctrls[j].height)
    <3>1. PICK y \in (o + 1)..EndOf(o) : y = o + 1
      BY <1>11
    <3>2. /\ Inv /\ TraceInv /\ verdict = "accepted" /\ o \in 1..Len(body)
          /\ body[o].op \in Openers
      BY <1>1, <1>2
    <3>3. SubSeq(hist[x].vals, 1, hist[x].ctrls[j].height)
            = SubSeq(hist[y].vals, 1, hist[y].ctrls[j].height)
      <4>1. SameAcross(o, y, x)
        BY ONLY <3>2, x \in (o + 1)..EndOf(o), y \in (o + 1)..EndOf(o), AcrossAll
      <4> QED BY ONLY <1>3, <4>1 DEF SameAcross
    <3> QED BY <3>1, <3>3
  <2>8. hist[x + 1].vals = Under(hist[x]) \o hist[x].ctrls[j].start_types
    BY <2>4, <2>5 DEF Elses
  <2>9. t.vals = hist[x + 1].vals
    BY <1>2, <1>5, <2>5, <2>6, <2>7, <2>8 DEF Under
  <2>10. ~hist[x + 1].ctrls[j].unreachable
    <3>1. Inner(hist[x + 1]) = ControlFrame("else", Inner(hist[x]).start_types,
                                 Inner(hist[x]).end_types, Inner(hist[x]).height)
      BY <2>4 DEF Elses
    <3> QED BY <2>5, <3>1 DEF ControlFrame
  <2>11. \A k \in 1..Depth(o) : ~hist[x + 1].ctrls[k].unreachable
    <3>1. \A k \in 1..Depth(o) : hist[x + 1].ctrls[k] = hist[x].ctrls[k]
      BY <1>7, <2>1, <2>3, <2>4, SMTT(60) DEF Keeps
    <3> QED BY <1>2, <1>6, <2>6, <3>1
  <2>12. Live(hist[x + 1])
    <3>1. hist[x + 1].ctrls \in Seq(Frame)
      BY <2>3, StateFacts
    <3>2. DOMAIN hist[x + 1].ctrls = 1..j
      BY <2>1, <2>3, <3>1
    <3> QED BY <1>7, <2>10, <2>11, <3>2 DEF Live
  <2>13. Len(ks) = j
    BY <1>9, <1>11
  <2>14. Arrived(ks, x + 1, t.vals)
    BY <1>7, <2>1, <2>9, <2>11, <2>12, <2>13 DEF Arrived
  <2> QED BY <1>10, <1>14, <2>1, <2>2, <2>14
<1> QED BY <1>2, <1>12, <1>13, <1>14

(* A block is entered with its parameters; an if goes the way its          *)
(* condition says.                                                         *)
LEMMA BlockMoves == ASSUME Going, ExecBlock PROVE MachineInv'
<1>1. /\ Inv /\ TraceInv /\ verdict = "accepted" /\ LabelsAt(labels, pc)
      /\ Arrived(labels, pc, stack) /\ ins = body[pc] /\ body[pc].op \in Openers /\ branch = -1
      /\ outcome = "running"
  BY GoingFacts DEF ExecBlock, Executes, ins
<1> DEFINE s == hist[pc] t == hist[pc + 1] n == Len(body[pc].type.params)
           rest == IF body[pc].op = "if" THEN Below(1) ELSE stack
<1>2. /\ stack = s.vals /\ s.vals \in Seq(Vals) /\ Steps(s, body[pc], t)
      /\ pc \in 1..Len(body)
  <2>1. body[pc].op # "end"
    BY <1>1 DEF Openers
  <2> QED BY <1>1, <2>1, Arrival
<1>3. body[pc].op = "if" => 1 <= Len(s.vals) /\ t.vals = SubSeq(s.vals, 1, Len(s.vals) - 1)
  BY <1>2 DEF Steps
<1>4. body[pc].op # "if" => t.vals = s.vals
  BY <1>1, <1>2 DEF Steps, Openers
<1>5. rest = t.vals /\ ~(Len(stack) < IF body[pc].op = "if" THEN 1 ELSE 0)
  <2>1. Len(stack) \in Nat
    BY <1>2
  <2>2. CASE body[pc].op = "if"
    BY <1>2, <1>3, <2>1, <2>2 DEF Below
  <2>3. CASE body[pc].op # "if"
    BY <1>2, <1>4, <2>1, <2>3
  <2> QED BY <2>2, <2>3
<1> DEFINE g == t.ctrls[Depth(pc) + 1]
           loops == body[pc].op = "loop"
           l == Label(IF loops THEN n ELSE Len(body[pc].type.results), Len(rest) - n,
                      IF loops THEN pc + 1 ELSE 0, EndOf(pc))
<1>6. /\ stack' = rest /\ labels' = Append(labels, l) /\ branch' = -1 /\ outcome' = "running"
      /\ pc' \in IF body[pc].op # "if" THEN {pc + 1}
                 ELSE {pc + 1, IF ElseOf(pc) = 0 THEN EndOf(pc) ELSE ElseOf(pc) + 1}
  BY <1>1, <1>5 DEF ExecBlock, Needs
<1>7. /\ g.opcode = body[pc].op /\ g.start_types = body[pc].type.params
      /\ g.end_types = body[pc].type.results /\ g.height = Len(t.vals) - n
  <2>1. PICK j : j = Depth(pc) + 1
    OBVIOUS
  <2>2. LET f == hist[pc + 1].ctrls[j]
        IN  /\ f.opcode = body[pc].op /\ f.start_types = body[pc].type.params
            /\ f.end_types = body[pc].type.results
            /\ f.height = Len(hist[pc + 1].vals) - Len(body[pc].type.params)
    BY <1>1, <1>2, <2>1, Entered
  <2> QED BY <2>1, <2>2
<1>8. BlockLabel(pc) = Label(Len(LTypes(g)), g.height, IF loops THEN pc + 1 ELSE 0, EndOf(pc))
  BY DEF BlockLabel
<1>9. Len(LTypes(g)) = (IF loops THEN n ELSE Len(body[pc].type.results))
  BY <1>7 DEF LTypes
<1>10. l = BlockLabel(pc)
  BY <1>5, <1>7, <1>8, <1>9
<1> HIDE DEF s, rest, l, g, loops, n
<1>11. labels' = Append(labels, BlockLabel(pc)) /\ stack' = hist[pc + 1].vals
  BY <1>5, <1>6, <1>10
<1> QED BY <1>1, <1>6, <1>11, EnterMoves

(* Every instruction that is executed keeps the machine running as         *)
(* validated.                                                              *)
LEMMA ExecMoves == ASSUME Going, Exec PROVE MachineInv'
  BY PlainMoves, TrapMoves, DropMoves, SelectMoves, BlockMoves, ElseMoves, EndMoves, BrMoves,
     BrIfMoves, BrTableMoves, ReturnMoves, UnwindMoves DEF Exec

----------------------------------------------------------------------------
(* The inductive invariant: while the body is being validated, what the    *)
(* recorded stacks are to each other; while it is being run, that the      *)
(* machine is where the validator was.                                     *)
LEMMA MachineNext == Inv /\ TraceInv /\ MachineInv /\ [Next]_vars => MachineInv'
<1> SUFFICES ASSUME Inv, TraceInv, MachineInv, [Next]_vars PROVE MachineInv'
  OBVIOUS
<1>1. CASE UNCHANGED <<mvars, vvars, trace>>
  <2>1. CASE outcome = "running"
    <3>1. Going
      BY <1>1, <2>1 DEF Going
    <3>2. /\ verdict' = "accepted" /\ UNCHANGED <<body, vals, ctrls, trace>>
          /\ LabelsAt(labels, pc)
          /\ branch = -1 => Arrived(labels, pc, stack)
          /\ branch # -1 => Unwinding(labels, pc, stack, branch)
      BY <3>1, GoingFacts
    <3> QED BY <1>1, <2>1, <3>2, Moved DEF mvars
  <2>2. CASE outcome # "running"
    BY <1>1, <2>2 DEF MachineInv, Running, ReturnsAsTyped, Top, mvars
  <2> QED BY <2>1, <2>2
<1>2. CASE Validate
  <2>1. verdict = "validating" /\ UNCHANGED mvars
    BY <1>2 DEF Validate, Finish, Check
  <2>2. outcome # "running"
    BY <2>1 DEF MachineInv, Running
  <2> QED BY <2>1, <2>2 DEF MachineInv, Running, ReturnsAsTyped, Top, mvars
<1>3. CASE Run
  <2>1. CASE Begin
    BY <1>3, <2>1, Began DEF Run
  <2>2. CASE Exec
    <3>1. outcome = "running"
      BY <2>2 DEF Exec, ExecPlain, ExecTrap, ExecDrop, ExecSelect, ExecBlock, ExecElse,
                  ExecEnd, ExecBr, ExecBrIf, ExecBrTable, ExecReturn, Unwind, Executes
    <3>2. Going
      BY <1>3, <3>1 DEF Going, Run
    <3> QED BY <2>2, <3>2, ExecMoves
  <2> QED BY <1>3, <2>1, <2>2 DEF Run
<1> QED BY <1>1, <1>2, <1>3 DEF Next, vars

(* A machine that runs as validated agrees with the validator, in the      *)
(* words of the run's property.                                            *)
LEMMA AgreementHolds ==
  ASSUME Inv, TraceInv, Running PROVE Agreement
<1> SUFFICES ASSUME outcome = "running", branch = -1 PROVE Agreement
  BY DEF Agreement
<1>1. verdict = "accepted" /\ LabelsAt(labels, pc) /\ Arrived(labels, pc, stack)
  BY DEF Running
<1> DEFINE s == hist[pc]
<1>2. /\ pc \in 1..Len(body) /\ s \in State /\ s.ctrls # <<>> /\ s.ctrls \in Seq(Frame)
      /\ Len(labels) = Len(s.ctrls) /\ labels \in Seq(Labels)
      /\ body[pc].op # "end" => Live(s) /\ stack = s.vals
      /\ body[pc].op = "end" => stack = Under(s) \o Inner(s).end_types
  BY <1>1, Arrival
<1>3. trace[pc] = s /\ pc \in DOMAIN body
  BY <1>2, HistFacts, NowFacts DEF TraceInv
<1>4. \A i \in DOMAIN labels : Labelled(labels[i], s.ctrls[i])
  <2>1. DOMAIN labels = 1..Len(labels)
    BY <1>2
  <2> QED BY <1>1, <2>1, Labelling
<1>5. body[pc].op # "end" => ~Inner(s).unreachable
  <2>1. Len(s.ctrls) \in DOMAIN s.ctrls
    BY <1>2
  <2> QED BY <1>2, <2>1 DEF Live, Inner
<1> QED BY <1>2, <1>3, <1>4, <1>5 DEF Agreement, Inner, Under, ins

(* Type soundness: a validated body runs as it was validated.  Wherever    *)
(* the machine is about to execute an instruction, its operand stack and   *)
(* its labels are those the validator had there; it never pops an empty    *)
(* stack, and what a call returns is exactly the function's results.       *)
THEOREM RunsAsValidatedHolds == Spec => []RunsAsValidated
<1>1. Init => Inv /\ TraceInv /\ MachineInv
  <2>1. Init => MachineInv
    BY DEF Init, MachineInv, Running, ReturnsAsTyped
  <2>2. Init => Inv
    BY InitInv DEF Init
  <2> QED BY <2>1, <2>2, InitTrace
<1>2. Inv /\ [Next]_vars => Inv'
  <2>1. [Next]_vars => [VNext]_vvars
    <3>1. Validate => VNext
      BY DEF Validate, VNext
    <3>2. Run => UNCHANGED vvars
      BY DEF Run
    <3>3. UNCHANGED vars => UNCHANGED vvars
      BY DEF vars
    <3> QED BY <3>1, <3>2, <3>3 DEF Next
  <2> QED BY <2>1, NextInv
<1>3. Inv /\ TraceInv /\ MachineInv => RunsAsValidated
  BY AgreementHolds DEF MachineInv, RunsAsValidated
<1> QED BY <1>1, <1>2, <1>3, NextTrace, MachineNext, PTL DEF Spec

=============================================================================
