----------------------------- MODULE Validator5 -----------------------------
(***************************************************************************)
(* interp5/validator.py, _FuncValidator: the value stack and the control   *)
(* stack that type-check one function body, one instruction at a time.     *)
(*                                                                         *)
(* An instruction that only pops operands and pushes results, whatever it  *)
(* is called (OP_TYPES, loads, stores, locals, globals, memory.size and    *)
(* grow, call, call_indirect), is "plain" with its type.  The text of the  *)
(* ValidationError is left out.                                            *)
(***************************************************************************)
EXTENDS Integers, Sequences

CONSTANTS ValTypes,      \* value types, "i32" among them
          Unknown,       \* None on the value stack
          FuncResults,   \* result types of the function
          Instructions,  \* bound: the instructions bodies are made of
          MaxBody        \* bound: instructions in a body

FuncType == [params : Seq(ValTypes), results : Seq(ValTypes)]
Instr ==
  [op : {"plain", "block", "loop", "if"}, type : FuncType]
  \cup [op : {"br", "br_if"}, label : Nat]
  \cup [op : {"br_table"}, targets : Seq(Nat), default : Nat]
  \cup [op : {"drop", "select", "else", "end", "return", "unreachable"}]

ASSUME ValidatorAssumption ==
  /\ "i32" \in ValTypes /\ Unknown \notin ValTypes
  /\ FuncResults \in Seq(ValTypes)
  /\ Instructions \subseteq Instr
  /\ MaxBody \in Nat

VARIABLES body,     \* the instructions that passed
          vals,     \* _FuncValidator.vals
          ctrls,    \* _FuncValidator.ctrls
          verdict   \* "validating", then "accepted" or "rejected"

vvars == <<body, vals, ctrls, verdict>>

Opcodes == {"func", "block", "loop", "if", "else"}
ControlFrame(op, ins, outs, h) ==
  [opcode |-> op, start_types |-> ins, end_types |-> outs,
   height |-> h, unreachable |-> FALSE]

----------------------------------------------------------------------------
innermost == ctrls[Len(ctrls)]
Outer == SubSeq(ctrls, 1, Len(ctrls) - 1)
Available == Len(vals) - innermost.height

\* The operand i places below the top; Unknown when none is left.
Operand(i) == IF i < Available THEN vals[Len(vals) - i] ELSE Unknown
Fits(v, t) == v = Unknown \/ t = Unknown \/ v = t

(* _pop_many: in unreachable code there are as many operands as it takes,  *)
(* of any type.                                                            *)
CanPop(types) ==
  LET n == Len(types)
  IN  /\ n <= Available \/ innermost.unreachable
      /\ \A i \in 0..(n - 1) : Fits(Operand(i), types[n - i])

\* Mutant: pops go on below the frame's height.
Popped_through(n) == SubSeq(vals, 1, Len(vals) - n)

Popped(n) ==
  SubSeq(vals, 1, IF n <= Available THEN Len(vals) - n ELSE innermost.height)

Base == SubSeq(vals, 1, innermost.height)

HasLabel(d) == d < Len(ctrls)

LabelTypes(d) ==
  LET f == ctrls[Len(ctrls) - d]
  IN  IF f.opcode = "loop" THEN f.start_types ELSE f.end_types

----------------------------------------------------------------------------
(* What each rule of _instr checks.                                        *)

(* The second operand of select is popped against the type of the first.   *)
SelectAllowed ==
  CanPop(<<Unknown, Unknown, "i32">>) /\ Fits(Operand(2), Operand(1))

(* _pop_ctrl: the results are there, and nothing else is.                  *)
CanClose ==
  CanPop(innermost.end_types) /\ Available <= Len(innermost.end_types)

(* An if that ends without an else has the empty one.                      *)
EndAllowed ==
  /\ CanClose
  /\ innermost.opcode = "if" => innermost.start_types = innermost.end_types

BrAllowed(d) == HasLabel(d) /\ CanPop(LabelTypes(d))
BrIfAllowed(d) == HasLabel(d) /\ CanPop(Append(LabelTypes(d), "i32"))

(* Each target pops its types and pushes them back as it found or expected *)
(* them, so that all must agree with the first one, the default's last.    *)
BrTableAllowed(targets, default) ==
  LET all == Append(targets, default)
  IN  /\ \A i \in DOMAIN all : HasLabel(all[i])
      /\ BrIfAllowed(all[1])
      /\ \A i \in DOMAIN all : LabelTypes(all[i]) = LabelTypes(all[1])

Allows(ins) ==
  /\ ctrls # <<>>
  /\ \/ ins.op = "plain" /\ CanPop(ins.type.params)
     \/ ins.op = "drop" /\ CanPop(<<Unknown>>)
     \/ ins.op = "select" /\ SelectAllowed
     \/ ins.op \in {"block", "loop"} /\ CanPop(ins.type.params)
     \/ ins.op = "if" /\ CanPop(Append(ins.type.params, "i32"))
     \/ ins.op = "else" /\ innermost.opcode = "if" /\ CanClose
     \/ ins.op = "end" /\ EndAllowed
     \/ ins.op = "br" /\ BrAllowed(ins.label)
     \/ ins.op = "br_if" /\ BrIfAllowed(ins.label)
     \/ ins.op = "br_table" /\ BrTableAllowed(ins.targets, ins.default)
     \/ ins.op = "return" /\ CanPop(ctrls[1].end_types)
     \/ ins.op = "unreachable"

----------------------------------------------------------------------------
(* The two stacks after an instruction that passed its checks.             *)
Stacks(vs, cs) == vals' = vs /\ ctrls' = cs

Plainly(ins) ==
  /\ ins.op = "plain"
  /\ Stacks(Popped(Len(ins.type.params)) \o ins.type.results, ctrls)

Drop(ins) == ins.op = "drop" /\ Stacks(Popped(1), ctrls)

Select(ins) ==
  /\ ins.op = "select"
  /\ Stacks(Append(Popped(3),
       IF Operand(1) # Unknown THEN Operand(1) ELSE Operand(2)), ctrls)

Open(ins) ==
  /\ ins.op \in {"block", "loop", "if"}
  /\ LET n == Len(ins.type.params) + (IF ins.op = "if" THEN 1 ELSE 0)
         below == Popped(n)
     IN  Stacks(below \o ins.type.params,
           Append(ctrls, ControlFrame(ins.op, ins.type.params,
                           ins.type.results, Len(below))))

\* What is left when the frame's results are popped.
Closed == Popped(Len(innermost.end_types))

Else(ins) ==
  /\ ins.op = "else"
  /\ Stacks(Closed \o innermost.start_types,
       Append(Outer, ControlFrame("else", innermost.start_types,
                       innermost.end_types, Len(Closed))))

End(ins) == ins.op = "end" /\ Stacks(Closed \o innermost.end_types, Outer)

BrIf(ins) ==
  /\ ins.op = "br_if"
  /\ LET types == LabelTypes(ins.label)
     IN  Stacks(Popped(Len(types) + 1) \o types, ctrls)

(* _set_unreachable                                                        *)
Leave(ins) ==
  /\ ins.op \in {"br", "br_table", "return", "unreachable"}
  /\ Stacks(Base, Append(Outer, [innermost EXCEPT !.unreachable = TRUE]))

Rule(ins) == \/ Plainly(ins) \/ Drop(ins) \/ Select(ins) \/ Open(ins)
             \/ Else(ins) \/ End(ins) \/ BrIf(ins) \/ Leave(ins)

(* The next instruction of the body; a ValidationError is final.  The      *)
(* bound leaves room for the ends of the open blocks.                      *)
Check(ins) ==
  /\ verdict = "validating"
  /\ IF Allows(ins)
     THEN /\ Rule(ins) /\ body' = Append(body, ins) /\ UNCHANGED verdict
          /\ Len(body') + Len(ctrls') <= MaxBody
     ELSE verdict' = "rejected" /\ UNCHANGED <<body, vals, ctrls>>

(* The body ends: its final end must have been the last instruction.       *)
Finish ==
  /\ verdict = "validating" /\ body # <<>>
  /\ verdict' = IF ctrls = <<>> THEN "accepted" ELSE "rejected"
  /\ UNCHANGED <<body, vals, ctrls>>

VInit ==
  /\ body = <<>> /\ vals = <<>> /\ verdict = "validating"
  /\ ctrls = <<ControlFrame("func", <<>>, FuncResults, 0)>>

VNext == Finish \/ \E ins \in Instructions : Check(ins)
VSpec == VInit /\ [][VNext]_vvars

----------------------------------------------------------------------------
VTypeOK ==
  /\ body \in Seq(Instructions)
  /\ vals \in Seq(ValTypes \cup {Unknown})
  /\ ctrls \in Seq([opcode : Opcodes, start_types : Seq(ValTypes),
                    end_types : Seq(ValTypes), height : Nat,
                    unreachable : BOOLEAN])
  /\ verdict \in {"validating", "accepted", "rejected"}

(* The frames lie on the value stack in the order they were opened, above  *)
(* the function's own: no rule pops into the operands of an outer frame,   *)
(* so an end or else finds the stack of its opening below it.              *)
Nested ==
  /\ ctrls # <<>> =>
       /\ ctrls[1].opcode = "func" /\ ctrls[1].height = 0
       /\ innermost.height <= Len(vals)
  /\ \A i \in 2..Len(ctrls) :
       /\ ctrls[i].opcode # "func"
       /\ ctrls[i - 1].height <= ctrls[i].height

(* An accepted body leaves exactly the function's results.                 *)
LeavesResults == verdict = "accepted" => vals = FuncResults

(* The stack discipline of validation: typed stacks, frames that nest on   *)
(* the value stack, and exactly the results left by an accepted body.      *)
StackDiscipline == VTypeOK /\ Nested /\ LeavesResults

(* "None is the wildcard produced by popping in the unreachable regime":   *)
(* with no operand left in unreachable code, a br_table asks of its labels *)
(* only that they exist and take equally many.  _pop returns the type it   *)
(* expected instead, and the next label must agree with it.                *)
WildOperands ==
  verdict = "validating" /\ ctrls # <<>> =>
    \A ins \in Instructions :
      LET all == Append(ins.targets, ins.default)
      IN  /\ ins.op = "br_table"
          /\ innermost.unreachable /\ Available = 0
          /\ \A i \in DOMAIN all :
               /\ HasLabel(all[i])
               /\ Len(LabelTypes(all[i])) = Len(LabelTypes(all[1]))
          => Allows(ins)
=============================================================================
