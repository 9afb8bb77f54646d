------------------------------ MODULE Machine5 ------------------------------
(***************************************************************************)
(* interp5/machine.py, structured control: _call, _exec_seq, _exec_block,  *)
(* _do_br and the exceptions _Branch and _Return, on a function body that  *)
(* module Validator5 accepted.  The machine has no checks of its own: the  *)
(* composition shows that it needs none.                                   *)
(*                                                                         *)
(* A value is abstracted to its type, a condition or index to a choice.    *)
(* The tree that _parse_seq builds is kept as the flat body with the       *)
(* positions of each block's else and end.                                 *)
(***************************************************************************)
EXTENDS Validator5, FiniteSets

VARIABLES
  trace,    \* history: the validator's stacks before each instruction
  pc,       \* the instruction to be executed
  stack,    \* operand stack of the frame
  labels,   \* the labels of the blocks being executed, innermost last
  branch,   \* depth that the _Branch under way has still to unwind, or -1
  outcome   \* "none", "running", then "returned", "trapped" or "crashed":
            \* an operand or a result was missing

mvars == <<pc, stack, labels, branch, outcome>>
vars == <<vvars, trace, mvars>>

Openers == {"block", "loop", "if"}

\* Blocks opened and not closed from position p up to and including q.
OpenIn(p, q) ==
  Cardinality({i \in p..q : body[i].op \in Openers})
  - Cardinality({i \in p..q : body[i].op = "end"})

(* _parse_seq: where the block opened at p ends, and its else, 0 without.  *)
EndOf(p) ==
  CHOOSE q \in (p + 1)..Len(body) :
    OpenIn(p, q) = 0 /\ \A r \in p..(q - 1) : OpenIn(p, r) > 0
ElseOf(p) ==
  LET elses == {q \in p..EndOf(p) : body[q].op = "else" /\ OpenIn(p, q) = 1}
  IN  IF elses = {} THEN 0 ELSE CHOOSE q \in elses : TRUE

Label(arity, base, again, after) ==
  [arity |-> arity, base |-> base, again |-> again, after |-> after]

ins == body[pc]
Executes(ops) == outcome = "running" /\ branch = -1 /\ ins.op \in ops

\* The stack without its top n values.
Below(n) == SubSeq(stack, 1, Len(stack) - n)
Top(n) == SubSeq(stack, Len(stack) - n + 1, Len(stack))

Crash == outcome' = "crashed" /\ UNCHANGED <<pc, stack, labels, branch>>
Needs(n, step) == IF Len(stack) < n THEN Crash ELSE step /\ UNCHANGED outcome
To(p) == pc' = p /\ UNCHANGED <<labels, branch>>

----------------------------------------------------------------------------
(* _call, with arguments as locals.                                        *)
Begin ==
  /\ verdict = "accepted" /\ outcome = "none"
  /\ pc' = 1 /\ stack' = <<>> /\ branch' = -1 /\ outcome' = "running"
  /\ labels' = <<Label(Len(FuncResults), 0, 0, Len(body))>>

ExecPlain ==
  /\ Executes({"plain"})
  /\ LET n == Len(ins.type.params)
     IN  Needs(n, stack' = Below(n) \o ins.type.results /\ To(pc + 1))

(* Any Trap: the call is over.                                             *)
ExecTrap ==
  /\ Executes({"plain", "unreachable"})
  /\ outcome' = "trapped" /\ UNCHANGED <<pc, stack, labels, branch>>

ExecDrop ==
  Executes({"drop"}) /\ Needs(1, stack' = Below(1) /\ To(pc + 1))

ExecSelect ==
  /\ Executes({"select"})
  /\ \E i \in {1, 2} :
       Needs(3, stack' = Append(Below(3), Top(3)[i]) /\ To(pc + 1))

(* _exec_block is entered: an if pops its condition before it computes the *)
(* base, and with neither a true condition nor an else runs nothing.       *)
ExecBlock ==
  /\ Executes(Openers)
  /\ LET n == Len(ins.type.params)
         rest == IF ins.op = "if" THEN Below(1) ELSE stack
         base == Len(rest) - n
         loops == ins.op = "loop"
         arity == IF loops THEN n ELSE Len(ins.type.results)
         again == IF loops THEN pc + 1 ELSE 0
     IN  Needs(IF ins.op = "if" THEN 1 ELSE 0,
           /\ stack' = rest
           /\ labels' = Append(labels, Label(arity, base, again, EndOf(pc)))
           /\ pc' \in IF ins.op # "if" THEN {pc + 1}
                      ELSE {pc + 1, IF ElseOf(pc) = 0 THEN EndOf(pc)
                                    ELSE ElseOf(pc) + 1}
           /\ UNCHANGED branch)

(* The then-sequence is over: its else is skipped.                         *)
ExecElse ==
  /\ Executes({"else"})
  /\ pc' = labels[Len(labels)].after
  /\ UNCHANGED <<stack, labels, branch, outcome>>

Outermost == Len(labels) = 1
Returns == outcome' = IF Len(stack) < Len(FuncResults) THEN "crashed" ELSE "returned"

(* A sequence is over: nothing is taken off the operand stack.             *)
ExecEnd ==
  /\ Executes({"end"})
  /\ IF Outermost THEN Returns /\ UNCHANGED <<pc, labels>>
     ELSE /\ labels' = SubSeq(labels, 1, Len(labels) - 1)
          /\ pc' = pc + 1
          /\ UNCHANGED outcome
  /\ UNCHANGED <<stack, branch>>

(* _do_br: the target's arity is kept, what lies above its base is not.    *)
Jump(d, operands) ==
  LET l == labels[Len(labels) - d]
      n == Len(operands)
  IN  /\ stack' = SubSeq(operands, 1, l.base)
                  \o SubSeq(operands, n - l.arity + 1, n)
      /\ branch' = d
      /\ UNCHANGED <<pc, labels>>

ExecBr == Executes({"br"}) /\ Needs(0, Jump(ins.label, stack))

ExecBrIf ==
  /\ Executes({"br_if"})
  /\ \/ Needs(1, Jump(ins.label, Below(1)))
     \/ Needs(1, stack' = Below(1) /\ To(pc + 1))

ExecBrTable ==
  /\ Executes({"br_table"})
  /\ \E i \in 1..(Len(ins.targets) + 1) :
       Needs(1, Jump(Append(ins.targets, ins.default)[i], Below(1)))

(* _Return passes every block and is caught by _call.                      *)
ExecReturn ==
  /\ Executes({"return"})
  /\ Returns /\ UNCHANGED <<pc, stack, labels, branch>>

\* Mutant: the depth is not counted down.
Unwind_no_count ==
  /\ outcome = "running" /\ branch >= 0
  /\ LET l == labels[Len(labels)]
     IN  IF Outermost
         THEN Returns /\ UNCHANGED <<pc, labels, branch>>
         ELSE IF branch > 0
         THEN /\ labels' = SubSeq(labels, 1, Len(labels) - 1)
              /\ UNCHANGED <<pc, branch, outcome>>
         ELSE /\ branch' = -1 /\ UNCHANGED outcome
              /\ IF l.again # 0
                 THEN pc' = l.again /\ UNCHANGED labels
                 ELSE /\ pc' = l.after + 1
                      /\ labels' = SubSeq(labels, 1, Len(labels) - 1)
  /\ UNCHANGED stack

(* One handler of the _Branch under way: _call catches what reaches it, a  *)
(* block counts the depth down, or is the target: a loop starts again, the *)
(* others are over.                                                        *)
Unwind ==
  /\ outcome = "running" /\ branch >= 0
  /\ LET l == labels[Len(labels)]
     IN  IF Outermost
         THEN Returns /\ UNCHANGED <<pc, labels, branch>>
         ELSE IF branch > 0
         THEN /\ branch' = branch - 1
              /\ labels' = SubSeq(labels, 1, Len(labels) - 1)
              /\ UNCHANGED <<pc, outcome>>
         ELSE /\ branch' = -1 /\ UNCHANGED outcome
              /\ IF l.again # 0
                 THEN pc' = l.again /\ UNCHANGED labels
                 ELSE /\ pc' = l.after + 1
                      /\ labels' = SubSeq(labels, 1, Len(labels) - 1)
  /\ UNCHANGED stack

Exec == \/ ExecPlain \/ ExecTrap \/ ExecDrop \/ ExecSelect \/ ExecBlock
        \/ ExecElse \/ ExecEnd \/ ExecBr \/ ExecBrIf \/ ExecBrTable
        \/ ExecReturn \/ Unwind

Init ==
  /\ VInit /\ trace = <<>>
  /\ pc = 0 /\ stack = <<>> /\ labels = <<>> /\ branch = -1
  /\ outcome = "none"

\* The trace of an instruction the validator looks at.
Traced ==
  trace' = IF body' = body THEN trace ELSE Append(trace, [vals |-> vals, ctrls |-> ctrls])

Validate ==
  /\ \/ Finish /\ UNCHANGED trace
     \/ \E i \in Instructions : Check(i) /\ Traced
  /\ UNCHANGED mvars

Run == (Begin \/ Exec) /\ UNCHANGED <<vvars, trace>>

Next == Validate \/ Run
Spec == Init /\ [][Next]_vars

----------------------------------------------------------------------------
(* Type soundness: wherever the machine is about to execute an instruction *)
(* of an accepted body, the validator did not hold the place unreachable,  *)
(* the operand stack is the one the validator had there, no value more or  *)
(* less or of another type, and each block that is being executed is one   *)
(* the validator had open, at the same height.  An end is also reached by  *)
(* skipping what is before it, and then has the block's results all the    *)
(* same.                                                                   *)
Labelled(l, f) ==
  /\ l.base = f.height
  /\ l.arity = Len(IF f.opcode = "loop" THEN f.start_types ELSE f.end_types)
  /\ (l.again # 0) <=> (f.opcode = "loop")
Agreement ==
  outcome = "running" /\ branch = -1 =>
    /\ pc \in DOMAIN body
    /\ LET at == trace[pc]
           f == at.ctrls[Len(at.ctrls)]
       IN  /\ Len(labels) = Len(at.ctrls)
           /\ \A i \in DOMAIN labels : Labelled(labels[i], at.ctrls[i])
           /\ IF ins.op = "end"
              THEN stack = SubSeq(at.vals, 1, f.height) \o f.end_types
              ELSE stack = at.vals /\ ~f.unreachable

(* The machine, which checks nothing, never pops an empty stack, and what  *)
(* a call returns is exactly the function's results, whether it came to    *)
(* the end of the body, returned or branched out of it.                    *)
ReturnsAsTyped ==
  /\ outcome # "crashed"
  /\ outcome = "returned" =>
       Len(stack) >= Len(FuncResults) /\ Top(Len(FuncResults)) = FuncResults

(* A validated body runs as it was validated, at every instruction and at  *)
(* its end.                                                                *)
RunsAsValidated == Agreement /\ ReturnsAsTyped

=============================================================================
