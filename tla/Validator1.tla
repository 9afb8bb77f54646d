----------------------------- MODULE Validator1 -----------------------------
(***************************************************************************)
(* interp/validator.py, _FuncValidator: the frozen validator of M1-M4, in  *)
(* step with the M5 validator over the same body.  The two were written    *)
(* apart: this one has no wildcard type, no parameters on blocks, keeps    *)
(* the frame of an if through its else, compares the labels of a br_table  *)
(* before it pops anything, and compares the whole stack with the results  *)
(* at the end.                                                             *)
(*                                                                         *)
(* Instructions have the shape Validator5 gives them.  A nop is a plain    *)
(* instruction that takes and gives nothing; constants, locals, memory and *)
(* numeric instructions are plain with their types.  The frozen decoder    *)
(* turns away a body with an instruction it does not know.                 *)
(***************************************************************************)
EXTENDS Validator5

VARIABLES f_stack,    \* _FuncValidator.stack
          f_ctrls,    \* _FuncValidator.ctrls
          f_verdict   \* "validating", then "accepted" or "rejected", or
                      \* "unsupported": it never came to the validator

fvars == <<f_stack, f_ctrls, f_verdict>>

Control(k, outs, h) ==
  [kind |-> k, start_types |-> <<>>, end_types |-> outs, height |-> h,
   unreachable |-> FALSE, else_seen |-> FALSE]

----------------------------------------------------------------------------
_ctrl == f_ctrls[Len(f_ctrls)]
OuterFrames == SubSeq(f_ctrls, 1, Len(f_ctrls) - 1)
Above == Len(f_stack) - _ctrl.height          \* operands of the innermost frame

(* _pop_many: a missing operand is made up in unreachable code, one that   *)
(* is there must have the type.                                            *)
Pops(types) ==
  LET n == Len(types)
  IN  /\ n <= Above \/ _ctrl.unreachable
      /\ \A i \in 0..(n - 1) : i < Above => f_stack[Len(f_stack) - i] = types[n - i]

After(n) == SubSeq(f_stack, 1, IF n <= Above THEN Len(f_stack) - n ELSE _ctrl.height)

KnownLabel(d) == d < Len(f_ctrls)
_label_types(d) ==
  LET f == f_ctrls[Len(f_ctrls) - d]
  IN  IF f.kind = "loop" THEN f.start_types ELSE f.end_types

(* Nothing is left in the frame once its results are popped.               *)
Exactly(types) == Pops(types) /\ Above <= Len(types)

\* Mutant: an else is not required of an if with a result.
CanEnd_no_else == Exactly(_ctrl.end_types)

CanEnd ==
  /\ ~(_ctrl.kind = "if" /\ _ctrl.end_types # <<>> /\ ~_ctrl.else_seen)
  /\ Exactly(_ctrl.end_types)

CanElse == _ctrl.kind = "if" /\ ~_ctrl.else_seen /\ Exactly(_ctrl.end_types)

CanBranchTable(targets, default) ==
  LET all == Append(targets, default)
  IN  /\ \A i \in DOMAIN all : KnownLabel(all[i])
      /\ \A i \in DOMAIN all : _label_types(all[i]) = _label_types(default)
      /\ Pops(Append(_label_types(default), "i32"))

Passes(ins) ==
  /\ f_ctrls # <<>>
  /\ \/ ins.op = "plain" /\ Pops(ins.type.params)
     \/ ins.op = "drop" /\ (Above > 0 \/ _ctrl.unreachable)
     \/ ins.op \in {"block", "loop"}
     \/ ins.op = "if" /\ Pops(<<"i32">>)
     \/ ins.op = "else" /\ CanElse
     \/ ins.op = "end" /\ CanEnd
     \/ ins.op = "br" /\ KnownLabel(ins.label) /\ Pops(_label_types(ins.label))
     \/ ins.op = "br_if" /\ KnownLabel(ins.label)
                         /\ Pops(Append(_label_types(ins.label), "i32"))
     \/ ins.op = "br_table" /\ CanBranchTable(ins.targets, ins.default)
     \/ ins.op = "return" /\ Pops(f_ctrls[1].end_types)

----------------------------------------------------------------------------
_set(s, fs) == f_stack' = s /\ f_ctrls' = fs
\* The innermost frame, with its two flags assigned.
InnerFrame(unreachable, else_seen) ==
  Append(OuterFrames,
    [kind |-> _ctrl.kind, start_types |-> _ctrl.start_types, end_types |-> _ctrl.end_types,
     height |-> _ctrl.height, unreachable |-> unreachable, else_seen |-> else_seen])

_numeric(ins) ==
  ins.op = "plain" /\ _set(After(Len(ins.type.params)) \o ins.type.results, f_ctrls)

_drop(ins) == ins.op = "drop" /\ _set(After(1), f_ctrls)

_open(ins) ==
  /\ ins.op \in {"block", "loop", "if"}
  /\ LET s == IF ins.op = "if" THEN After(1) ELSE f_stack
     IN  _set(s, Append(f_ctrls, Control(ins.op, ins.type.results, Len(s))))

(* The frame stays; its operands go, and it is reachable again.            *)
_else(ins) ==
  /\ ins.op = "else"
  /\ _set(SubSeq(f_stack, 1, _ctrl.height),
        InnerFrame(FALSE, TRUE))

_end_frame(ins) ==
  /\ ins.op = "end"
  /\ _set(SubSeq(f_stack, 1, _ctrl.height) \o _ctrl.end_types, OuterFrames)

_branch_if(ins) ==
  /\ ins.op = "br_if"
  /\ LET types == _label_types(ins.label)
     IN  _set(After(Len(types) + 1) \o types, f_ctrls)

(* _branch, _branch_table, _return: the rest of the frame is unreachable.  *)
_unreachable(ins) ==
  /\ ins.op \in {"br", "br_table", "return"}
  /\ _set(SubSeq(f_stack, 1, _ctrl.height), InnerFrame(TRUE, _ctrl.else_seen))

_instr(ins) == \/ _numeric(ins) \/ _drop(ins) \/ _open(ins) \/ _else(ins)
               \/ _end_frame(ins) \/ _branch_if(ins) \/ _unreachable(ins)

(* The instructions of the frozen surface, in Validator5's shape.          *)
FrozenSurface(ins) ==
  /\ ins.op \notin {"select", "unreachable"}
  /\ ins.op \in {"block", "loop", "if"} => ins.type.params = <<>>

\* One instruction: a ValidationError is final.
Examine(ins) ==
  /\ f_verdict = "validating" /\ FrozenSurface(ins)
  /\ IF Passes(ins) THEN _instr(ins) /\ UNCHANGED f_verdict
     ELSE f_verdict' = "rejected" /\ UNCHANGED <<f_stack, f_ctrls>>

\* The end of validate().
Conclude ==
  /\ f_verdict = "validating"
  /\ f_verdict' = IF f_ctrls = <<>> /\ f_stack = FuncResults THEN "accepted" ELSE "rejected"
  /\ UNCHANGED <<f_stack, f_ctrls>>

\* Unsupported: the frozen engine has no part in this body.
TurnAway(ins) ==
  /\ f_verdict = "validating" /\ ~FrozenSurface(ins)
  /\ f_verdict' = "unsupported" /\ UNCHANGED <<f_stack, f_ctrls>>

Absent == f_verdict = "unsupported" /\ UNCHANGED fvars

FInit ==
  /\ f_stack = <<>> /\ f_verdict = "validating"
  /\ f_ctrls = <<Control("func", FuncResults, 0)>>

----------------------------------------------------------------------------
BothInit == VInit /\ FInit
Both(ins) == Check(ins) /\ (Examine(ins) \/ TurnAway(ins) \/ Absent)
BothFinish == Finish /\ (Conclude \/ Absent)
BothNext == BothFinish \/ \E ins \in Instructions : Both(ins)
bvars == <<vvars, fvars>>
BothSpec == BothInit /\ [][BothNext]_bvars

(* The frozen frame of an M5 frame: an if that has seen its else is still  *)
(* an if.                                                                  *)
Frozen(c) ==
  [kind |-> IF c.opcode = "else" THEN "if" ELSE c.opcode,
   start_types |-> c.start_types, end_types |-> c.end_types,
   height |-> c.height, unreachable |-> c.unreachable,
   else_seen |-> c.opcode = "else"]

(* The two validators keep the same stacks, frame by frame.                *)
SameStacks ==
  f_verdict # "unsupported" =>
    /\ f_stack = vals
    /\ f_ctrls = [i \in DOMAIN ctrls |-> Frozen(ctrls[i])]

(* The M5 validator judges every body on the frozen surface as the frozen  *)
(* one does, and at the same instruction: M5 moved no verdict of M1-M4.    *)
SameVerdict == f_verdict # "unsupported" => f_verdict = verdict

(* Two validators written apart are one on the frozen surface: the same    *)
(* stacks on the way, the same verdict at the end.                         *)
SameJudgement == SameStacks /\ SameVerdict
=============================================================================
