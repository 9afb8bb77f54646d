------------------------------ MODULE Machine1 ------------------------------
(***************************************************************************)
(* interp/machine.py, the frozen machine's structured control: _structure  *)
(* and _parse_seq, which turn the flat body into a tree, and _exec_seq,    *)
(* _exec_block and _do_br, which walk it.  It is one function from a body  *)
(* and the conditions met to what invoke returns.                          *)
(*                                                                         *)
(* The two engines take the same body, instruction by instruction: both    *)
(* validators judge it (module Validator1), Machine5 steps through it and  *)
(* writes down here which way it went at each condition and table, and the *)
(* frozen machine is run with the same answers.  The recursion over trees  *)
(* keeps this module to model checking.                                    *)
(***************************************************************************)
EXTENDS Machine5, Validator1

CONSTANTS MaxChoices,  \* bound: conditions met in one call
          MaxAgain     \* bound: re-entries of a loop in the frozen machine

VARIABLE choices       \* history: the operands of if, br_if and br_table

----------------------------------------------------------------------------
(* A node of the tree: an instruction or a block, and where it begins.     *)
Leaf(i) == [kind |-> "instr", at |-> i, then |-> <<>>, else |-> <<>>, owns |-> FALSE]
_Block(i, then, else, owns) ==
  [kind |-> body[i].op, at |-> i, then |-> then, else |-> else, owns |-> owns]

Parsed(seq, i, stop) == [seq |-> seq, i |-> i, stop |-> stop]

RECURSIVE _parse_seq(_, _)

\* Mutant: any else that follows belongs to this block, if its then-branch
\* was closed by its own end as well.
_parse_block_lookahead(i) ==
  LET then == _parse_seq(i + 1, <<>>)
      closed == then.stop = "end" /\ then.i <= Len(body) /\ body[then.i].op = "else"
      other == _parse_seq(then.i + 1, <<>>)
  IN  IF then.stop = "else" \/ closed
      THEN [block |-> _Block(i, then.seq, other.seq, TRUE), i |-> other.i, stop |-> other.stop]
      ELSE [block |-> _Block(i, then.seq, <<>>, FALSE), i |-> then.i, stop |-> then.stop]

(* An else belongs to this block only where the then-branch stopped at it. *)
_parse_block(i) ==
  LET then == _parse_seq(i + 1, <<>>)
      other == _parse_seq(then.i + 1, <<>>)
  IN  IF then.stop = "else"
      THEN [block |-> _Block(i, then.seq, other.seq, TRUE), i |-> other.i,
            stop |-> IF body[i].op # "if" THEN "unsupported" ELSE other.stop]
      ELSE [block |-> _Block(i, then.seq, <<>>, FALSE), i |-> then.i, stop |-> then.stop]

(* To the end that closes the sequence, which is consumed, or to an else,  *)
(* which is not.                                                           *)
_parse_seq(i, seq) ==
  IF i > Len(body) THEN Parsed(seq, i, "unsupported")
  ELSE IF body[i].op = "end" THEN Parsed(seq, i + 1, "end")
  ELSE IF body[i].op = "else" THEN Parsed(seq, i, "else")
  ELSE IF body[i].op \in Openers
  THEN LET b == _parse_block(i)
       IN  IF b.stop = "end" THEN _parse_seq(b.i, Append(seq, b.block))
           ELSE Parsed(seq, b.i, "unsupported")
  ELSE _parse_seq(i + 1, Append(seq, Leaf(i)))

_structure ==
  LET top == _parse_seq(1, <<>>)
  IN  IF top.stop = "end" /\ top.i = Len(body) + 1 THEN top ELSE [top EXCEPT !.stop = "unsupported"]

----------------------------------------------------------------------------
(* The state of a walk; "way" is how the sequence goes on: on, or the      *)
(* exception under way.                                                    *)
Walk(stk, tape, way, depth) == [stack |-> stk, tape |-> tape, way |-> way, depth |-> depth]
Raise(s, way) == [s EXCEPT !.way = way]
_Label(arity, base) == [branch_arity |-> arity, base |-> base]

Pop(s, n) == [s EXCEPT !.stack = SubSeq(@, 1, Len(@) - n)]
Answer(s) == Head(s.tape)
Answered(s) == [s EXCEPT !.tape = Tail(@)]
Lacks(s, n) == Len(s.stack) < n

(* _do_br: the label's operands are kept, the rest above its base is not.  *)
_do_br(depth, s, marks) ==
  LET target == marks[Len(marks) - depth]
      n == target.branch_arity
      kept == SubSeq(s.stack, Len(s.stack) - n + 1, Len(s.stack))
  IN  Walk(SubSeq(s.stack, 1, target.base) \o kept, s.tape, "branch", depth)

\* An instruction that pops a condition or an index.
Asks(s, Then(_)) ==
  IF Lacks(s, 1) THEN Raise(s, "IndexError")
  ELSE IF s.tape = <<>> THEN Raise(s, "cut")
  ELSE Then(Answered(Pop(s, 1)))

_exec_instr(i, s, marks) ==
  LET it == body[i]
      IfTaken(t) == IF Answer(s) # 0 THEN _do_br(it.label, t, marks) ELSE t
      Chosen(t) ==
        _do_br(IF Answer(s) < Len(it.targets) THEN it.targets[Answer(s) + 1] ELSE it.default, t, marks)
  IN  CASE it.op = "plain" ->
             IF Lacks(s, Len(it.type.params)) THEN Raise(s, "IndexError")
             ELSE [s EXCEPT !.stack = Pop(s, Len(it.type.params)).stack \o it.type.results]
        [] it.op = "drop" -> IF Lacks(s, 1) THEN Raise(s, "IndexError") ELSE Pop(s, 1)
        [] it.op = "return" -> Raise(s, "return")
        [] it.op = "br" -> _do_br(it.label, s, marks)
        [] it.op = "br_if" -> Asks(s, IfTaken)
        [] it.op = "br_table" -> Asks(s, Chosen)

RECURSIVE _exec_seq(_, _, _)

\* Mutant: a branch further out is raised again as it came.
Caught_no_count(r) == IF r.way = "branch" /\ r.depth = 0 THEN Raise(r, "on") ELSE r

(* except _Branch: the target is this block, or one further out.           *)
Caught(r) ==
  IF r.way # "branch" THEN r
  ELSE IF r.depth = 0 THEN Raise(r, "on") ELSE [r EXCEPT !.depth = @ - 1]

RECURSIVE Loop(_, _, _, _)
Loop(seq, s, marks, fuel) ==
  LET r == _exec_seq(seq, s, marks)
  IN  IF r.way = "branch" /\ r.depth = 0
      THEN IF fuel = 0 THEN Raise(r, "cut") ELSE Loop(seq, Raise(r, "on"), marks, fuel - 1)
      ELSE Caught(r)

_exec_block(b, s, marks) ==
  LET arity == Len(body[b.at].type.results)
      Branches(t) ==
        Caught(_exec_seq(IF Answer(s) # 0 THEN b.then ELSE b.else, t,
                         Append(marks, _Label(arity, Len(t.stack)))))
  IN  IF b.kind = "if" THEN Asks(s, Branches)
      ELSE IF b.kind = "loop"
      THEN Loop(b.then, s, Append(marks, _Label(0, Len(s.stack))), MaxAgain)
      ELSE Caught(_exec_seq(b.then, s, Append(marks, _Label(arity, Len(s.stack)))))

_exec_seq(seq, s, marks) ==
  IF seq = <<>> \/ s.way # "on" THEN s
  ELSE LET item == Head(seq)
       IN  _exec_seq(Tail(seq),
             IF item.kind = "instr" THEN _exec_instr(item.at, s, marks)
             ELSE _exec_block(item, s, marks), marks)

(* invoke, with arguments as locals: a return and a branch to the          *)
(* function's own label both end here.                                     *)
invoke(tape) ==
  LET n == Len(FuncResults)
      r == _exec_seq(_structure.seq, Walk(<<>>, tape, "on", 0), <<_Label(n, 0)>>)
  IN  IF r.way \in {"on", "return", "branch"}
      THEN Raise(r, IF Lacks(r, n) THEN "underflow" ELSE "returned") ELSE r

----------------------------------------------------------------------------
(* What the M5 machine popped at an if, a br_if or a br_table, told by     *)
(* where it went.                                                          *)
Choice ==
  IF ins.op = "if" THEN IF pc' = pc + 1 THEN 1 ELSE 0
  ELSE IF ins.op = "br_if" THEN IF branch' # -1 THEN 1 ELSE 0
  ELSE (CHOOSE i \in 1..(Len(ins.targets) + 1) : Append(ins.targets, ins.default)[i] = branch') - 1

Asking == outcome = "running" /\ branch = -1 /\ ins.op \in {"if", "br_if", "br_table"}

\* A body both engines take.
Shared == f_verdict = "accepted" /\ verdict = "accepted"

EnginesInit == Init /\ FInit /\ choices = <<>>

ValidateBoth ==
  /\ \/ BothFinish /\ UNCHANGED trace
     \/ \E i \in Instructions : Both(i) /\ Traced
  /\ UNCHANGED <<mvars, choices>>

Answers ==
  /\ Run
  /\ IF Shared /\ Asking THEN Len(choices) < MaxChoices /\ choices' = Append(choices, Choice)
     ELSE UNCHANGED choices
  /\ UNCHANGED fvars

EnginesNext == ValidateBoth \/ Answers
EnginesSpec == EnginesInit /\ [][EnginesNext]_<<vars, fvars, choices>>

----------------------------------------------------------------------------
(* The instructions of a tree in the order they were in the body.          *)
RECURSIVE Flat(_)
Flat(seq) ==
  IF seq = <<>> THEN <<>>
  ELSE LET b == Head(seq)
       IN  (IF b.kind = "instr" THEN <<body[b.at].op>>
            ELSE <<b.kind>> \o Flat(b.then) \o (IF b.owns THEN <<"else">> ELSE <<>>)
                 \o Flat(b.else) \o <<"end">>) \o Flat(Tail(seq))
RECURSIVE Blocks(_)
Blocks(seq) ==
  IF seq = <<>> THEN {}
  ELSE LET b == Head(seq)
       IN  (IF b.kind = "instr" THEN {} ELSE {b} \cup Blocks(b.then) \cup Blocks(b.else))
           \cup Blocks(Tail(seq))

(* The parser accepts every body the validator does, loses no instruction  *)
(* of it, and gives each if its own else: the tree, written out, is the    *)
(* body, and a block ends where the nesting of the flat body says.         *)
ParsesTheBody ==
  Shared =>
    /\ _structure.stop = "end"
    /\ Append(Flat(_structure.seq), "end") = [i \in DOMAIN body |-> body[i].op]
    /\ \A b \in Blocks(_structure.seq) :
         /\ b.owns <=> ElseOf(b.at) # 0
         /\ EndOf(b.at) = b.at + Len(Flat(b.then)) + Len(Flat(b.else)) + (IF b.owns THEN 2 ELSE 1)

(* The two machines run a body to the same operand stack under the same    *)
(* conditions: M5 changed nothing of what M2's control flow does.  On the  *)
(* way there, at every prefix of the conditions met, the frozen machine,   *)
(* whose list.pop() and last slice are unguarded, misses no operand.       *)
FrozenRunsTheSame ==
  Shared =>
    LET r == invoke(choices)
    IN  /\ r.way \in {"returned", "cut"}
        /\ outcome = "returned" =>
             r.way = "returned" /\ r.stack = stack /\ r.tape = <<>>
=============================================================================
