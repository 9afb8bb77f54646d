----------------------------- MODULE MCEngines ------------------------------
EXTENDS Machine1

CONSTANT Short  \* bound: instructions in a body of any kind; longer ones are
                \* made of FewInstructions

Type(ps, rs) == [params |-> ps, results |-> rs]
PlainInstr(t) == [op |-> "plain", type |-> t]
Bare(op) == [op |-> op]
Br(op, d) == [op |-> op, label |-> d]
Table(ts, d) == [op |-> "br_table", targets |-> ts, default |-> d]
Produces(t) == Type(<<>>, <<t>>)
TwoTypes == {"i32", "i64"}
OneI32 == <<"i32">>

\* The frozen surface over one type: blocks with and without a result,
\* branches out of up to two blocks, tables of one target.
FewInstructions ==
  {PlainInstr(Produces("i32"))}
  \cup [op : {"block", "loop", "if"}, type : {Type(<<>>, <<>>)}]
  \cup [op : {"block", "if"}, type : {Produces("i32")}]
  \cup {Br(op, d) : op \in {"br", "br_if"}, d \in {0, 1}}
  \cup {Table(<<0>>, 1)}
  \cup {Bare(op) : op \in {"drop", "else", "end", "return"}}

\* A second type and a conversion; blocks that take, pass on or yield a
\* value; every other instruction.
AllInstructions ==
  FewInstructions
  \cup {PlainInstr(t) : t \in {Produces("i64"), Type(<<"i32">>, <<"i64">>), Type(<<>>, <<>>)}}
  \cup [op : {"block", "loop", "if"}, type : {Produces("i64"), Type(<<"i64">>, <<"i64">>)}]
  \cup {Table(<<0>>, 0), Bare("select"), Bare("unreachable")}

Few == \A i \in DOMAIN body' : body'[i] \in FewInstructions
ShortOrFew == Len(body') + Len(ctrls') > Short => Few
MCSpec == EnginesInit /\ [][EnginesNext /\ ShortOrFew]_<<vars, fvars, choices>>
=============================================================================
