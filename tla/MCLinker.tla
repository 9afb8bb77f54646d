------------------------------ MODULE MCLinker ------------------------------
EXTENDS Linker
CONSTANT a

Limits(min, max) == [min |-> min, max |-> max]
Export(kind, idx) == [kind |-> kind, idx |-> idx]
From(kind, field, type) ==
  [from |-> a, field |-> field, kind |-> kind, type |-> type]
C(v) == [op |-> "const", v |-> v]
G(i) == [op |-> "global.get", idx |-> i]
Icall(slot, type) == [op |-> "call_indirect", slot |-> slot, type |-> type]
DoCall(f) == [op |-> "call", f |-> f]
DoGrow(n) == [op |-> "grow", by |-> n]
DoStore(p) == [op |-> "store", at |-> p]
DoSet(i, v) == [op |-> "global.set", idx |-> i, v |-> v]
Func(type, code) == [type |-> type, body |-> code]

Empty == [imports |-> <<>>, tables |-> <<>>, mems |-> <<>>, globals |-> <<>>,
          funcs |-> <<>>, exports |-> <<>>, elems |-> <<>>, datas |-> <<>>, start |-> 0]

\* A memory, a table with its first function in slot 0, a constant and a
\* variable; exports 1 to 5 of every provider are these in this order.
Provider(max) ==
  [Empty EXCEPT
     !.mems = <<Limits(1, max)>>, !.tables = <<Limits(2, NoMax)>>,
     !.globals = <<[mut |-> FALSE, init |-> C(1)], [mut |-> TRUE, init |-> C(0)]>>,
     !.funcs = <<Func("A", <<DoGrow(1)>>), Func("B", <<DoSet(2, 1), DoStore(2), DoCall(1), Icall(2, "A")>>)>>,
     !.elems = <<[off |-> C(0), idxs |-> <<1>>]>>,
     !.exports = <<Export("memory", 1), Export("table", 1), Export("global", 1),
                   Export("global", 2), Export("func", 1), Export("func", 2)>>]

\* Shares the provider's objects and exports its memory on; puts a function
\* of its own in the slot the shared constant says; its second data segment
\* fits only a grown memory; starts through the table.
Consumer ==
  [Empty EXCEPT
     !.imports = <<From("memory", 1, Limits(1, 2)),
                   From("table", 2, Limits(1, NoMax)),
                   From("global", 3, FALSE)>>,
     !.funcs = <<Func("A", <<Icall(0, "A"), DoStore(1)>>)>>,
     !.elems = <<[off |-> G(1), idxs |-> <<1>>]>>,
     !.datas = <<[off |-> C(0), len |-> 1], [off |-> G(1), len |-> 1]>>,
     !.exports = <<Export("memory", 1), Export("func", 1)>>,
     !.start = 1]

\* Calls itself through the shared table, and has a memory of its own.
Recursive ==
  [Empty EXCEPT
     !.imports = <<From("table", 2, Limits(2, NoMax)), From("func", 5, "A"),
                   From("global", 4, TRUE)>>,
     !.mems = <<Limits(1, 2)>>,
     !.funcs = <<Func("A", <<DoSet(1, 2), Icall(1, "A"), DoCall(1)>>)>>,
     !.elems = <<[off |-> C(1), idxs |-> <<2>>]>>,
     !.exports = <<Export("func", 2), Export("func", 1)>>]

\* Its last element segment is too long: the functions the first two put in
\* the table stay there, though the instance is never handed out.
Overlong ==
  [Empty EXCEPT
     !.imports = <<From("table", 2, Limits(1, NoMax))>>,
     !.funcs = <<Func("A", <<[op |-> "unreachable"]>>), Func("B", <<>>)>>,
     !.elems = <<[off |-> C(0), idxs |-> <<1>>], [off |-> C(1), idxs |-> <<2>>],
                 [off |-> C(1), idxs |-> <<1, 1>>]>>]

\* Takes the provider's constant for a variable: it does not link.
Setter ==
  [Empty EXCEPT
     !.imports = <<From("global", 3, TRUE)>>,
     !.funcs = <<Func("A", <<DoSet(1, 0)>>)>>,
     !.exports = <<Export("func", 1)>>]

MCAliases == {a}
MCFuncTypes == {"A", "B"}
MCModules == {Provider(2), Provider(NoMax), Consumer, Recursive, Overlong, Setter}
=============================================================================
