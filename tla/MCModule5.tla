----------------------------- MODULE MCModule5 -----------------------------
EXTENDS Module5

Type(ps, rs) == [params |-> ps, results |-> rs]
I32 == <<"i32">>
Lim(mn, mx) == [min |-> mn, max |-> mx]
Num(type) == [op |-> "const", type |-> type]
Get(g) == [op |-> "global.get", imm |-> g]
Glob(type, mut, init) == [valtype |-> type, mutable |-> mut, init |-> init]
Func(t, body) == [typeidx |-> t, locals |-> 0, body |-> body]
Op(op, imm) == [op |-> op, imm |-> imm]
Import(kind, desc) == [kind |-> kind, desc |-> desc]
GlobalType(type, mut) == [valtype |-> type, mutable |-> mut]
Export(name, kind, idx) == [name |-> name, kind |-> kind, idx |-> idx]
Seg(offset, idxs) == [offset |-> offset, funcidxs |-> idxs]

\* Imports and definitions in every index space.
Rich ==
  [types |-> <<Type(<<>>, <<>>), Type(I32, I32)>>,
   imports |-> <<Import("global", GlobalType("i32", FALSE)), Import("func", 1)>>,
   funcs |-> <<Func(0, <<Op("global.set", 1), Op("call", 0)>>)>>,
   tables |-> <<Lim(1, NoMax)>>, mems |-> <<Lim(0, 2)>>,
   globals |-> <<Glob("i32", TRUE, <<Get(0)>>)>>,
   elems |-> <<Seg(<<Num("i32")>>, <<0, 1>>)>>, datas |-> <<Seg(<<Get(0)>>, <<>>)>>,
   start |-> 1, exports |-> <<Export("a", "func", 1)>>]

\* On the frozen surface.
Plain ==
  [types |-> <<Type(<<>>, <<>>), Type(I32, I32)>>, imports |-> <<>>,
   funcs |-> <<Func(1, <<Op("local", 0)>>), Func(0, <<>>)>>,
   tables |-> <<>>, mems |-> <<Lim(1, 2)>>, globals |-> <<>>, elems |-> <<>>, datas |-> <<>>,
   start |-> NoStart, exports |-> <<Export("a", "func", 0), Export("b", "func", 1)>>]

\* One part of a module written otherwise.
Rewritten(m) ==
  {[m EXCEPT !.types = ts] : ts \in {<<Type(<<>>, <<>>)>>, <<Type(I32, I32), Type(I32, <<>>)>>, <<Type(<<>>, I32), Type(I32, I32)>>}}
  \cup {[m EXCEPT !.imports = ims] : ims \in
         {<<>>, <<Import("func", 2)>>, <<Import("func", 0)>>, <<Import("global", GlobalType("i32", TRUE))>>,
          <<Import("global", GlobalType("i64", FALSE)), Import("global", GlobalType("i32", FALSE))>>,
          <<Import("table", Lim(2, 1))>>, <<Import("memory", Lim(1, 3))>>}}
  \cup {[m EXCEPT !.funcs[1].typeidx = t] : t \in {1, 2}}
  \cup {[m EXCEPT !.funcs[1].body = <<ins>>] : ins \in
         [op : {"block", "call", "call_indirect", "local", "global.get", "global.set"}, imm : 0..2]
         \cup [op : {"store"}, align : {2, 3}] \cup {[op |-> "memory"]}}
  \cup {[m EXCEPT !.tables = ts] : ts \in {<<>>, <<Lim(2, 1)>>}}
  \cup {[m EXCEPT !.mems = ms] : ms \in {<<>>, <<Lim(3, NoMax)>>, <<Lim(2, 1)>>, <<Lim(1, 3)>>}}
  \cup {[m EXCEPT !.globals = gs] : gs \in
         {<<>>, <<Glob("i32", FALSE, <<>>)>>, <<Glob("i64", TRUE, <<Num("i32")>>)>>,
          <<Glob("i32", FALSE, <<Num("i32"), Num("i32")>>)>>,
          <<Glob("i32", FALSE, <<Get(2)>>), Glob("i32", FALSE, <<Num("i32")>>)>>,
          <<Glob("i32", FALSE, <<Num("i32")>>), Glob("i32", FALSE, <<Get(1)>>)>>}}
  \cup {[m EXCEPT !.elems = es] : es \in
         {<<Seg(<<Get(0)>>, <<>>)>>, <<Seg(<<Get(1)>>, <<>>)>>, <<Seg(<<Num("i64")>>, <<0>>)>>, <<Seg(<<Num("i32")>>, <<2>>)>>}}
  \cup {[m EXCEPT !.datas = ds] : ds \in {<<>>, <<Seg(<<Num("i32")>>, <<>>)>>, <<Seg(<<Get(2)>>, <<>>)>>}}
  \cup {[m EXCEPT !.start = f] : f \in {0, 1, 2, NoStart}}
  \cup {[m EXCEPT !.exports = <<Export("a", "func", 1), ex>>] : ex \in
         {Export("a", "func", 0)} \cup [name : {"b"}, kind : {"func", "table", "memory", "global"}, idx : 0..2]}

\* The decoder lets through one table and one memory, imports included.
Single(m, kind, defined) ==
  Len(defined) + Cardinality({i \in DOMAIN m.imports : m.imports[i].kind = kind}) <= 1
Decoded(m) == Single(m, "table", m.tables) /\ Single(m, "memory", m.mems)

AllModules ==
  LET once == UNION {Rewritten(m) : m \in {Rich, Plain}}
  IN  {m \in {Rich, Plain} \cup once \cup UNION {Rewritten(m) : m \in once} : Decoded(m)}

Cell(type, mut) == [kind |-> "global", valtype |-> type, mutable |-> mut,
                    value |-> [type |-> type, from |-> "init"]]
Supplied ==
  {[kind |-> "func", type |-> t] : t \in {Type(<<>>, <<>>), Type(I32, I32)}}
  \cup {Cell("i32", FALSE), Cell("i32", TRUE), Cell("i64", FALSE)}
  \cup {[kind |-> "table"], [kind |-> "memory"]}
=============================================================================
