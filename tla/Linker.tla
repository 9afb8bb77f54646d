------------------------------- MODULE Linker -------------------------------
(***************************************************************************)
(* interp5/machine.py: Store, import resolution and matching, instantiate, *)
(* invoke and the calls between instances.  Instances share memories,      *)
(* tables, global cells and functions: an import is the exporter's object, *)
(* not a copy.  An object is named by its place in mems, tabs or cells; a  *)
(* function by the instance that defines it and its index there.           *)
(*                                                                         *)
(* Abstracted: an export's name is its position; a memory has one cell per *)
(* page (module LazyMemory is the real one), which holds the instance that *)
(* wrote it last; of a function body only the instructions that touch a    *)
(* shared object or call are left, in program order; the spectest host     *)
(* module, whose objects are fresh at every lookup, is left out.           *)
(***************************************************************************)
EXTENDS Naturals, Sequences, FiniteSets

CONSTANTS Aliases,
          FuncTypes,  \* types of functions
          Modules,    \* decoded and validated modules
          NoMax,      \* limits without a maximum
          MaxPages,   \* MAX_PAGES
          FrameCap,   \* FRAME_CAP
          MaxInst     \* bound: instances allocated in one file

Null == [inst |-> 0, idx |-> 0]
Idle == [at |-> "idle", inst |-> 0, k |-> 0]

VARIABLES
  insts,       \* the instances, in the order they were allocated
  mems, tabs, cells,  \* Memory, Table and GlobalCell objects
  registered,  \* Store.registered, 0 where the alias has no entry
  live,        \* instances that instantiate has returned
  job,         \* what is under way: a segment or start of instantiate, invoke
  frames,      \* the wasm call frames; their number is _Ctx.depth
  outcome      \* how the last instantiate or invoke ended

heap == <<mems, tabs, cells>>
vars == <<insts, heap, registered, live, job, frames, outcome>>

IsIdle == job = Idle

----------------------------------------------------------------------------
(* A decoded module; functions, tables, memories and globals are counted   *)
(* from 1, and a module without a start function has 0.                    *)
Kinds == {"func", "table", "memory", "global"}
Limit == [min : Nat, max : Nat \cup {NoMax}]
Import ==
  [from : Aliases, field : Nat, kind : {"func"}, type : FuncTypes]
  \cup [from : Aliases, field : Nat, kind : {"table", "memory"}, type : Limit]
  \cup [from : Aliases, field : Nat, kind : {"global"}, type : BOOLEAN]
ConstExpr == [op : {"const"}, v : Nat] \cup [op : {"global.get"}, idx : Nat]
Instr ==
  [op : {"grow"}, by : Nat] \cup [op : {"store"}, at : Nat]
  \cup [op : {"global.set"}, idx : Nat, v : Nat] \cup [op : {"call"}, f : Nat]
  \cup [op : {"call_indirect"}, slot : Nat, type : FuncTypes]
  \cup [op : {"unreachable"}]
Module ==
  [imports : Seq(Import), tables : Seq(Limit), mems : Seq(Limit),
   globals : Seq([mut : BOOLEAN, init : ConstExpr]),
   funcs : Seq([type : FuncTypes, body : Seq(Instr)]),
   exports : Seq([kind : Kinds, idx : Nat]),
   elems : Seq([off : ConstExpr, idxs : Seq(Nat)]),
   datas : Seq([off : ConstExpr, len : Nat]), start : Nat]

(* Module.imported: the imports of one kind, in order.                     *)
Places(m, kind) == {i \in DOMAIN m.imports : m.imports[i].kind = kind}
Nth(S, n) == CHOOSE i \in S : Cardinality({j \in S : j < i}) = n - 1
Imports(m, kind) ==
  [n \in 1..Cardinality(Places(m, kind)) |-> m.imports[Nth(Places(m, kind), n)]]

(* The index spaces: imports first, then definitions.                      *)
Size(m, kind) ==
  Len(Imports(m, kind)) + (CASE kind = "func" -> Len(m.funcs)
                             [] kind = "table" -> Len(m.tables)
                             [] kind = "memory" -> Len(m.mems)
                             [] kind = "global" -> Len(m.globals))
Mutable(m, n) ==
  LET ims == Imports(m, "global")
  IN  IF n <= Len(ims) THEN ims[n].type ELSE m.globals[n - Len(ims)].mut

(* What validate_module has made sure of (module Module5): indices are in  *)
(* range, constants are read from imported immutable globals, only mutable *)
(* globals are set, and a maximum is no less than its minimum.             *)
Sound(lim) == lim.max # NoMax => lim.min <= lim.max
ConstOK(m, e) ==
  e.op = "global.get" =>
    e.idx \in 1..Len(Imports(m, "global")) /\ ~Mutable(m, e.idx)
InstrOK(m, i) ==
  /\ i.op \in {"grow", "store"} => Size(m, "memory") > 0
  /\ i.op = "global.set" => i.idx \in 1..Size(m, "global") /\ Mutable(m, i.idx)
  /\ i.op = "call" => i.f \in 1..Size(m, "func")
  /\ i.op = "call_indirect" => Size(m, "table") > 0
Validated(m) ==
  /\ \A e \in DOMAIN m.exports : m.exports[e].idx \in 1..Size(m, m.exports[e].kind)
  /\ \A i \in DOMAIN m.imports :
       m.imports[i].kind \in {"table", "memory"} => Sound(m.imports[i].type)
  /\ \A k \in DOMAIN m.tables : Sound(m.tables[k])
  /\ \A k \in DOMAIN m.mems : Sound(m.mems[k]) /\ m.mems[k].min <= MaxPages
                              /\ (m.mems[k].max # NoMax => m.mems[k].max <= MaxPages)
  /\ \A g \in DOMAIN m.globals : ConstOK(m, m.globals[g].init)
  /\ \A f \in DOMAIN m.funcs :
       \A k \in DOMAIN m.funcs[f].body : InstrOK(m, m.funcs[f].body[k])
  /\ \A k \in DOMAIN m.elems :
       /\ Size(m, "table") > 0 /\ ConstOK(m, m.elems[k].off)
       /\ \A j \in DOMAIN m.elems[k].idxs : m.elems[k].idxs[j] \in 1..Size(m, "func")
  /\ \A k \in DOMAIN m.datas : Size(m, "memory") > 0 /\ ConstOK(m, m.datas[k].off)
  /\ m.start \in 0..Size(m, "func")

ASSUME LinkerAssumption ==
  /\ MaxPages \in Nat /\ FrameCap \in Nat \ {0} /\ MaxInst \in Nat /\ NoMax \notin Nat
  /\ Modules \subseteq Module
  /\ \A m \in Modules : Validated(m)

----------------------------------------------------------------------------
Exports(i) == insts[i].module.exports
Exported(i, e) == insts[i][Exports(i)[e].kind][Exports(i)[e].idx]

(* Store.resolve: the alias is registered, and its instance exports the    *)
(* name, with the kind asked for.                                          *)
Resolves(im) ==
  LET i == registered[im.from]
  IN  /\ i # 0
      /\ im.field \in DOMAIN Exports(i)
      /\ Exports(i)[im.field].kind = im.kind
Object(im) == Exported(registered[im.from], im.field)

Defined(f) == insts[f.inst].module.funcs[f.idx]

\* Mutant: an export without a maximum matches any declared one.
LimitsMatch_lax(size, max, lim) ==
  size >= lim.min /\ (lim.max = NoMax \/ max = NoMax \/ max <= lim.max)

(* _limits_match, with the current size as the actual minimum.             *)
LimitsMatch(size, max, lim) ==
  size >= lim.min /\ (lim.max = NoMax \/ (max # NoMax /\ max <= lim.max))

LimitsFit(im, o) ==
  \/ im.kind = "table" /\ LimitsMatch(Len(tabs[o].entries), tabs[o].max, im.type)
  \/ im.kind = "memory" /\ LimitsMatch(Len(mems[o].data), mems[o].max, im.type)

\* Mutant: a global is matched whatever its mutability.
TypeMatches_no_mut(im, o) ==
  \/ im.kind = "func" /\ Defined(o).type = im.type
  \/ LimitsFit(im, o)
  \/ im.kind = "global"

(* _check_import_type                                                      *)
TypeMatches(im, o) ==
  \/ im.kind = "func" /\ Defined(o).type = im.type
  \/ LimitsFit(im, o)
  \/ im.kind = "global" /\ cells[o].mut = im.type

Links(im) == Resolves(im) /\ TypeMatches(im, Object(im))

\* The objects of one index space: the imported ones, then n defined ones,
\* which are the next ones of their kind.
Space(m, kind, fresh) ==
  LET ims == Imports(m, kind)
  IN  [i \in 1..Len(ims) |-> Object(ims[i])] \o fresh
Fresh(objects, n) == [i \in 1..n |-> Len(objects) + i]

Const(e, space, values) ==
  IF e.op = "const" THEN e.v ELSE values[space[e.idx]].value

\* The first import that does not link decides how instantiate fails:
\* LinkError or IncompatibleImport.
LinkFailure(m) ==
  LET bad == {i \in DOMAIN m.imports : ~Links(m.imports[i])}
      first == CHOOSE i \in bad : \A j \in bad : i <= j
  IN  IF Resolves(m.imports[first]) THEN "incompatible" ELSE "unresolved"

(* What a module that links allocates: its Instance, and the tables,       *)
(* memories and globals it defines.                                        *)
Globals(m) == Space(m, "global", Fresh(cells, Len(m.globals)))
NewInstance(m) ==
  [module |-> m,
   func   |-> Space(m, "func",
                [k \in DOMAIN m.funcs |-> [inst |-> Len(insts) + 1, idx |-> k]]),
   table  |-> Space(m, "table", Fresh(tabs, Len(m.tables))),
   memory |-> Space(m, "memory", Fresh(mems, Len(m.mems))),
   global |-> Globals(m)]
NewTables(m) ==
  [k \in DOMAIN m.tables |-> [entries |-> [e \in 1..m.tables[k].min |-> Null],
                              max |-> m.tables[k].max]]
NewMemories(m) ==
  [k \in DOMAIN m.mems |-> [data |-> [p \in 1..m.mems[k].min |-> 0],
                            max |-> m.mems[k].max]]
NewCells(m) ==
  [k \in DOMAIN m.globals |-> [mut |-> m.globals[k].mut,
                               value |-> Const(m.globals[k].init, Globals(m), cells)]]

(* instantiate, up to its segments: every import is resolved and matched   *)
(* before anything is allocated.                                           *)
Instantiate(m) ==
  /\ IsIdle /\ Len(insts) < MaxInst
  /\ IF \A i \in DOMAIN m.imports : Links(m.imports[i])
     THEN /\ insts' = Append(insts, NewInstance(m))
          /\ tabs' = tabs \o NewTables(m)
          /\ mems' = mems \o NewMemories(m)
          /\ cells' = cells \o NewCells(m)
          /\ job' = [at |-> "elem", inst |-> Len(insts) + 1, k |-> 1]
          /\ outcome' = "running"
     ELSE outcome' = LinkFailure(m) /\ UNCHANGED <<insts, heap, job>>
  /\ UNCHANGED <<registered, live, frames>>

This == insts[job.inst]
Offset(seg) == Const(seg.off, This.global, cells)
Ends(how) == job' = Idle /\ outcome' = how
Continue(at, k) == job' = [job EXCEPT !.at = at, !.k = k] /\ UNCHANGED outcome

\* Mutant: the entries that fit are written before the trap.
ElemSegment_clipped ==
  /\ job.at = "elem"
  /\ IF job.k > Len(This.module.elems)
     THEN Continue("data", 1) /\ UNCHANGED tabs
     ELSE LET seg == This.module.elems[job.k]
              t == This.table[1]
              old == tabs[t].entries
              off == Offset(seg)
          IN  /\ tabs' = [tabs EXCEPT ![t].entries = [e \in DOMAIN old |->
                   IF e - 1 \in off..(off + Len(seg.idxs) - 1)
                   THEN This.func[seg.idxs[e - off]] ELSE old[e]]]
              /\ IF off + Len(seg.idxs) > Len(old)
                 THEN Ends("trapped") ELSE Continue("elem", job.k + 1)
  /\ UNCHANGED <<insts, mems, cells, registered, live, frames>>

(* The next active element segment, bounds-checked as a whole.             *)
ElemSegment ==
  /\ job.at = "elem"
  /\ IF job.k > Len(This.module.elems)
     THEN Continue("data", 1) /\ UNCHANGED tabs
     ELSE LET seg == This.module.elems[job.k]
              t == This.table[1]
              old == tabs[t].entries
              off == Offset(seg)
          IN  IF off + Len(seg.idxs) > Len(old)
              THEN Ends("trapped") /\ UNCHANGED tabs
              ELSE /\ tabs' = [tabs EXCEPT ![t].entries = [e \in DOMAIN old |->
                        IF e - 1 \in off..(off + Len(seg.idxs) - 1)
                        THEN This.func[seg.idxs[e - off]] ELSE old[e]]]
                   /\ Continue("elem", job.k + 1)
  /\ UNCHANGED <<insts, mems, cells, registered, live, frames>>

(* The next active data segment: Memory.write.                             *)
DataSegment ==
  /\ job.at = "data"
  /\ IF job.k > Len(This.module.datas)
     THEN Continue("start", 1) /\ UNCHANGED mems
     ELSE LET seg == This.module.datas[job.k]
              o == This.memory[1]
              old == mems[o].data
              off == Offset(seg)
          IN  IF off + seg.len > Len(old)
              THEN Ends("trapped") /\ UNCHANGED mems
              ELSE /\ mems' = [mems EXCEPT ![o].data = [p \in DOMAIN old |->
                        IF p - 1 \in off..(off + seg.len - 1)
                        THEN job.inst ELSE old[p]]]
                   /\ Continue("data", job.k + 1)
  /\ UNCHANGED <<insts, tabs, cells, registered, live, frames>>

Frame(f, want) == [fn |-> f, pc |-> 1, want |-> want]

(* The start function runs in a context of its own; without one,           *)
(* instantiate returns.                                                    *)
Start ==
  /\ job.at = "start"
  /\ IF This.module.start = 0
     THEN Ends("returned") /\ live' = live \cup {job.inst} /\ UNCHANGED frames
     ELSE LET f == This.func[This.module.start]
          IN  /\ frames' = <<Frame(f, Defined(f).type)>>
              /\ Continue("started", 1) /\ UNCHANGED live
  /\ UNCHANGED <<insts, heap, registered>>

(* cmd_register on an instance a script can still name.                    *)
Register(i, a) ==
  /\ IsIdle
  /\ registered' = [registered EXCEPT ![a] = i]
  /\ UNCHANGED <<insts, heap, live, job, frames, outcome>>

(* cmd_register on a name with no live instance: a former entry goes.      *)
Unregister(a) ==
  /\ IsIdle /\ registered[a] # 0
  /\ registered' = [registered EXCEPT ![a] = 0]
  /\ UNCHANGED <<insts, heap, live, job, frames, outcome>>

(* invoke: a function the instance exports, its own or not.                *)
Invoke(i, e) ==
  /\ IsIdle
  /\ Exports(i)[e].kind = "func"
  /\ LET f == Exported(i, e)
     IN  frames' = <<Frame(f, Defined(f).type)>>
  /\ job' = [at |-> "invoke", inst |-> i, k |-> e]
  /\ outcome' = "running"
  /\ UNCHANGED <<insts, heap, registered, live>>

----------------------------------------------------------------------------
(* The frame on top and its next instruction.  A function body runs        *)
(* against the instance that defines it, whoever calls it.                 *)
top == frames[Len(frames)]
\* Mutant: a body runs against the instance that was invoked.
home_invoked == insts[job.inst]
home == insts[top.fn.inst]
body == Defined(top.fn).body
ins == body[top.pc]
Running(op) == /\ frames # <<>> /\ top.pc <= Len(body)
               /\ ins.op = op

NextPc == [frames EXCEPT ![Len(frames)].pc = @ + 1]
Proceed == frames' = NextPc /\ UNCHANGED <<job, outcome>>
\* A trap leaves every frame; what was done before it stays done.
TrapExec == frames' = <<>> /\ Ends("trapped")

\* Mutant: no cap of the memory's own.
Grow_uncapped ==
  /\ Running("grow")
  /\ LET o == home.memory[1]
     IN  IF Len(mems[o].data) + ins.by > MaxPages
         THEN UNCHANGED mems
         ELSE mems' = [mems EXCEPT ![o].data =
                         @ \o [p \in 1..ins.by |-> 0]]
  /\ Proceed
  /\ UNCHANGED <<insts, tabs, cells, registered, live>>

(* memory.grow: yields -1 beyond the cap, never traps.                     *)
Grow ==
  /\ Running("grow")
  /\ LET o == home.memory[1]
         cap == IF mems[o].max = NoMax THEN MaxPages ELSE mems[o].max
     IN  IF Len(mems[o].data) + ins.by > cap
         THEN UNCHANGED mems
         ELSE mems' = [mems EXCEPT ![o].data = @ \o [p \in 1..ins.by |-> 0]]
  /\ Proceed
  /\ UNCHANGED <<insts, tabs, cells, registered, live>>

(* A store beyond the memory traps: Memory.write.                          *)
MemStore ==
  /\ Running("store")
  /\ LET o == home.memory[1]
     IN  IF ins.at >= Len(mems[o].data)
         THEN TrapExec /\ UNCHANGED mems
         ELSE mems' = [mems EXCEPT ![o].data[ins.at + 1] = top.fn.inst] /\ Proceed
  /\ UNCHANGED <<insts, tabs, cells, registered, live>>

GlobalSet ==
  /\ Running("global.set")
  /\ cells' = [cells EXCEPT ![home.global[ins.idx]].value = ins.v]
  /\ Proceed
  /\ UNCHANGED <<insts, tabs, mems, registered, live>>

Unreachable ==
  /\ Running("unreachable")
  /\ TrapExec
  /\ UNCHANGED <<insts, heap, registered, live>>

\* Mutant: a call takes over its caller's frame.
Enter_reuses(f, want) ==
  frames' = [frames EXCEPT ![Len(frames)] = Frame(f, want)]
  /\ UNCHANGED <<job, outcome>>

\* Mutant: one frame too many.
Enter_late(f, want) ==
  IF Len(frames) > FrameCap THEN TrapExec
  ELSE frames' = Append(NextPc, Frame(f, want)) /\ UNCHANGED <<job, outcome>>

(* _call: "call stack exhausted" when the frames are at the cap.           *)
Enter(f, want) ==
  IF Len(frames) >= FrameCap THEN TrapExec
  ELSE frames' = Append(NextPc, Frame(f, want)) /\ UNCHANGED <<job, outcome>>

\* The type the validator assumed of a function: its own, or its import's.
Assumed(i, n) ==
  LET m == insts[i].module
      ims == Imports(m, "func")
  IN  IF n <= Len(ims) THEN ims[n].type ELSE m.funcs[n - Len(ims)].type

Call ==
  /\ Running("call")
  /\ Enter(home.func[ins.f], Assumed(top.fn.inst, ins.f))
  /\ UNCHANGED <<insts, heap, registered, live>>

\* Mutant: the type of the entry is not compared.
CallIndirect_unchecked ==
  /\ Running("call_indirect")
  /\ LET entries == tabs[home.table[1]].entries
     IN  IF ins.slot >= Len(entries) THEN TrapExec
         ELSE LET f == entries[ins.slot + 1]
              IN  IF f = Null THEN TrapExec ELSE Enter(f, ins.type)
  /\ UNCHANGED <<insts, heap, registered, live>>

(* call_indirect: "undefined element", "uninitialized element" and         *)
(* "indirect call type mismatch", in this order.                           *)
CallIndirect ==
  /\ Running("call_indirect")
  /\ LET entries == tabs[home.table[1]].entries
     IN  IF ins.slot >= Len(entries) THEN TrapExec
         ELSE LET f == entries[ins.slot + 1]
              IN  IF f = Null \/ Defined(f).type # ins.type THEN TrapExec
                  ELSE Enter(f, ins.type)
  /\ UNCHANGED <<insts, heap, registered, live>>

(* The end of a body.  When it was the last frame, invoke or instantiate   *)
(* returns.                                                                *)
Return ==
  /\ frames # <<>> /\ top.pc > Len(body)
  /\ frames' = SubSeq(frames, 1, Len(frames) - 1)
  /\ IF Len(frames) > 1 THEN UNCHANGED <<job, outcome, live>>
     ELSE /\ Ends("returned")
          /\ live' = IF job.at = "started" THEN live \cup {job.inst} ELSE live
  /\ UNCHANGED <<insts, heap, registered>>

Step == \/ ElemSegment \/ DataSegment \/ Start
        \/ Grow \/ MemStore \/ GlobalSet \/ Unreachable
        \/ Call \/ CallIndirect \/ Return

Init ==
  /\ insts = <<>> /\ mems = <<>> /\ tabs = <<>> /\ cells = <<>>
  /\ registered = [a \in Aliases |-> 0] /\ live = {}
  /\ job = Idle /\ frames = <<>> /\ outcome = "none"

Next ==
  \/ \E m \in Modules : Instantiate(m)
  \/ \E i \in live, a \in Aliases : Register(i, a)
  \/ \E a \in Aliases : Unregister(a)
  \/ \E i \in live : \E e \in DOMAIN Exports(i) : Invoke(i, e)
  \/ Step

Spec == Init /\ [][Next]_vars
FairSpec == Spec /\ WF_vars(Step)

----------------------------------------------------------------------------
(* Index spaces are as long as the module says and name objects there are; *)
(* wasm runs only within a start or an invoke, and within the frame cap.   *)
FuncRef == [inst : Nat, idx : Nat]
IsFunc(f) == f.inst \in DOMAIN insts /\ f.idx \in DOMAIN insts[f.inst].module.funcs

HeapOK ==
  /\ mems \in Seq([data : Seq(Nat), max : Nat \cup {NoMax}])
  /\ tabs \in Seq([entries : Seq(FuncRef), max : Nat \cup {NoMax}])
  /\ cells \in Seq([mut : BOOLEAN, value : Nat])
  /\ \A t \in DOMAIN tabs : \A e \in DOMAIN tabs[t].entries :
       tabs[t].entries[e] = Null \/ IsFunc(tabs[t].entries[e])

InstancesOK ==
  /\ insts \in Seq([module : Modules, func : Seq(FuncRef), table : Seq(Nat),
                    memory : Seq(Nat), global : Seq(Nat)])
  /\ Len(insts) <= MaxInst
  /\ \A i \in DOMAIN insts :
       /\ \A kind \in Kinds : Len(insts[i][kind]) = Size(insts[i].module, kind)
       /\ \A n \in DOMAIN insts[i].func : IsFunc(insts[i].func[n]) /\ insts[i].func[n].inst <= i
       /\ \A n \in DOMAIN insts[i].table : insts[i].table[n] \in DOMAIN tabs
       /\ \A n \in DOMAIN insts[i].memory : insts[i].memory[n] \in DOMAIN mems
       /\ \A n \in DOMAIN insts[i].global : insts[i].global[n] \in DOMAIN cells

ControlOK ==
  /\ live \subseteq DOMAIN insts /\ registered \in [Aliases -> live \cup {0}]
  /\ job \in [at : {"idle", "elem", "data", "start", "started", "invoke"}, inst : Nat, k : Nat]
  /\ job = Idle \/ (job.at # "idle" /\ job.inst \in DOMAIN insts /\ job.k > 0)
  /\ outcome \in {"none", "running", "returned", "trapped", "unresolved", "incompatible"}
  /\ frames \in Seq([fn : FuncRef, pc : Nat \ {0}, want : FuncTypes])
  /\ frames # <<>> <=> job.at \in {"started", "invoke"}
  /\ \A n \in DOMAIN frames : IsFunc(frames[n].fn)
  /\ Len(frames) <= FrameCap

TypeOK == HeapOK /\ InstancesOK /\ ControlOK

(* What a module declared of an imported memory or table stays true of it, *)
(* however the exporter, or another importer, grows it later: its size is  *)
(* within the declared limits.                                             *)
Within(size, lim) == lim.min <= size /\ (lim.max = NoMax \/ size <= lim.max)
DeclaredLimits ==
  \A i \in DOMAIN insts :
    LET m == insts[i].module
        ms == Imports(m, "memory") ts == Imports(m, "table")
    IN  /\ \A n \in DOMAIN ms :
             Within(Len(mems[insts[i].memory[n]].data), ms[n].type)
        /\ \A n \in DOMAIN ts :
             Within(Len(tabs[insts[i].table[n]].entries), ts[n].type)

(* A function is only ever entered at the type its call site was validated *)
(* against, through an import, a table entry of another instance or not.   *)
CalledAsTyped ==
  \A n \in DOMAIN frames : Defined(frames[n].fn).type = frames[n].want

(* The value of an immutable global never changes, so that an offset or    *)
(* initial value computed from it stays what a later module would compute. *)
ConstantsStay ==
  [][\A c \in DOMAIN cells : ~cells[c].mut => cells'[c] = cells[c]]_vars

(* A step that traps writes nothing, and what earlier segments and         *)
(* instructions wrote is kept: nothing is rolled back.                     *)
TrapsWriteNothing ==
  [][outcome' = "trapped" /\ outcome # "trapped" => UNCHANGED heap]_vars

(* A memory, table or global changes only while a function that its        *)
(* defining module gave it to is on top, or its segment is being applied.  *)
Reaches(i, kind, o) == \E n \in DOMAIN insts[i][kind] : insts[i][kind][n] = o
Actor == IF frames = <<>> THEN job.inst ELSE top.fn.inst
Confined ==
  [][/\ \A o \in DOMAIN mems : mems'[o] # mems[o] => Reaches(Actor, "memory", o)
     /\ \A o \in DOMAIN tabs : tabs'[o] # tabs[o] => Reaches(Actor, "table", o)
     /\ \A o \in DOMAIN cells : cells'[o] # cells[o] => Reaches(Actor, "global", o)]_vars

(* Every instantiate and every invoke ends, mutual recursion through       *)
(* shared tables included: the frame cap sees to it.                       *)
CallsEnd == job # Idle ~> job = Idle
=============================================================================
