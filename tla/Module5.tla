------------------------------ MODULE Module5 ------------------------------
(***************************************************************************)
(* interp5/validator.py, validate_module, and what instantiate and the     *)
(* instructions of interp5/machine.py then do with a module's indices      *)
(* without looking whether they are in range.  The validator goes through  *)
(* the sections one by one, in an order of its own; the machine fills the  *)
(* index spaces in another one.  A list read past its end is a Python      *)
(* IndexError, which the runner would count as a failure of the module.    *)
(*                                                                         *)
(* Of a function body only the instructions that name an index are left    *)
(* (module Validator5 has the operand stack); a value is its type and      *)
(* whether it is an initial one; a table or memory is its limits.          *)
(***************************************************************************)
EXTENDS Naturals, Sequences, FiniteSets

CONSTANTS Modules,    \* decoded modules
          Objects,    \* what a store may resolve an import to
          MaxPages,   \* MEM_MAX_PAGES
          NoMax,      \* limits without a maximum
          NoStart     \* a module without a start function

----------------------------------------------------------------------------
(* What the decoder makes of a module, and what a store holds.             *)
Types == {"i32", "i64"}
FuncTypes == [params : Seq(Types), results : Seq(Types)]
GlobalTypes == [valtype : Types, mutable : BOOLEAN]
Limits == [min : Nat, max : Nat \cup {NoMax}]
Imports ==
  [kind : {"func"}, desc : Nat] \cup [kind : {"table", "memory"}, desc : Limits]
  \cup [kind : {"global"}, desc : GlobalTypes]
ConstExprs == Seq([op : {"const"}, type : Types] \cup [op : {"global.get"}, imm : Nat])
Instructions ==
  [op : {"block", "call", "call_indirect", "local", "global.get", "global.set"}, imm : Nat]
  \cup [op : {"store"}, align : Nat] \cup [op : {"memory"}]
Funcs == [typeidx : Nat, locals : Nat, body : Seq(Instructions)]
Globals == [valtype : Types, mutable : BOOLEAN, init : ConstExprs]
Segments == [offset : ConstExprs, funcidxs : Seq(Nat)]
Exports == [name : STRING, kind : {"func", "table", "memory", "global"}, idx : Nat]
Values == [type : Types, from : {"init", "set"}]
FuncObjects == [kind : {"func"}, type : FuncTypes]
Cells == [kind : {"global"}, valtype : Types, mutable : BOOLEAN, value : Values]

\* A cell holds a value of its type, an immutable one that of its initialiser.
KeepsItsWord(cell) ==
  cell.value.type = cell.valtype /\ (~cell.mutable => cell.value.from = "init")

(* Indices and limits are natural numbers, and the decoder lets through at *)
(* most one memory; the cells of other instances are in order.             *)
ASSUME ModulesAssumption ==
  /\ MaxPages \in Nat
  /\ \A m \in Modules :
      /\ m.types \in Seq(FuncTypes) /\ m.imports \in Seq(Imports) /\ m.funcs \in Seq(Funcs)
      /\ m.tables \in Seq(Limits) /\ m.mems \in Seq(Limits) /\ Len(m.mems) <= 1
      /\ m.globals \in Seq(Globals) /\ m.elems \in Seq(Segments) /\ m.datas \in Seq(Segments)
      /\ m.exports \in Seq(Exports) /\ m.start \in Nat \cup {NoStart}

ASSUME ObjectsAssumption ==
  /\ Objects \subseteq FuncObjects \cup Cells \cup [kind : {"table", "memory"}]
  /\ \A o \in Objects : o.kind = "global" => KeepsItsWord(o)

VARIABLES module,
          at,      \* the section under way, of validate_module, then of instantiate
          spaces,  \* Instance: funcs, tables, mems, globals
          started, \* the type of the start function called, if one was
          outcome  \* "running", or how it ended

vars == <<module, at, spaces, started, outcome>>

----------------------------------------------------------------------------
\* The n-th of a set of positions.
Nth(S, n) == CHOOSE i \in S : Cardinality({j \in S : j < i}) = n - 1

(* Verdicts: the first check that is not "ok" is raised.                   *)
First(verdicts) ==
  LET bad == {i \in DOMAIN verdicts : verdicts[i] # "ok"}
  IN  IF bad = {} THEN "ok" ELSE verdicts[Nth(bad, 1)]
Require(cond) == IF cond THEN "ok" ELSE "invalid"
Each(Verdict(_), list) == First([i \in DOMAIN list |-> Verdict(list[i])])

(* list[i] of Python, for i in range or not.                               *)
Beyond == [params |-> <<"beyond">>, results |-> <<>>]
At(list, i) == IF i < Len(list) THEN list[i + 1] ELSE Beyond
Exists(list, i) == IF i < Len(list) THEN "ok" ELSE "IndexError"

(* Index spaces: imports first, then definitions.                          *)
Places(kind) == {i \in DOMAIN module.imports : module.imports[i].kind = kind}
\* What a list holds at the places of one kind.
Of(kind, list) == [n \in 1..Cardinality(Places(kind)) |-> list[Nth(Places(kind), n)]]
Imported(kind) == Of(kind, module.imports)
n_funcs == Len(Imported("func")) + Len(module.funcs)
n_tables == Len(Imported("table")) + Len(module.tables)
n_mems == Len(Imported("memory")) + Len(module.mems)
n_globals == Len(Imported("global")) + Len(module.globals)

typeidxs == [i \in DOMAIN Imported("func") |-> Imported("func")[i].desc]
            \o [i \in DOMAIN module.funcs |-> module.funcs[i].typeidx]
func_type(f) == At(module.types, typeidxs[f + 1])
global_type(g) ==
  LET ims == Imported("global")
  IN  IF g < Len(ims) THEN ims[g + 1].desc
      ELSE [valtype |-> module.globals[g - Len(ims) + 1].valtype,
            mutable |-> module.globals[g - Len(ims) + 1].mutable]

----------------------------------------------------------------------------
(* validate_module.                                                        *)
_check_table_limits(lim) == Require(lim.max = NoMax \/ lim.min <= lim.max)
\* Mutant: a maximum is not compared with the number of pages there can be.
_check_mem_limits_min(lim) ==
  Require(lim.min <= MaxPages /\ (lim.max # NoMax => lim.min <= lim.max))

_check_mem_limits(lim) ==
  Require(/\ lim.min <= MaxPages
          /\ lim.max # NoMax => lim.max <= MaxPages /\ lim.min <= lim.max)

\* Mutant: a global.get of any global that comes before its use.
_validate_const_expr_any(expr, expected) ==
  IF Len(expr) # 1 THEN "invalid"
  ELSE Require(\/ expr[1].op = "const" /\ expr[1].type = expected
               \/ /\ expr[1].op = "global.get" /\ expr[1].imm < n_globals
                  /\ global_type(expr[1].imm) = [valtype |-> expected, mutable |-> FALSE])

(* Exactly one instruction: a constant, or a global.get of an imported     *)
(* immutable global.                                                       *)
_validate_const_expr(expr, expected) ==
  IF Len(expr) # 1 THEN "invalid"
  ELSE Require(\/ expr[1].op = "const" /\ expr[1].type = expected
               \/ /\ expr[1].op = "global.get"
                  /\ expr[1].imm < Len(Imported("global"))
                  /\ global_type(expr[1].imm) = [valtype |-> expected, mutable |-> FALSE])

ImportVerdict(im) ==
  IF im.kind = "func" THEN Require(im.desc < Len(module.types))
  ELSE IF im.kind = "table" THEN _check_table_limits(im.desc)
  ELSE IF im.kind = "memory" THEN _check_mem_limits(im.desc)
  ELSE "ok"

Uses(n) == Require(n > 0)

\* Mutant: any global may be set.
SetVerdict_any(g) == Require(g < n_globals)

SetVerdict(g) == IF g >= n_globals THEN "invalid" ELSE Require(global_type(g).mutable)

(* _FuncValidator._instr, the checks of an instruction's index.            *)
IndexVerdict(f, ins) ==
  CASE ins.op = "block" -> Require(ins.imm < Len(module.types))
    [] ins.op = "call" ->
         IF ins.imm >= n_funcs THEN "invalid" ELSE Exists(module.types, typeidxs[ins.imm + 1])
    [] ins.op = "call_indirect" -> First(<<Uses(n_tables), Require(ins.imm < Len(module.types))>>)
    [] ins.op = "local" ->
         Require(ins.imm < Len(At(module.types, f.typeidx).params) + f.locals)
    [] ins.op = "global.get" -> Require(ins.imm < n_globals)
    [] ins.op = "global.set" -> SetVerdict(ins.imm)
    [] ins.op = "memory" -> Uses(n_mems)
    [] ins.op = "store" -> First(<<Uses(n_mems), Require(ins.align <= 2)>>)

BodyVerdict(f) ==
  First(<<Exists(module.types, f.typeidx),
          First([i \in DOMAIN f.body |-> IndexVerdict(f, f.body[i])])>>)

ElemVerdict(seg) ==
  First(<<Uses(n_tables), _validate_const_expr(seg.offset, "i32"),
          First([i \in DOMAIN seg.funcidxs |-> Require(seg.funcidxs[i] < n_funcs)])>>)
DataVerdict(seg) == First(<<Uses(n_mems), _validate_const_expr(seg.offset, "i32")>>)

Nullary(t) == t.params = <<>> /\ t.results = <<>>

StartVerdict ==
  IF module.start = NoStart THEN "ok"
  ELSE IF module.start >= n_funcs THEN "invalid"
  ELSE First(<<Exists(module.types, typeidxs[module.start + 1]),
               Require(Nullary(func_type(module.start)))>>)

Size(kind) == CASE kind = "func" -> n_funcs [] kind = "table" -> n_tables
                [] kind = "memory" -> n_mems [] kind = "global" -> n_globals
ExportVerdict(e) ==
  LET ex == module.exports[e]
  IN  Require(/\ \A d \in 1..(e - 1) : module.exports[d].name # ex.name
              /\ ex.idx < Size(ex.kind))

TypeIndexVerdict(f) == Require(f.typeidx < Len(module.types))
GlobalVerdict(g) == _validate_const_expr(g.init, g.valtype)

SectionVerdict(section) ==
  CASE section = "imports" -> Each(ImportVerdict, module.imports)
    [] section = "functypes" -> Each(TypeIndexVerdict, module.funcs)
    [] section = "tables" -> Each(_check_table_limits, module.tables)
    [] section = "mems" -> Each(_check_mem_limits, module.mems)
    [] section = "globals" -> Each(GlobalVerdict, module.globals)
    [] section = "bodies" -> Each(BodyVerdict, module.funcs)
    [] section = "elems" -> Each(ElemVerdict, module.elems)
    [] section = "datas" -> Each(DataVerdict, module.datas)
    [] section = "start" -> StartVerdict
    [] section = "exports" -> Each(ExportVerdict, [e \in DOMAIN module.exports |-> e])

\* Mutant: bodies are validated as they are met, before the type indices.
Sections_bodies_first ==
  <<"imports", "bodies", "functypes", "tables", "mems", "globals", "elems", "datas",
    "start", "exports">>

Sections ==
  <<"imports", "functypes", "tables", "mems", "globals", "bodies", "elems", "datas",
    "start", "exports">>

Ends(how) == outcome' = how /\ UNCHANGED <<module, at, spaces, started>>

(* One section of validate_module; an accepted module is instantiated.     *)
Validate ==
  /\ outcome = "running" /\ at <= Len(Sections)
  /\ LET verdict == SectionVerdict(Sections[at])
     IN  IF verdict = "ok" THEN at' = at + 1 /\ UNCHANGED <<module, spaces, started, outcome>>
         ELSE Ends(verdict)

----------------------------------------------------------------------------
(* instantiate.                                                            *)
Stages == <<"imports", "globals", "funcs", "exports", "elems", "datas", "start", "calls">>
InStage(stage) ==
  /\ outcome = "running" /\ at > Len(Sections)
  /\ Stages[at - Len(Sections)] = stage
Leaves == at' = at + 1 /\ UNCHANGED <<module, outcome>>

Value(type) == [type |-> type, from |-> "init"]

\* Mutant: a global import is matched by its value type alone.
_check_import_type_immutable(im, obj) ==
  \/ im.kind = "func" /\ obj.type = At(module.types, im.desc)
  \/ im.kind = "global" /\ obj.valtype = im.desc.valtype
  \/ im.kind \in {"table", "memory"}

(* _check_import_type; limits are matched in module Linker.                *)
_check_import_type(im, obj) ==
  \/ im.kind = "func" /\ obj.type = At(module.types, im.desc)
  \/ im.kind = "global" /\ obj.valtype = im.desc.valtype /\ obj.mutable = im.desc.mutable
  \/ im.kind \in {"table", "memory"}

LinkVerdict(im, obj) ==
  IF im.kind = "func" /\ im.desc >= Len(module.types) THEN "IndexError"
  ELSE IF _check_import_type(im, obj) THEN "ok" ELSE "incompatible"

(* The imports, whatever object of the kind asked for the store resolves   *)
(* them to; then tables and memories, which depend on no index.            *)
ResolveImports ==
  /\ InStage("imports")
  /\ \E objs \in [DOMAIN module.imports -> Objects] :
       /\ \A i \in DOMAIN objs : objs[i].kind = module.imports[i].kind
       /\ LET verdict == First([i \in DOMAIN objs |-> LinkVerdict(module.imports[i], objs[i])])
          IN  IF verdict = "ok"
              THEN /\ spaces' = [funcs |-> Of("func", objs), globals |-> Of("global", objs),
                                 tables |-> Of("table", objs) \o module.tables,
                                 mems |-> Of("memory", objs) \o module.mems]
                   /\ UNCHANGED started /\ Leaves
              ELSE Ends(verdict)

(* _eval_const_expr, over the globals there are so far.                    *)
ConstVerdict(expr) ==
  IF expr[1].op = "global.get" THEN Exists(spaces.globals, expr[1].imm) ELSE "ok"
Const(expr) ==
  IF expr[1].op = "global.get" THEN spaces.globals[expr[1].imm + 1].value
  ELSE Value(expr[1].type)

(* The defined globals, one after the other.                               *)
Filled == Len(spaces.globals) - Len(Imported("global"))
DefineGlobal ==
  /\ InStage("globals") /\ Filled < Len(module.globals)
  /\ LET g == module.globals[Filled + 1]
     IN  IF ConstVerdict(g.init) # "ok" THEN Ends("IndexError")
         ELSE /\ spaces' = [spaces EXCEPT !.globals = Append(@,
                   [kind |-> "global", valtype |-> g.valtype, mutable |-> g.mutable,
                    value |-> Const(g.init)])]
              /\ UNCHANGED <<module, at, started, outcome>>
GlobalsDefined ==
  InStage("globals") /\ Filled = Len(module.globals) /\ Leaves /\ UNCHANGED <<spaces, started>>

DefineFuncs ==
  /\ InStage("funcs")
  /\ IF \E i \in DOMAIN module.funcs : module.funcs[i].typeidx >= Len(module.types)
     THEN Ends("IndexError")
     ELSE /\ spaces' = [spaces EXCEPT !.funcs = @ \o [i \in DOMAIN module.funcs |->
               [kind |-> "func", type |-> module.types[module.funcs[i].typeidx + 1]]]]
          /\ UNCHANGED started /\ Leaves

Space(kind) == CASE kind = "func" -> spaces.funcs [] kind = "table" -> spaces.tables
                 [] kind = "memory" -> spaces.mems [] kind = "global" -> spaces.globals
Reading(stage, verdict) ==
  /\ InStage(stage)
  /\ IF verdict # "ok" THEN Ends(verdict) ELSE Leaves /\ UNCHANGED <<spaces, started>>

ExportRead(ex) == Exists(Space(ex.kind), ex.idx)
DefineExports == Reading("exports", Each(ExportRead, module.exports))

ElemRead(seg) ==
  First(<<Exists(spaces.tables, 0), ConstVerdict(seg.offset),
          First([i \in DOMAIN seg.funcidxs |-> Exists(spaces.funcs, seg.funcidxs[i])])>>)
WriteElems == Reading("elems", Each(ElemRead, module.elems))

DataRead(seg) == First(<<Exists(spaces.mems, 0), ConstVerdict(seg.offset)>>)
WriteDatas == Reading("datas", Each(DataRead, module.datas))

Start ==
  /\ InStage("start")
  /\ IF module.start = NoStart THEN Leaves /\ UNCHANGED <<spaces, started>>
     ELSE IF module.start >= Len(spaces.funcs) THEN Ends("IndexError")
     ELSE started' = <<spaces.funcs[module.start + 1].type>> /\ UNCHANGED spaces /\ Leaves

----------------------------------------------------------------------------
(* _exec_instr: an instruction of a defined function, any number of times, *)
(* in any order.                                                           *)
ExecVerdict(f, ins) ==
  CASE ins.op = "call" -> Exists(spaces.funcs, ins.imm)
    [] ins.op = "block" -> Exists(module.types, ins.imm)
    [] ins.op = "call_indirect" ->
         First(<<Exists(module.types, ins.imm), Exists(spaces.tables, 0)>>)
    [] ins.op = "local" ->
         IF ins.imm < Len(At(module.types, f.typeidx).params) + f.locals
         THEN "ok" ELSE "IndexError"
    [] ins.op \in {"global.get", "global.set"} -> Exists(spaces.globals, ins.imm)
    [] ins.op \in {"memory", "store"} -> Exists(spaces.mems, 0)

Execute(f, ins) ==
  /\ InStage("calls")
  /\ IF ExecVerdict(f, ins) # "ok" THEN Ends("IndexError")
     ELSE /\ IF ins.op = "global.set"
             THEN spaces' = [spaces EXCEPT !.globals[ins.imm + 1].value =
                    [type |-> global_type(ins.imm).valtype, from |-> "set"]]
             ELSE UNCHANGED spaces
          /\ UNCHANGED <<module, at, started, outcome>>

Call == \E i \in DOMAIN module.funcs :
          \E k \in DOMAIN module.funcs[i].body :
            Execute(module.funcs[i], module.funcs[i].body[k])

Init ==
  /\ module \in Modules
  /\ at = 1 /\ started = <<>> /\ outcome = "running"
  /\ spaces = [funcs |-> <<>>, tables |-> <<>>, mems |-> <<>>, globals |-> <<>>]

Next == \/ Validate \/ ResolveImports \/ DefineGlobal \/ GlobalsDefined \/ DefineFuncs
        \/ DefineExports \/ WriteElems \/ WriteDatas \/ Start \/ Call

Spec == Init /\ [][Next]_vars
----------------------------------------------------------------------------
(* interp/validator.py: the module-level checks of the frozen validator,   *)
(* over the duplicate-name scan of validate_bytes and validate_module.     *)
FrozenOps == {"local", "memory", "store"}
OnFrozenSurface ==
  /\ module.imports \o module.tables \o module.globals \o module.elems \o module.datas = <<>>
  /\ module.start = NoStart
  /\ \A e \in DOMAIN module.exports : module.exports[e].kind = "func"
  /\ \A i \in DOMAIN module.funcs :
       \A k \in DOMAIN module.funcs[i].body : module.funcs[i].body[k].op \in FrozenOps

_reject_duplicate_export_names ==
  \A d, e \in DOMAIN module.exports : d # e => module.exports[d].name # module.exports[e].name

FrozenInstr(f, ins) ==
  \/ ins.op = "local" /\ ins.imm < Len(At(module.types, f.typeidx).params) + f.locals
  \/ ins.op = "memory" /\ module.mems # <<>>
  \/ ins.op = "store" /\ module.mems # <<>> /\ ins.align <= 2

FrozenAccepts ==
  /\ _reject_duplicate_export_names
  /\ \A i \in DOMAIN module.funcs : module.funcs[i].typeidx < Len(module.types)
  /\ \A e \in DOMAIN module.exports : module.exports[e].idx < Len(module.funcs)
  /\ Len(module.mems) <= 1
  /\ \A i \in DOMAIN module.mems :
       LET lim == module.mems[i]
       IN  lim.min <= MaxPages /\ (lim.max = NoMax \/ lim.max \in lim.min..MaxPages)
  /\ \A i \in DOMAIN module.funcs :
       \A k \in DOMAIN module.funcs[i].body : FrozenInstr(module.funcs[i], module.funcs[i].body[k])

----------------------------------------------------------------------------
Valid == at > Len(Sections)
Past(stage) == Valid /\ \E k \in 1..(at - Len(Sections) - 1) : Stages[k] = stage

\* The stages, and cells of a value and a mutability.
TypeOK ==
  /\ at \in 1..(Len(Sections) + Len(Stages))
  /\ outcome \in {"running", "invalid", "incompatible", "IndexError"}
  /\ \A i \in DOMAIN spaces.globals :
       /\ spaces.globals[i].valtype \in Types /\ spaces.globals[i].mutable \in BOOLEAN
       /\ spaces.globals[i].value \in Values

(* Neither the validator itself nor instantiate nor any instruction reads  *)
(* a list of an accepted module past its end: each section's checks come   *)
(* before what relies on them.                                             *)
NoIndexError == outcome # "IndexError"

(* Every function and global of the instance has the type the validator    *)
(* gave its index, the imported ones as well, so that a body validated     *)
(* against the module's types runs against the instance's objects.         *)
SpacesAsDeclared ==
  /\ Past("imports") =>
       \A g \in 1..Len(spaces.globals) :
         [valtype |-> spaces.globals[g].valtype, mutable |-> spaces.globals[g].mutable]
           = global_type(g - 1)
  /\ Past("funcs") =>
       /\ Len(spaces.funcs) = n_funcs
       /\ \A f \in 1..n_funcs : spaces.funcs[f].type = func_type(f - 1)

(* A global always holds a value of its type, and an immutable one the     *)
(* value it was initialised with: initialisers, global.set and the cells   *)
(* of other instances together.                                            *)
GlobalsKeepTheirWord ==
  \A i \in DOMAIN spaces.globals : KeepsItsWord(spaces.globals[i])

(* instantiate calls the start function with no arguments and drops what   *)
(* it returns: it takes none and returns none.                             *)
StartIsNullary == \A i \in DOMAIN started : Nullary(started[i])

(* The frozen and the M5 validator accept the same modules of the frozen   *)
(* surface.                                                                *)
FrozenSameVerdict ==
  OnFrozenSurface => /\ Valid => FrozenAccepts
                     /\ outcome = "invalid" => ~FrozenAccepts

(* The index spaces of an instance, whole: typed cells, every index at its *)
(* declared type, and a start function that fits the call made to it.      *)
IndexSpaces == TypeOK /\ SpacesAsDeclared /\ StartIsNullary
=============================================================================
