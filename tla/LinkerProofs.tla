---------------------------- MODULE LinkerProofs ----------------------------
(***************************************************************************)
(* The invariants and action properties of module Linker, for every set of *)
(* validated modules, every number of instances and every frame cap.       *)
(***************************************************************************)
EXTENDS Linker, FiniteSetTheorems, FunctionTheorems, TLAPS

\* What a module declared of each of its indices is what the object there is.
AsDeclared ==
  \A i \in DOMAIN insts :
    LET m == insts[i].module
        ms == Imports(m, "memory") ts == Imports(m, "table")
    IN  /\ \A n \in DOMAIN insts[i].func : Defined(insts[i].func[n]).type = Assumed(i, n)
        /\ \A n \in DOMAIN insts[i].global : cells[insts[i].global[n]].mut = Mutable(m, n)
        /\ \A n \in DOMAIN ms :
             LET o == mems[insts[i].memory[n]]
             IN  LimitsMatch(Len(o.data), o.max, ms[n].type)
        /\ \A n \in DOMAIN ts :
             LET o == tabs[insts[i].table[n]]
             IN  LimitsMatch(Len(o.entries), o.max, ts[n].type)

\* No memory or table is larger than its own maximum.
Capped ==
  /\ \A o \in DOMAIN mems :
       Len(mems[o].data) <= (IF mems[o].max = NoMax THEN MaxPages ELSE mems[o].max)
  /\ \A o \in DOMAIN tabs : tabs[o].max # NoMax => Len(tabs[o].entries) <= tabs[o].max

Inv == TypeOK /\ AsDeclared /\ Capped /\ CalledAsTyped

----------------------------------------------------------------------------
(* Imports: the n-th of a kind is there, and is of that kind.              *)
LEMMA NthIsElement ==
  ASSUME NEW S \in SUBSET Nat, IsFiniteSet(S), NEW n \in 1..Cardinality(S)
  PROVE  Nth(S, n) \in S
<1> DEFINE Less(i) == {j \in S : j < i}
           T == 0..(Cardinality(S) - 1)
           f == [i \in S |-> Cardinality(Less(i))]
<1>1. Cardinality(S) \in Nat
  BY FS_CardinalityType
<1>2. ASSUME NEW i \in S
      PROVE  IsFiniteSet(Less(i)) /\ Cardinality(Less(i)) \in Nat
  BY FS_Subset, FS_CardinalityType
<1>3. ASSUME NEW i \in S
      PROVE  Cardinality(Less(i)) \in T
  <2>1. IsFiniteSet(S \ {i}) /\ Cardinality(S \ {i}) = Cardinality(S) - 1
    BY FS_RemoveElement
  <2>2. Less(i) \in SUBSET (S \ {i})
    OBVIOUS
  <2>3. Cardinality(Less(i)) <= Cardinality(S \ {i})
    BY <2>1, <2>2, FS_Subset
  <2> QED BY <1>1, <1>2, <2>1, <2>3
<1>4. ASSUME NEW i \in S, NEW k \in S, i < k
      PROVE  f[i] # f[k]
  <2>1. IsFiniteSet(Less(i) \cup {i})
        /\ Cardinality(Less(i) \cup {i}) = Cardinality(Less(i)) + 1
    <3>1. i \notin Less(i)
      OBVIOUS
    <3> HIDE DEF Less
    <3> QED BY <1>2, <3>1, FS_AddElement
  <2>2. Less(i) \cup {i} \in SUBSET Less(k)
    <3>1. \A j \in S : j \in Nat
      OBVIOUS
    <3>2. \A j \in S : j < i => j < k
      BY <1>4, <3>1
    <3> QED BY <1>4, <3>2
  <2>3. Cardinality(Less(i) \cup {i}) <= Cardinality(Less(k))
    BY <1>2, <2>2, FS_Subset
  <2> HIDE DEF Less
  <2> QED BY <1>2, <2>1, <2>3
<1>5. f \in Injection(S, T)
  <2>1. f \in [S -> T]
    BY <1>3
  <2>2. \A i, k \in S : i # k => i < k \/ k < i
    OBVIOUS
  <2>3. \A i, k \in S : f[i] = f[k] => i = k
    BY <1>4, <2>2
  <2> HIDE DEF f
  <2> QED BY <2>1, <2>3 DEF Injection, IsInjective
<1>6. IsFiniteSet(T) /\ Cardinality(T) = Cardinality(S)
  <2>1. 0 \in Int /\ Cardinality(S) - 1 \in Int
    BY <1>1
  <2>2. IsFiniteSet(T)
        /\ Cardinality(T) = IF 0 > Cardinality(S) - 1 THEN 0 ELSE Cardinality(S) - 1 - 0 + 1
    BY <2>1, FS_Interval
  <2> HIDE DEF T
  <2> QED BY <1>1, <2>2
<1>7. f \in Surjection(S, T)
  <2> HIDE DEF f, T
  <2> QED BY <1>5, <1>6, FS_Injection
<1>8. \E i \in S : f[i] = n - 1
  <2>1. n - 1 \in T
    BY <1>1
  <2> HIDE DEF f, T
  <2> QED BY <1>7, <2>1 DEF Surjection
<1>9. \E i \in S : Cardinality({j \in S : j < i}) = n - 1
  BY <1>8
<1> QED BY <1>9 DEF Nth

(* The elements of a sequence over S are in S. *)
LEMMA ElementOf ==
  ASSUME NEW S, NEW s \in Seq(S), NEW k \in DOMAIN s
  PROVE  s[k] \in S
  OBVIOUS

(* A concatenation holds the first sequence, then the second. *)
LEMMA ConcatFacts ==
  ASSUME NEW S, NEW s \in Seq(S), NEW t \in Seq(S)
  PROVE  /\ s \o t \in Seq(S) /\ Len(s \o t) = Len(s) + Len(t) /\ Len(s) \in Nat
         /\ DOMAIN (s \o t) = 1..(Len(s) + Len(t))
         /\ \A k \in DOMAIN s : (s \o t)[k] = s[k]
         /\ \A k \in 1..Len(t) : (s \o t)[Len(s) + k] = t[k]
  OBVIOUS

(* Replacing an element keeps type and length. *)
LEMMA ReplaceFacts ==
  ASSUME NEW S, NEW s \in Seq(S), NEW k \in DOMAIN s, NEW x \in S
  PROVE  [s EXCEPT ![k] = x] \in Seq(S) /\ Len([s EXCEPT ![k] = x]) = Len(s)
  OBVIOUS

(* The imports of one kind are imports of the module, of that kind. *)
LEMMA ImportsFacts ==
  ASSUME NEW m \in Modules, NEW kind
  PROVE  /\ Imports(m, kind) \in Seq(Import) /\ Len(Imports(m, kind)) \in Nat
         /\ DOMAIN Imports(m, kind) = 1..Len(Imports(m, kind))
         /\ \A n \in DOMAIN Imports(m, kind) :
              /\ Imports(m, kind)[n] \in Import
              /\ Imports(m, kind)[n].kind = kind
              /\ \E i \in DOMAIN m.imports : Imports(m, kind)[n] = m.imports[i]
<1> DEFINE S == Places(m, kind)
           c == Cardinality(S)
<1>1. m.imports \in Seq(Import)
  BY LinkerAssumption DEF Module
<1>2. S \in SUBSET Nat /\ IsFiniteSet(S)
  <2>1. Len(m.imports) \in Nat /\ DOMAIN m.imports = 1..Len(m.imports)
    BY <1>1
  <2>2. IsFiniteSet(1..Len(m.imports))
    <3>1. 1 \in Int /\ Len(m.imports) \in Int
      BY ONLY <2>1, SMT
    <3> QED BY ONLY <3>1, FS_Interval, ZenonT(60)
  <2>3. S \in SUBSET (1..Len(m.imports))
    BY <2>1 DEF Places
  <2> QED BY <2>1, <2>2, <2>3, FS_Subset
<1>3. c \in Nat
  BY <1>2, FS_CardinalityType
<1>4. ASSUME NEW n \in 1..c
      PROVE  Nth(S, n) \in DOMAIN m.imports /\ m.imports[Nth(S, n)].kind = kind
             /\ m.imports[Nth(S, n)] \in Import
  <2>1. Nth(S, n) \in S
    BY <1>2, NthIsElement
  <2>2. Nth(S, n) \in DOMAIN m.imports /\ m.imports[Nth(S, n)].kind = kind
    BY <2>1 DEF Places
  <2> QED BY <1>1, <2>2
<1>5. Imports(m, kind) = [n \in 1..c |-> m.imports[Nth(S, n)]]
  BY DEF Imports
<1> HIDE DEF c, S
<1> QED BY <1>3, <1>4, <1>5

(* What the invariants use of a module's types and of its validation.      *)
LEMMA ModuleFacts ==
  ASSUME NEW m \in Modules
  PROVE  /\ m.funcs \in Seq([type : FuncTypes, body : Seq(Instr)])
         /\ m.tables \in Seq(Limit) /\ m.mems \in Seq(Limit)
         /\ m.globals \in Seq([mut : BOOLEAN, init : ConstExpr])
         /\ m.exports \in Seq([kind : Kinds, idx : Nat])
         /\ m.elems \in Seq([off : ConstExpr, idxs : Seq(Nat)])
         /\ m.datas \in Seq([off : ConstExpr, len : Nat])
         /\ m.imports \in Seq(Import) /\ m.start \in Nat
         /\ Validated(m)
         /\ \A kind \in Kinds : Size(m, kind) \in Nat /\ Len(Imports(m, kind)) <= Size(m, kind)
<1>1. m \in Module /\ Validated(m)
  BY LinkerAssumption
<1>2. m.funcs \in Seq([type : FuncTypes, body : Seq(Instr)])
      /\ m.tables \in Seq(Limit) /\ m.mems \in Seq(Limit)
      /\ m.globals \in Seq([mut : BOOLEAN, init : ConstExpr])
      /\ m.exports \in Seq([kind : Kinds, idx : Nat])
      /\ m.elems \in Seq([off : ConstExpr, idxs : Seq(Nat)])
      /\ m.datas \in Seq([off : ConstExpr, len : Nat])
      /\ m.imports \in Seq(Import) /\ m.start \in Nat
  BY <1>1 DEF Module
<1>3. Len(m.funcs) \in Nat /\ Len(m.tables) \in Nat /\ Len(m.mems) \in Nat /\ Len(m.globals) \in Nat
  BY <1>2
<1>4. \A kind \in Kinds : Size(m, kind) \in Nat /\ Len(Imports(m, kind)) <= Size(m, kind)
  <2> SUFFICES ASSUME NEW kind \in Kinds
               PROVE  Size(m, kind) \in Nat /\ Len(Imports(m, kind)) <= Size(m, kind)
    OBVIOUS
  <2>1. Len(Imports(m, kind)) \in Nat
    BY ImportsFacts
  <2> QED BY <1>3, <2>1 DEF Size, Kinds
<1> QED BY <1>1, <1>2, <1>4

----------------------------------------------------------------------------
(* All steps but a successful instantiate write their objects in place:    *)
(* none comes or goes, and only a memory's size changes, upwards.          *)
WritesInPlace ==
  /\ UNCHANGED insts
  /\ HeapOK' /\ Capped'
  /\ DOMAIN mems' = DOMAIN mems
  /\ \A o \in DOMAIN mems : /\ mems'[o].max = mems[o].max
                            /\ Len(mems[o].data) <= Len(mems'[o].data)
  /\ DOMAIN tabs' = DOMAIN tabs
  /\ \A t \in DOMAIN tabs : /\ tabs'[t].max = tabs[t].max
                            /\ Len(tabs'[t].entries) = Len(tabs[t].entries)
  /\ DOMAIN cells' = DOMAIN cells
  /\ \A c \in DOMAIN cells : cells'[c].mut = cells[c].mut

Mem == [data : Seq(Nat), max : Nat \cup {NoMax}]
Tab == [entries : Seq(FuncRef), max : Nat \cup {NoMax}]
Cell == [mut : BOOLEAN, value : Nat]
Instance == [module : Modules, func : Seq(FuncRef), table : Seq(Nat),
             memory : Seq(Nat), global : Seq(Nat)]

(* An instance has a module, and each index space is as long as the module *)
(* declares.                                                               *)
LEMMA InstanceFacts ==
  ASSUME Inv, NEW i \in DOMAIN insts
  PROVE  /\ i \in Nat /\ i > 0 /\ insts[i] \in Instance /\ insts[i].module \in Modules
         /\ \A kind \in Kinds : Len(insts[i][kind]) = Size(insts[i].module, kind)
                             /\ DOMAIN insts[i][kind] = 1..Size(insts[i].module, kind)
<1>1. insts \in Seq(Instance)
  BY DEF Inv, TypeOK, InstancesOK, Instance
<1>2. i \in Nat /\ i > 0 /\ insts[i] \in Instance /\ insts[i].module \in Modules
  <2>1. i \in Nat /\ i > 0 /\ insts[i] \in Instance
    BY <1>1
  <2> QED BY <2>1 DEF Instance
<1>3. \A kind \in Kinds : Len(insts[i][kind]) = Size(insts[i].module, kind)
  BY DEF Inv, TypeOK, InstancesOK
<1>4. \A kind \in Kinds : DOMAIN insts[i][kind] = 1..Len(insts[i][kind])
  BY <1>2 DEF Kinds, Instance
<1> QED BY <1>2, <1>3, <1>4

(* Writing into objects, without making or moving one, keeps what is said  *)
(* of the heap.                                                            *)
LEMMA InPlaceKeeps ==
  ASSUME Inv, WritesInPlace
  PROVE  HeapOK' /\ InstancesOK' /\ AsDeclared' /\ Capped'
<1>1. InstancesOK'
  BY DEF Inv, TypeOK, InstancesOK, WritesInPlace, IsFunc
<1>2. ASSUME NEW i \in DOMAIN insts
      PROVE  /\ \A n \in DOMAIN insts[i].func : (Defined(insts[i].func[n]).type = Assumed(i, n))'
             /\ \A n \in DOMAIN insts[i].global :
                  cells'[insts[i].global[n]].mut = Mutable(insts[i].module, n)
  <2>1. \A n \in DOMAIN insts[i].global : insts[i].global[n] \in DOMAIN cells
    BY DEF Inv, TypeOK, InstancesOK
  <2> QED BY <2>1 DEF Inv, AsDeclared, WritesInPlace, Defined, Assumed
<1>3. ASSUME NEW i \in DOMAIN insts, NEW n \in DOMAIN Imports(insts[i].module, "memory")
      PROVE  LET o == mems'[insts[i].memory[n]]
             IN  LimitsMatch(Len(o.data), o.max, Imports(insts[i].module, "memory")[n].type)
  <2> DEFINE m == insts[i].module
             o == insts[i].memory[n]
             lim == Imports(m, "memory")[n].type
  <2>1. m \in Modules /\ "memory" \in Kinds /\ DOMAIN insts[i].memory = 1..Size(m, "memory")
    BY InstanceFacts DEF Kinds
  <2>2. n \in DOMAIN insts[i].memory /\ lim \in Limit
    <3>1. Imports(m, "memory")[n] \in Import /\ Imports(m, "memory")[n].kind = "memory"
      BY <2>1, ImportsFacts
    <3>2. n \in DOMAIN insts[i].memory
      BY <2>1, ImportsFacts, ModuleFacts
    <3> QED BY <3>1, <3>2 DEF Import
  <2>3. o \in DOMAIN mems
    BY <2>2 DEF Inv, TypeOK, InstancesOK
  <2>4. LimitsMatch(Len(mems[o].data), mems[o].max, lim)
    BY DEF Inv, AsDeclared
  <2>5. mems[o].data \in Seq(Nat) /\ mems'[o].data \in Seq(Nat)
    <3>1. mems \in Seq(Mem) /\ mems' \in Seq(Mem) /\ o \in DOMAIN mems'
      BY <2>3 DEF Inv, TypeOK, HeapOK, WritesInPlace, Mem
    <3>2. mems[o] \in Mem /\ mems'[o] \in Mem
      BY <2>3, <3>1
    <3> QED BY <3>2 DEF Mem
  <2>6. Len(mems[o].data) <= Len(mems'[o].data) /\ mems'[o].max = mems[o].max
    BY <2>3 DEF WritesInPlace
  <2>7. Len(mems[o].data) \in Nat /\ Len(mems'[o].data) \in Nat /\ lim.min \in Nat
    BY <2>2, <2>5 DEF Limit
  <2> HIDE DEF o, m, lim
  <2>8. LimitsMatch(Len(mems'[o].data), mems'[o].max, lim)
    BY <2>4, <2>6, <2>7 DEF LimitsMatch
  <2> QED BY <2>8 DEF o, m, lim
<1>4. ASSUME NEW i \in DOMAIN insts, NEW n \in DOMAIN Imports(insts[i].module, "table")
      PROVE  LET o == tabs'[insts[i].table[n]]
             IN  LimitsMatch(Len(o.entries), o.max, Imports(insts[i].module, "table")[n].type)
  <2> DEFINE m == insts[i].module
             o == insts[i].table[n]
             lim == Imports(m, "table")[n].type
  <2>1. m \in Modules /\ "table" \in Kinds /\ DOMAIN insts[i].table = 1..Size(m, "table")
    BY InstanceFacts DEF Kinds
  <2>2. n \in DOMAIN insts[i].table
    BY <2>1, ImportsFacts, ModuleFacts
  <2>3. o \in DOMAIN tabs
    BY <2>2 DEF Inv, TypeOK, InstancesOK
  <2>4. LimitsMatch(Len(tabs[o].entries), tabs[o].max, lim)
    BY DEF Inv, AsDeclared
  <2>5. Len(tabs'[o].entries) = Len(tabs[o].entries) /\ tabs'[o].max = tabs[o].max
    BY <2>3 DEF WritesInPlace
  <2> HIDE DEF o, m, lim
  <2>6. LimitsMatch(Len(tabs'[o].entries), tabs'[o].max, lim)
    BY <2>4, <2>5
  <2> QED BY <2>6 DEF o, m, lim
<1>5. AsDeclared'
  <2>1. insts' = insts
    BY DEF WritesInPlace
  <2> QED BY <1>2, <1>3, <1>4, <2>1 DEF AsDeclared
<1> QED BY <1>1, <1>5 DEF WritesInPlace

(* A step that writes nothing writes in place.                             *)
LEMMA QuietInPlace ==
  ASSUME Inv, UNCHANGED <<insts, heap>>
  PROVE  WritesInPlace
<1>1. /\ insts' = insts /\ mems' = mems /\ tabs' = tabs /\ cells' = cells
  BY DEF heap
<1>2. HeapOK' /\ Capped'
  BY <1>1 DEF Inv, TypeOK, HeapOK, Capped, IsFunc
<1>3. \A o \in DOMAIN mems : Len(mems[o].data) \in Nat
  <2>1. mems \in Seq(Mem)
    BY DEF Inv, TypeOK, HeapOK, Mem
  <2>2. \A o \in DOMAIN mems : mems[o] \in Mem
    BY <2>1
  <2> QED BY <2>2 DEF Mem
<1> QED BY <1>1, <1>2, <1>3 DEF WritesInPlace

----------------------------------------------------------------------------
(* The frame on top runs a validated body against the instance it is of.   *)
Frm == [fn : FuncRef, pc : Nat \ {0}, want : FuncTypes]
JobType == [at : {"idle", "elem", "data", "start", "started", "invoke"}, inst : Nat, k : Nat]
Control == ControlOK /\ CalledAsTyped

(* A function that exists lies in an instance and has a body well formed   *)
(* for that instance's module.                                             *)
LEMMA FuncFacts ==
  ASSUME Inv, NEW f \in FuncRef, IsFunc(f)
  PROVE  /\ f.inst \in DOMAIN insts /\ insts[f.inst].module \in Modules
         /\ f.idx \in DOMAIN insts[f.inst].module.funcs
         /\ Defined(f).type \in FuncTypes /\ Defined(f).body \in Seq(Instr)
         /\ \A k \in DOMAIN Defined(f).body :
              Defined(f).body[k] \in Instr /\ InstrOK(insts[f.inst].module, Defined(f).body[k])
<1> DEFINE m == insts[f.inst].module
<1>1. f.inst \in DOMAIN insts /\ f.idx \in DOMAIN m.funcs
  BY DEF IsFunc
<1>2. m \in Modules
  BY <1>1, InstanceFacts
<1>3. m.funcs \in Seq([type : FuncTypes, body : Seq(Instr)]) /\ Validated(m)
  BY <1>2, ModuleFacts
<1>4. m.funcs[f.idx] \in [type : FuncTypes, body : Seq(Instr)]
  <2> HIDE DEF m
  <2> QED BY <1>1, <1>3, ElementOf
<1>5. Defined(f) = m.funcs[f.idx]
  BY DEF Defined
<1>6. Defined(f).type \in FuncTypes /\ Defined(f).body \in Seq(Instr)
  BY <1>4, <1>5
<1>7. \A k \in DOMAIN Defined(f).body : InstrOK(m, Defined(f).body[k])
  BY <1>1, <1>3, <1>5 DEF Validated
<1>8. \A k \in DOMAIN Defined(f).body : Defined(f).body[k] \in Instr
  BY <1>6
<1> QED BY <1>1, <1>2, <1>6, <1>7, <1>8

(* What the innermost frame runs is an instruction of its function, well   *)
(* formed for its instance.                                                *)
LEMMA TopFacts ==
  ASSUME Inv, frames # <<>>
  PROVE  /\ frames \in Seq(Frm) /\ Len(frames) \in Nat /\ Len(frames) >= 1
         /\ top \in Frm /\ IsFunc(top.fn) /\ top.fn \in FuncRef
         /\ top.fn.inst \in DOMAIN insts /\ home \in Instance /\ home.module \in Modules
         /\ body \in Seq(Instr) /\ Len(body) \in Nat /\ top.pc \in Nat /\ top.pc > 0
         /\ top.pc <= Len(body) => ins \in Instr /\ InstrOK(home.module, ins)
         /\ job \in JobType /\ job.at \in {"started", "invoke"}
<1>1. frames \in Seq(Frm) /\ job \in JobType /\ job.at \in {"started", "invoke"}
  BY DEF Inv, TypeOK, ControlOK, Frm, JobType
<1>2. Len(frames) \in Nat /\ Len(frames) >= 1 /\ top \in Frm
  BY <1>1 DEF top
<1>3. IsFunc(top.fn)
  BY <1>1, <1>2 DEF Inv, TypeOK, ControlOK, top
<1>4. top.fn \in FuncRef /\ top.pc \in Nat /\ top.pc > 0
  BY <1>2 DEF Frm
<1>5. /\ top.fn.inst \in DOMAIN insts /\ insts[top.fn.inst].module \in Modules
      /\ body \in Seq(Instr)
      /\ \A k \in DOMAIN body : body[k] \in Instr /\ InstrOK(insts[top.fn.inst].module, body[k])
  BY <1>3, <1>4, FuncFacts DEF body
<1>6. home \in Instance
  BY <1>5, InstanceFacts DEF home
<1>7. top.pc <= Len(body) => top.pc \in DOMAIN body
  BY <1>4, <1>5
<1> QED BY <1>1, <1>2, <1>3, <1>4, <1>5, <1>6, <1>7 DEF home, ins

(* What a step of wasm does to the frames: the one on top goes on ...      *)
LEMMA NextPcFacts ==
  ASSUME Inv, frames # <<>>
  PROVE  /\ NextPc \in Seq(Frm) /\ Len(NextPc) = Len(frames) /\ NextPc # <<>>
         /\ DOMAIN NextPc = 1..Len(frames) /\ DOMAIN frames = 1..Len(frames)
         /\ \A n \in DOMAIN frames : NextPc[n].fn = frames[n].fn /\ NextPc[n].want = frames[n].want
<1> DEFINE next == [top EXCEPT !.pc = top.pc + 1]
<1>1. frames \in Seq(Frm) /\ Len(frames) \in Nat /\ Len(frames) >= 1
      /\ top \in Frm /\ top.pc \in Nat /\ top = frames[Len(frames)]
  BY TopFacts DEF top
<1>2. next \in Frm /\ next.fn = top.fn /\ next.want = top.want
  BY <1>1 DEF Frm
<1>3. NextPc = [frames EXCEPT ![Len(frames)] = next]
  BY DEF NextPc, top
<1> HIDE DEF next
<1>4. NextPc \in Seq(Frm) /\ Len(NextPc) = Len(frames) /\ DOMAIN frames = 1..Len(frames)
  BY <1>1, <1>2, <1>3
<1>5. /\ NextPc[Len(frames)] = next
      /\ \A n \in DOMAIN frames : n # Len(frames) => NextPc[n] = frames[n]
  BY <1>1, <1>3
<1> QED BY <1>1, <1>2, <1>4, <1>5

(* Going on after an instruction, or leaving the frames on a trap, keeps   *)
(* what is said of the call stack.                                         *)
LEMMA ProceedKeeps ==
  ASSUME Inv, frames # <<>>, Proceed, UNCHANGED <<insts, registered, live>>
  PROVE  Control'
<1>1. /\ frames' = NextPc /\ job' = job /\ outcome' = outcome /\ insts' = insts
      /\ live' = live /\ registered' = registered
  BY DEF Proceed
<1>2. /\ frames' \in Seq(Frm) /\ Len(frames') = Len(frames) /\ DOMAIN frames' = DOMAIN frames
      /\ \A n \in DOMAIN frames : frames'[n].fn = frames[n].fn /\ frames'[n].want = frames[n].want
      /\ frames' # <<>>
  BY <1>1, NextPcFacts
<1>3. \A n \in DOMAIN frames' : (IsFunc(frames[n].fn))'
  <2>1. \A n \in DOMAIN frames : IsFunc(frames[n].fn)
    BY DEF Inv, TypeOK, ControlOK
  <2> QED BY <1>1, <1>2, <2>1 DEF IsFunc
<1>4. ControlOK'
  BY <1>1, <1>2, <1>3 DEF Inv, TypeOK, ControlOK, Frm
<1>5. CalledAsTyped'
  BY <1>1, <1>2 DEF Inv, CalledAsTyped, Defined
<1> QED BY <1>4, <1>5 DEF Control

(* ... or all of them are left by a trap ...                               *)
LEMMA TrapKeeps ==
  ASSUME Inv, frames # <<>>, TrapExec, UNCHANGED <<insts, registered, live>>
  PROVE  Control'
<1>1. /\ frames' = <<>> /\ job' = Idle /\ outcome' = "trapped" /\ insts' = insts
      /\ live' = live /\ registered' = registered
  BY DEF TrapExec, Ends
<1>2. frames' \in Seq(Frm) /\ Len(frames') = 0 /\ DOMAIN frames' = {}
  BY <1>1
<1>3. ControlOK'
  BY <1>1, <1>2, LinkerAssumption DEF Inv, TypeOK, ControlOK, Frm, Idle
<1>4. CalledAsTyped'
  BY <1>2 DEF CalledAsTyped
<1> QED BY <1>3, <1>4 DEF Control

(* ... or a function is entered, at its type, unless the cap is reached.   *)
LEMMA EnterKeeps ==
  ASSUME Inv, frames # <<>>, NEW f \in FuncRef, IsFunc(f), NEW want, Defined(f).type = want,
         Enter(f, want), UNCHANGED <<insts, registered, live>>
  PROVE  Control'
<1>1. CASE Len(frames) >= FrameCap
  BY <1>1, TrapKeeps DEF Enter
<1>2. CASE ~(Len(frames) >= FrameCap)
  <2>1. /\ frames' = Append(NextPc, Frame(f, want)) /\ job' = job /\ outcome' = outcome
        /\ insts' = insts /\ live' = live /\ registered' = registered
    BY <1>2 DEF Enter
  <2>2. Len(frames) \in Nat /\ Len(frames) >= 1
    BY TopFacts
  <2>3. Frame(f, want) \in Frm /\ Frame(f, want).fn = f /\ Frame(f, want).want = want
    BY FuncFacts DEF Frame, Frm
  <2>4. /\ NextPc \in Seq(Frm) /\ Len(NextPc) = Len(frames) /\ DOMAIN frames = 1..Len(frames)
        /\ \A n \in DOMAIN frames : NextPc[n].fn = frames[n].fn /\ NextPc[n].want = frames[n].want
    BY NextPcFacts
  <2>5. /\ frames' \in Seq(Frm) /\ Len(frames') = Len(frames) + 1
        /\ frames'[Len(frames) + 1] = Frame(f, want)
        /\ \A n \in DOMAIN frames : frames'[n] = NextPc[n]
        /\ DOMAIN frames' = 1..(Len(frames) + 1)
    BY <2>1, <2>2, <2>3, <2>4
  <2>6. \A n \in DOMAIN frames' : n \in DOMAIN frames \/ n = Len(frames) + 1
    BY <2>2, <2>5
  <2>7. \A n \in DOMAIN frames' : (IsFunc(frames[n].fn))'
    <3>1. \A n \in DOMAIN frames : IsFunc(frames[n].fn)
      BY DEF Inv, TypeOK, ControlOK
    <3> QED BY <2>1, <2>3, <2>4, <2>5, <2>6, <3>1 DEF IsFunc
  <2>8. \A n \in DOMAIN frames' : (Defined(frames[n].fn).type = frames[n].want)'
    <3>1. \A n \in DOMAIN frames : Defined(frames[n].fn).type = frames[n].want
      BY DEF Inv, CalledAsTyped
    <3>2. insts' = insts
      BY <2>1
    <3>3. ASSUME NEW n \in DOMAIN frames
          PROVE  insts'[frames'[n].fn.inst].module.funcs[frames'[n].fn.idx].type = frames'[n].want
      <4>1. frames'[n].fn = frames[n].fn /\ frames'[n].want = frames[n].want
        BY <2>4, <2>5
      <4> QED BY <3>1, <3>2, <4>1 DEF Defined
    <3>4. insts'[f.inst].module.funcs[f.idx].type = want
      BY <3>2 DEF Defined
    <3>5. \A n \in DOMAIN frames' :
            insts'[frames'[n].fn.inst].module.funcs[frames'[n].fn.idx].type = frames'[n].want
      BY <2>3, <2>5, <2>6, <3>3, <3>4
    <3> QED BY <3>5 DEF Defined
  <2>9. Len(frames') <= FrameCap
    BY <1>2, <2>2, <2>5, LinkerAssumption
  <2>10. frames' # <<>>
    BY <2>2, <2>5
  <2>11. ControlOK'
    BY <2>1, <2>5, <2>7, <2>9, <2>10 DEF Inv, TypeOK, ControlOK, Frm
  <2> QED BY <2>8, <2>11 DEF Control, CalledAsTyped
<1> QED BY <1>1, <1>2

----------------------------------------------------------------------------
(* The steps that leave the heap alone.                                    *)
LEMMA RunningFacts ==
  ASSUME Inv, NEW op, Running(op)
  PROVE  /\ frames # <<>> /\ ins \in Instr /\ ins.op = op /\ InstrOK(home.module, ins)
         /\ top.fn.inst \in DOMAIN insts /\ home = insts[top.fn.inst] /\ home \in Instance
         /\ home.module \in Modules
  BY TopFacts DEF Running, home

(* The first frame of a call is that of a function that exists, entered at *)
(* its own type.                                                           *)
LEMMA FirstFrame ==
  ASSUME Inv, NEW f \in FuncRef, IsFunc(f), frames' = <<Frame(f, Defined(f).type)>>,
         UNCHANGED insts
  PROVE  /\ frames' \in Seq(Frm) /\ Len(frames') = 1 /\ frames' # <<>>
         /\ \A n \in DOMAIN frames' : (IsFunc(frames[n].fn))'
         /\ CalledAsTyped'
<1>1. /\ Frame(f, Defined(f).type) \in Frm /\ Frame(f, Defined(f).type).fn = f
      /\ Frame(f, Defined(f).type).want = Defined(f).type
  BY FuncFacts DEF Frame, Frm
<1>2. /\ frames' \in Seq(Frm) /\ Len(frames') = 1 /\ frames' # <<>> /\ DOMAIN frames' = {1}
      /\ frames'[1] = Frame(f, Defined(f).type)
  BY <1>1
<1>3. \A n \in DOMAIN frames' : (IsFunc(frames[n].fn))'
  BY <1>1, <1>2 DEF IsFunc
<1>4. CalledAsTyped'
  BY <1>1, <1>2 DEF CalledAsTyped, Defined
<1> QED BY <1>2, <1>3, <1>4

(* What an instance exports as a function is one.                          *)
LEMMA SpaceIsFunc ==
  ASSUME Inv, NEW i \in DOMAIN insts, NEW n \in 1..Size(insts[i].module, "func")
  PROVE  insts[i].func[n] \in FuncRef /\ IsFunc(insts[i].func[n])
         /\ insts[i].func[n].inst <= i
         /\ Defined(insts[i].func[n]).type = Assumed(i, n)
<1>1. n \in DOMAIN insts[i].func /\ insts[i] \in Instance
  BY InstanceFacts DEF Kinds
<1>2. IsFunc(insts[i].func[n]) /\ insts[i].func[n].inst <= i
  BY <1>1 DEF Inv, TypeOK, InstancesOK
<1>3. Defined(insts[i].func[n]).type = Assumed(i, n)
  BY <1>1 DEF Inv, AsDeclared
<1>4. insts[i].func[n] \in FuncRef
  BY <1>1 DEF Instance
<1> QED BY <1>2, <1>3, <1>4

(* Calling the start function, or finding none, keeps the call stack       *)
(* sound.                                                                  *)
LEMMA StartKeeps ==
  ASSUME Inv, Start
  PROVE  Control'
<1>1. insts' = insts /\ registered' = registered /\ job.at = "start"
  BY DEF Start
<1>2. job \in JobType /\ job.inst \in DOMAIN insts /\ frames = <<>>
  BY <1>1 DEF Inv, TypeOK, ControlOK, Idle, JobType
<1>3. CASE This.module.start = 0
  <2>1. job' = Idle /\ outcome' = "returned" /\ live' = live \cup {job.inst} /\ frames' = <<>>
    BY <1>2, <1>3 DEF Start, Ends
  <2>2. ControlOK'
    BY <1>1, <1>2, <2>1 DEF Inv, TypeOK, ControlOK, Idle
  <2>3. CalledAsTyped'
    BY <2>1 DEF CalledAsTyped
  <2> QED BY <2>2, <2>3 DEF Control
<1>4. CASE This.module.start # 0
  <2> DEFINE f == This.func[This.module.start]
  <2>1. /\ frames' = <<Frame(f, Defined(f).type)>> /\ live' = live /\ outcome' = outcome
        /\ job' = [job EXCEPT !.at = "started", !.k = 1]
    BY <1>4 DEF Start, Continue
  <2>2. This.module.start \in 1..Size(This.module, "func")
    <3>1. This.module \in Modules
      BY <1>2, InstanceFacts DEF This
    <3>2. Validated(This.module) /\ This.module.start \in Nat
      BY <3>1, ModuleFacts
    <3> QED BY <1>4, <3>2 DEF Validated
  <2>3. f \in FuncRef /\ IsFunc(f)
    BY <1>2, <2>2, SpaceIsFunc DEF This
  <2> HIDE DEF f
  <2>4. /\ frames' \in Seq(Frm) /\ Len(frames') = 1 /\ frames' # <<>>
        /\ \A n \in DOMAIN frames' : (IsFunc(frames[n].fn))'
        /\ CalledAsTyped'
    BY <1>1, <2>1, <2>3, FirstFrame
  <2>5. job' \in JobType /\ job'.at = "started" /\ job'.inst = job.inst /\ job'.k > 0
    <3>1. /\ job.inst \in Nat
          /\ job = [at |-> job.at, inst |-> job.inst, k |-> job.k]
      BY <1>2 DEF JobType
    <3>2. job' = [at |-> "started", inst |-> job.inst, k |-> 1]
      BY <2>1, <3>1
    <3> QED BY <3>1, <3>2 DEF JobType
  <2>6. ControlOK'
    BY <1>1, <1>2, <2>1, <2>4, <2>5, LinkerAssumption
       DEF Inv, TypeOK, ControlOK, Frm, JobType
  <2> QED BY <2>4, <2>6 DEF Control
<1> QED BY <1>3, <1>4

(* An invocation from outside enters a function at its own type, or finds  *)
(* no function.                                                            *)
LEMMA InvokeKeeps ==
  ASSUME Inv, NEW i \in live, NEW e \in DOMAIN Exports(i), Invoke(i, e)
  PROVE  Control'
<1> DEFINE f == Exported(i, e)
<1>1. /\ insts' = insts /\ registered' = registered /\ live' = live
      /\ Exports(i)[e].kind = "func" /\ frames' = <<Frame(f, Defined(f).type)>>
      /\ job' = [at |-> "invoke", inst |-> i, k |-> e] /\ outcome' = "running"
  BY DEF Invoke
<1>2. i \in DOMAIN insts /\ i \in Nat /\ insts[i].module \in Modules
  <2>1. i \in DOMAIN insts
    BY DEF Inv, TypeOK, ControlOK
  <2> QED BY <2>1, InstanceFacts
<1>3. e \in Nat /\ e > 0 /\ Exports(i)[e].idx \in 1..Size(insts[i].module, "func")
  <2>1. insts[i].module.exports \in Seq([kind : Kinds, idx : Nat]) /\ Validated(insts[i].module)
    BY <1>2, ModuleFacts
  <2>2. e \in Nat /\ e > 0
    BY <2>1 DEF Exports
  <2> QED BY <1>1, <2>1, <2>2 DEF Validated, Exports
<1>4. f \in FuncRef /\ IsFunc(f)
  BY <1>1, <1>2, <1>3, SpaceIsFunc DEF Exported
<1> HIDE DEF f
<1>5. /\ frames' \in Seq(Frm) /\ Len(frames') = 1 /\ frames' # <<>>
      /\ \A n \in DOMAIN frames' : (IsFunc(frames[n].fn))'
      /\ CalledAsTyped'
  BY <1>1, <1>4, FirstFrame
<1>6. job' \in JobType /\ job'.at = "invoke" /\ job'.inst = i /\ job'.k > 0
  BY <1>1, <1>2, <1>3 DEF JobType
<1>7. ControlOK'
  BY <1>1, <1>2, <1>5, <1>6, LinkerAssumption DEF Inv, TypeOK, ControlOK, Frm, JobType
<1> QED BY <1>5, <1>7 DEF Control

(* Giving an alias or withdrawing one changes no object and no frame. *)
LEMMA RegisterKeeps ==
  ASSUME Inv, NEW a \in Aliases,
         Unregister(a) \/ \E i \in live : Register(i, a)
  PROVE  Control'
<1>1. /\ insts' = insts /\ live' = live /\ job' = job /\ frames' = frames /\ outcome' = outcome
      /\ \E i \in live \cup {0} : registered' = [registered EXCEPT ![a] = i]
  BY DEF Unregister, Register
<1>2. registered' \in [Aliases -> live \cup {0}]
  BY <1>1 DEF Inv, TypeOK, ControlOK
<1>3. \A n \in DOMAIN frames' : (IsFunc(frames[n].fn))'
  BY <1>1 DEF Inv, TypeOK, ControlOK, IsFunc
<1>4. ControlOK'
  BY <1>1, <1>2, <1>3 DEF Inv, TypeOK, ControlOK
<1>5. CalledAsTyped'
  BY <1>1 DEF Inv, CalledAsTyped, Defined
<1> QED BY <1>4, <1>5 DEF Control

(* A direct call prepares the entry of a function of the caller's          *)
(* instance.                                                               *)
LEMMA CallKeeps ==
  ASSUME Inv, Call
  PROVE  Control'
<1>1. /\ Running("call") /\ Enter(home.func[ins.f], Assumed(top.fn.inst, ins.f))
      /\ UNCHANGED <<insts, registered, live>>
  BY DEF Call
<1>2. /\ frames # <<>> /\ ins.f \in 1..Size(home.module, "func")
      /\ top.fn.inst \in DOMAIN insts /\ home = insts[top.fn.inst]
  BY <1>1, RunningFacts DEF InstrOK
<1>3. /\ home.func[ins.f] \in FuncRef /\ IsFunc(home.func[ins.f])
      /\ Defined(home.func[ins.f]).type = Assumed(top.fn.inst, ins.f)
  BY <1>2, SpaceIsFunc
<1> QED BY <1>1, <1>2, <1>3, EnterKeeps

(* An indirect call prepares an entry only when the table's function has   *)
(* the expected type.                                                      *)
LEMMA CallIndirectKeeps ==
  ASSUME Inv, CallIndirect
  PROVE  Control'
<1> DEFINE t == home.table[1]
           entries == tabs[t].entries
           f == entries[ins.slot + 1]
<1>1. Running("call_indirect") /\ UNCHANGED <<insts, registered, live>>
  BY DEF CallIndirect
<1>2. /\ frames # <<>> /\ ins \in Instr /\ ins.op = "call_indirect"
      /\ top.fn.inst \in DOMAIN insts /\ home = insts[top.fn.inst]
      /\ Size(home.module, "table") > 0 /\ home.module \in Modules
  BY <1>1, RunningFacts DEF InstrOK
<1>3. t \in DOMAIN tabs
  <2>1. Size(home.module, "table") \in Nat
    BY <1>2, ModuleFacts DEF Kinds
  <2>2. 1 \in DOMAIN insts[top.fn.inst].table
    BY <1>2, <2>1, InstanceFacts DEF Kinds
  <2> QED BY <1>2, <2>2 DEF Inv, TypeOK, InstancesOK
<1>4. entries \in Seq(FuncRef) /\ \A e \in DOMAIN entries : entries[e] = Null \/ IsFunc(entries[e])
  <2>1. tabs \in Seq(Tab)
    BY DEF Inv, TypeOK, HeapOK, Tab
  <2>2. tabs[t] \in Tab
    BY <1>3, <2>1
  <2> QED BY <1>3, <2>2 DEF Inv, TypeOK, HeapOK, Tab
<1>5. ins.slot \in Nat
  BY <1>2 DEF Instr
<1>6. CASE TrapExec
  BY <1>1, <1>2, <1>6, TrapKeeps
<1>7. CASE ~TrapExec
  <2>1. /\ ~(ins.slot >= Len(entries)) /\ f # Null /\ Defined(f).type = ins.type
        /\ Enter(f, ins.type)
    BY <1>7 DEF CallIndirect
  <2>2. ins.slot + 1 \in DOMAIN entries
    <3> HIDE DEF entries
    <3> QED BY <1>4, <1>5, <2>1
  <2>3. f \in FuncRef /\ IsFunc(f)
    <3> HIDE DEF entries
    <3> QED BY <1>4, <2>1, <2>2
  <2> HIDE DEF f
  <2> QED BY <1>1, <1>2, <2>1, <2>3, EnterKeeps
<1> QED BY <1>6, <1>7

(* A prefix of a sequence. *)
LEMMA SubSeqFacts ==
  ASSUME NEW S, NEW s \in Seq(S), NEW n \in 0..Len(s)
  PROVE  /\ SubSeq(s, 1, n) \in Seq(S) /\ Len(SubSeq(s, 1, n)) = n
         /\ \A i \in 1..n : SubSeq(s, 1, n)[i] = s[i]
  OBVIOUS

(* Leaving a frame keeps what is said of those below. *)
LEMMA ReturnKeeps ==
  ASSUME Inv, Return
  PROVE  Control'
<1>1. /\ frames # <<>> /\ frames' = SubSeq(frames, 1, Len(frames) - 1)
      /\ insts' = insts /\ registered' = registered
  BY DEF Return
<1>2. frames \in Seq(Frm) /\ Len(frames) \in Nat /\ Len(frames) >= 1
      /\ job \in JobType /\ job.at \in {"started", "invoke"} /\ job.inst \in DOMAIN insts
  <2>1. job.inst \in DOMAIN insts
    BY <1>1 DEF Inv, TypeOK, ControlOK, Idle
  <2> QED BY <1>1, <2>1, TopFacts
<1>3. /\ frames' \in Seq(Frm) /\ Len(frames') = Len(frames) - 1
      /\ DOMAIN frames' = 1..(Len(frames) - 1)
      /\ \A n \in DOMAIN frames' : n \in DOMAIN frames /\ frames'[n] = frames[n]
  <2> DEFINE k == Len(frames) - 1
  <2>1. k \in 0..Len(frames) /\ DOMAIN frames = 1..Len(frames)
    BY <1>2
  <2>2. SubSeq(frames, 1, k) \in Seq(Frm) /\ Len(SubSeq(frames, 1, k)) = k
    BY <1>2, <2>1, SubSeqFacts
  <2>3. /\ DOMAIN SubSeq(frames, 1, k) = 1..k
        /\ \A n \in 1..k : SubSeq(frames, 1, k)[n] = frames[n]
    BY <1>2, <2>1, <2>2, SubSeqFacts
  <2>4. 1..k \subseteq DOMAIN frames
    BY <1>2, <2>1
  <2> QED BY <1>1, <2>2, <2>3, <2>4
<1>4. \A n \in DOMAIN frames' : (IsFunc(frames[n].fn))'
  BY <1>1, <1>3 DEF Inv, TypeOK, ControlOK, IsFunc
<1>5. CalledAsTyped'
  BY <1>1, <1>3 DEF Inv, CalledAsTyped, Defined
<1>6. CASE Len(frames) > 1
  <2>1. job' = job /\ outcome' = outcome /\ live' = live
    BY <1>6 DEF Return
  <2>2. frames' # <<>> /\ Len(frames') <= FrameCap
    BY <1>2, <1>3, <1>6, LinkerAssumption DEF Inv, TypeOK, ControlOK
  <2>3. ControlOK'
    BY <1>1, <1>2, <1>3, <1>4, <2>1, <2>2 DEF Inv, TypeOK, ControlOK, Frm
  <2> QED BY <1>5, <2>3 DEF Control
<1>7. CASE ~(Len(frames) > 1)
  <2>1. /\ job' = Idle /\ outcome' = "returned"
        /\ live' = IF job.at = "started" THEN live \cup {job.inst} ELSE live
    BY <1>7 DEF Return, Ends
  <2>2. frames' = <<>> /\ Len(frames') <= FrameCap
    BY <1>2, <1>3, <1>7, LinkerAssumption
  <2>3. live' \subseteq DOMAIN insts /\ live \subseteq live'
    BY <1>2, <2>1 DEF Inv, TypeOK, ControlOK
  <2>4. registered' \in [Aliases -> live' \cup {0}]
    BY <1>1, <2>3 DEF Inv, TypeOK, ControlOK
  <2>5. ControlOK'
    BY <1>1, <1>2, <1>3, <1>4, <2>1, <2>2, <2>3, <2>4 DEF Inv, TypeOK, ControlOK, Frm, Idle
  <2> QED BY <1>5, <2>5 DEF Control
<1> QED BY <1>6, <1>7

----------------------------------------------------------------------------
(* The steps that write an object, in place.                               *)

\* What a written memory, table or cell must still be.
LEMMA MemoryWritten ==
  ASSUME Inv, NEW o \in DOMAIN mems, NEW data \in Seq(Nat),
         Len(mems[o].data) <= Len(data),
         Len(data) <= (IF mems[o].max = NoMax THEN MaxPages ELSE mems[o].max),
         mems' = [mems EXCEPT ![o].data = data], UNCHANGED <<insts, tabs, cells>>
  PROVE  WritesInPlace
<1> DEFINE new == [mems[o] EXCEPT !.data = data]
<1>1. mems \in Seq(Mem) /\ mems[o] \in Mem
  <2>1. mems \in Seq(Mem)
    BY DEF Inv, TypeOK, HeapOK, Mem
  <2> QED BY <2>1
<1>2. new \in Mem /\ new.data = data /\ new.max = mems[o].max
  BY <1>1 DEF Mem
<1>3. mems' = [mems EXCEPT ![o] = new]
  OBVIOUS
<1> HIDE DEF new
<1>4. /\ mems' \in Seq(Mem) /\ DOMAIN mems' = DOMAIN mems
      /\ mems'[o] = new /\ \A p \in DOMAIN mems : p # o => mems'[p] = mems[p]
  <2>1. mems \in Seq(Mem) /\ new \in Mem
    BY <1>1, <1>2
  <2>2. mems' = [mems EXCEPT ![o] = new]
    BY <1>3
  <2>3. mems' \in Seq(Mem)
    BY ONLY <2>1, <2>2, o \in DOMAIN mems
  <2> QED BY ONLY <2>1, <2>2, <2>3, o \in DOMAIN mems
<1>5. \A p \in DOMAIN mems : Len(mems[p].data) \in Nat
  <2>1. \A p \in DOMAIN mems : mems[p] \in Mem
    BY <1>1
  <2> QED BY <2>1 DEF Mem
<1>6. HeapOK'
  BY <1>4 DEF Inv, TypeOK, HeapOK, Mem, IsFunc
<1>7. Capped'
  BY <1>2, <1>4 DEF Inv, Capped
<1>8. \A p \in DOMAIN mems : /\ mems'[p].max = mems[p].max
                             /\ Len(mems[p].data) <= Len(mems'[p].data)
  BY <1>2, <1>4, <1>5
<1> QED BY <1>4, <1>6, <1>7, <1>8 DEF WritesInPlace

(* Putting functions that exist into a table of the same length is a write *)
(* in place.                                                               *)
LEMMA TableWritten ==
  ASSUME Inv, NEW t \in DOMAIN tabs, NEW entries \in Seq(FuncRef),
         Len(entries) = Len(tabs[t].entries),
         \A e \in DOMAIN entries : entries[e] = Null \/ IsFunc(entries[e]),
         tabs' = [tabs EXCEPT ![t].entries = entries], UNCHANGED <<insts, mems, cells>>
  PROVE  WritesInPlace
<1> DEFINE new == [tabs[t] EXCEPT !.entries = entries]
<1>1. tabs \in Seq(Tab) /\ tabs[t] \in Tab /\ mems \in Seq(Mem)
  <2>1. tabs \in Seq(Tab) /\ mems \in Seq(Mem)
    BY DEF Inv, TypeOK, HeapOK, Tab, Mem
  <2> QED BY <2>1
<1>2. new \in Tab /\ new.entries = entries /\ new.max = tabs[t].max
  BY <1>1 DEF Tab
<1>3. tabs' = [tabs EXCEPT ![t] = new]
  OBVIOUS
<1> HIDE DEF new
<1>4. /\ tabs' \in Seq(Tab) /\ DOMAIN tabs' = DOMAIN tabs
      /\ tabs'[t] = new /\ \A p \in DOMAIN tabs : p # t => tabs'[p] = tabs[p]
  <2>1. tabs \in Seq(Tab) /\ new \in Tab
    BY <1>1, <1>2
  <2>2. tabs' = [tabs EXCEPT ![t] = new]
    BY <1>3
  <2>3. tabs' \in Seq(Tab)
    BY ONLY <2>1, <2>2, t \in DOMAIN tabs
  <2> QED BY ONLY <2>1, <2>2, <2>3, t \in DOMAIN tabs
<1>5. \A p \in DOMAIN tabs' : \A e \in DOMAIN tabs'[p].entries :
        tabs'[p].entries[e] = Null \/ (IsFunc(tabs[p].entries[e]))'
  <2> SUFFICES ASSUME NEW p \in DOMAIN tabs', NEW e \in DOMAIN tabs'[p].entries,
                      tabs'[p].entries[e] # Null
               PROVE  (IsFunc(tabs[p].entries[e]))'
    OBVIOUS
  <2>1. CASE p = t
    BY <1>2, <1>4, <2>1 DEF IsFunc
  <2>2. CASE p # t
    BY <1>4, <2>2 DEF Inv, TypeOK, HeapOK, IsFunc
  <2> QED BY <2>1, <2>2
<1>6. HeapOK'
  BY <1>4, <1>5 DEF Inv, TypeOK, HeapOK, Tab
<1>7. Capped'
  BY <1>2, <1>4 DEF Inv, Capped
<1>8. \A p \in DOMAIN tabs : /\ tabs'[p].max = tabs[p].max
                             /\ Len(tabs'[p].entries) = Len(tabs[p].entries)
  BY <1>2, <1>4
<1>9. \A o \in DOMAIN mems : Len(mems[o].data) \in Nat
  <2>1. \A o \in DOMAIN mems : mems[o] \in Mem
    BY <1>1
  <2> QED BY <2>1 DEF Mem
<1> QED BY <1>4, <1>6, <1>7, <1>8, <1>9 DEF WritesInPlace

(* Setting the value of a global's cell is a write in place. *)
LEMMA CellWritten ==
  ASSUME Inv, NEW c \in DOMAIN cells, NEW v \in Nat,
         cells' = [cells EXCEPT ![c].value = v], UNCHANGED <<insts, mems, tabs>>
  PROVE  WritesInPlace
<1> DEFINE new == [cells[c] EXCEPT !.value = v]
<1>1. cells \in Seq(Cell) /\ cells[c] \in Cell /\ mems \in Seq(Mem)
  <2>1. cells \in Seq(Cell) /\ mems \in Seq(Mem)
    BY DEF Inv, TypeOK, HeapOK, Cell, Mem
  <2> QED BY <2>1
<1>2. new \in Cell /\ new.mut = cells[c].mut
  BY <1>1 DEF Cell
<1>3. cells' = [cells EXCEPT ![c] = new]
  OBVIOUS
<1> HIDE DEF new
<1>4. /\ cells' \in Seq(Cell) /\ DOMAIN cells' = DOMAIN cells
      /\ \A p \in DOMAIN cells : cells'[p].mut = cells[p].mut
  BY <1>1, <1>2, <1>3
<1>5. HeapOK'
  BY <1>4 DEF Inv, TypeOK, HeapOK, Cell, IsFunc
<1>6. Capped'
  BY DEF Inv, Capped
<1>7. \A o \in DOMAIN mems : Len(mems[o].data) \in Nat
  <2>1. \A o \in DOMAIN mems : mems[o] \in Mem
    BY <1>1
  <2> QED BY <2>1 DEF Mem
<1> QED BY <1>4, <1>5, <1>6, <1>7 DEF WritesInPlace

(* The table of an instance that has one exists, and holds functions that  *)
(* exist or none.                                                          *)
LEMMA FirstTable ==
  ASSUME Inv, NEW i \in DOMAIN insts, Size(insts[i].module, "table") > 0
  PROVE  /\ insts[i].table[1] \in DOMAIN tabs
         /\ tabs[insts[i].table[1]].entries \in Seq(FuncRef)
         /\ \A e \in DOMAIN tabs[insts[i].table[1]].entries :
              LET f == tabs[insts[i].table[1]].entries[e] IN f = Null \/ IsFunc(f)
<1> DEFINE t == insts[i].table[1]
<1>1. t \in DOMAIN tabs
  <2>1. Size(insts[i].module, "table") \in Nat
    BY InstanceFacts, ModuleFacts DEF Kinds
  <2>2. 1 \in DOMAIN insts[i].table
    BY <2>1, InstanceFacts DEF Kinds
  <2> QED BY <2>2 DEF Inv, TypeOK, InstancesOK
<1>2. tabs[t] \in Tab
  <2>1. tabs \in Seq(Tab)
    BY DEF Inv, TypeOK, HeapOK, Tab
  <2> QED BY <1>1, <2>1
<1> QED BY <1>1, <1>2 DEF Inv, TypeOK, HeapOK, Tab

(* The memory of an instance that has one exists, and is no larger than it *)
(* may be.                                                                 *)
LEMMA FirstMemory ==
  ASSUME Inv, NEW i \in DOMAIN insts, Size(insts[i].module, "memory") > 0
  PROVE  LET o == insts[i].memory[1]
         IN  /\ o \in DOMAIN mems /\ mems[o].data \in Seq(Nat)
             /\ mems[o].max \in Nat \cup {NoMax}
             /\ Len(mems[o].data) <= (IF mems[o].max = NoMax THEN MaxPages ELSE mems[o].max)
<1> DEFINE o == insts[i].memory[1]
<1>1. o \in DOMAIN mems
  <2>1. Size(insts[i].module, "memory") \in Nat
    BY InstanceFacts, ModuleFacts DEF Kinds
  <2>2. 1 \in DOMAIN insts[i].memory
    BY <2>1, InstanceFacts DEF Kinds
  <2> QED BY <2>2 DEF Inv, TypeOK, InstancesOK
<1>2. mems[o] \in Mem
  <2>1. mems \in Seq(Mem)
    BY DEF Inv, TypeOK, HeapOK, Mem
  <2> QED BY <1>1, <2>1
<1>3. mems[o].data \in Seq(Nat) /\ mems[o].max \in Nat \cup {NoMax}
  BY <1>2 DEF Mem
<1>4. Len(mems[o].data) <= (IF mems[o].max = NoMax THEN MaxPages ELSE mems[o].max)
  BY <1>1 DEF Inv, Capped
<1> QED BY <1>1, <1>3, <1>4

(* A constant expression has a value: the globals it may read are imported *)
(* ones, which are there before the instance is.                           *)
LEMMA ConstIsValue ==
  ASSUME Inv, NEW m \in Modules, NEW e \in ConstExpr, ConstOK(m, e), NEW space,
         \A n \in 1..Len(Imports(m, "global")) : space[n] \in DOMAIN cells
  PROVE  Const(e, space, cells) \in Nat
<1>1. CASE e.op = "const"
  BY <1>1 DEF Const, ConstExpr
<1>2. CASE e.op = "global.get"
  <2>1. space[e.idx] \in DOMAIN cells
    BY <1>2 DEF ConstOK
  <2>2. cells[space[e.idx]] \in Cell
    <3>1. cells \in Seq(Cell)
      BY DEF Inv, TypeOK, HeapOK, Cell
    <3> QED BY <2>1, <3>1
  <2> QED BY <1>2, <2>2 DEF Const, Cell
<1> QED BY <1>1, <1>2 DEF ConstExpr

(* A constant expression that was found valid has a value in its instance. *)
LEMMA OffsetIsValue ==
  ASSUME Inv, NEW i \in DOMAIN insts, NEW e \in ConstExpr, ConstOK(insts[i].module, e)
  PROVE  Const(e, insts[i].global, cells) \in Nat
<1> DEFINE m == insts[i].module
<1>1. m \in Modules /\ "global" \in Kinds /\ DOMAIN insts[i].global = 1..Size(m, "global")
  BY InstanceFacts DEF Kinds
<1>2. \A n \in 1..Len(Imports(m, "global")) : n \in DOMAIN insts[i].global
  BY <1>1, ImportsFacts, ModuleFacts
<1>3. \A n \in 1..Len(Imports(m, "global")) : insts[i].global[n] \in DOMAIN cells
  BY <1>2 DEF Inv, TypeOK, InstancesOK
<1> QED BY <1>1, <1>3, ConstIsValue

(* The control of a segment, applied or trapping.                          *)
LEMMA SegmentKeeps ==
  ASSUME Inv, job.at \in {"elem", "data"}, UNCHANGED <<insts, registered, live, frames>>,
         Ends("trapped") \/ \E at \in {"elem", "data", "start"} : \E k \in Nat \ {0} : Continue(at, k)
  PROVE  Control'
<1>1. job \in JobType /\ job.inst \in DOMAIN insts /\ frames = <<>>
  BY DEF Inv, TypeOK, ControlOK, JobType, Idle
<1>2. CalledAsTyped'
  BY <1>1 DEF CalledAsTyped
<1>3. job' \in JobType /\ job'.at \notin {"started", "invoke"}
      /\ (job' = Idle \/ (job'.at # "idle" /\ job'.inst \in DOMAIN insts /\ job'.k > 0))
  <2>1. CASE Ends("trapped")
    BY <2>1 DEF Ends, Idle, JobType
  <2>2. CASE \E at \in {"elem", "data", "start"} : \E k \in Nat \ {0} : Continue(at, k)
    <3>1. PICK at \in {"elem", "data", "start"}, k \in Nat \ {0} : Continue(at, k)
      BY <2>2
    <3>2. job.inst \in Nat /\ job = [at |-> job.at, inst |-> job.inst, k |-> job.k]
      BY <1>1 DEF JobType
    <3>3. job' = [at |-> at, inst |-> job.inst, k |-> k]
      BY <3>1, <3>2 DEF Continue
    <3> QED BY <1>1, <3>2, <3>3 DEF JobType
  <2> QED BY <2>1, <2>2
<1>4. outcome' \in {"trapped", outcome}
  BY DEF Ends, Continue
<1>5. ControlOK'
  BY <1>1, <1>3, <1>4 DEF Inv, TypeOK, ControlOK, JobType
<1> QED BY <1>2, <1>5 DEF Control

(* The instance whose segments are being applied exists. *)
LEMMA ThisFacts ==
  ASSUME Inv, job.at \in {"elem", "data", "start"}
  PROVE  /\ job.inst \in DOMAIN insts /\ job.inst \in Nat /\ This = insts[job.inst]
         /\ This \in Instance /\ This.module \in Modules /\ job.k \in Nat /\ job.k > 0
<1>1. job \in JobType /\ job.inst \in DOMAIN insts /\ job.k > 0
  BY DEF Inv, TypeOK, ControlOK, JobType, Idle
<1> QED BY <1>1, InstanceFacts DEF This, JobType

(* An element segment, applied or trapping, writes in place. *)
LEMMA ElemSegmentKeeps ==
  ASSUME Inv, ElemSegment
  PROVE  WritesInPlace /\ Control'
<1> DEFINE seg == This.module.elems[job.k]
           t == This.table[1]
           old == tabs[t].entries
           off == Offset(seg)
           new == [e \in DOMAIN old |-> IF e - 1 \in off..(off + Len(seg.idxs) - 1)
                                        THEN This.func[seg.idxs[e - off]] ELSE old[e]]
<1>1. /\ job.at = "elem"
      /\ insts' = insts /\ mems' = mems /\ cells' = cells
      /\ registered' = registered /\ live' = live /\ frames' = frames
  BY DEF ElemSegment
<1>2. /\ job.inst \in DOMAIN insts /\ This = insts[job.inst]
      /\ This \in Instance /\ This.module \in Modules /\ job.k \in Nat /\ job.k > 0
  BY <1>1, ThisFacts
<1>3. CASE job.k > Len(This.module.elems) \/ off + Len(seg.idxs) > Len(old)
  <2>1. tabs' = tabs /\ (Ends("trapped") \/ Continue("data", 1))
    BY <1>3 DEF ElemSegment
  <2>2. WritesInPlace
    BY <1>1, <2>1, QuietInPlace DEF heap
  <2> QED BY <1>1, <2>1, <2>2, SegmentKeeps
<1>4. CASE ~(job.k > Len(This.module.elems) \/ off + Len(seg.idxs) > Len(old))
  <2>1. tabs' = [tabs EXCEPT ![t].entries = new] /\ Continue("elem", job.k + 1)
    BY <1>4 DEF ElemSegment
  <2>2. Control'
    <3>1. job.k + 1 \in Nat \ {0}
      BY <1>2
    <3> QED BY <1>1, <2>1, <3>1, SegmentKeeps
  <2>3. /\ job.k \in DOMAIN This.module.elems /\ seg \in [off : ConstExpr, idxs : Seq(Nat)]
        /\ Validated(This.module)
    <3>1. This.module.elems \in Seq([off : ConstExpr, idxs : Seq(Nat)]) /\ Validated(This.module)
      BY <1>2, ModuleFacts
    <3>2. job.k \in DOMAIN This.module.elems
      BY <1>2, <1>4, <3>1
    <3> QED BY <3>1, <3>2, ElementOf
  <2>4. /\ Size(This.module, "table") > 0 /\ ConstOK(This.module, seg.off)
        /\ \A j \in DOMAIN seg.idxs : seg.idxs[j] \in 1..Size(This.module, "func")
    BY <2>3 DEF Validated
  <2>5. off \in Nat
    BY <1>2, <2>3, <2>4, OffsetIsValue DEF Offset
  <2>6. /\ t \in DOMAIN tabs /\ old \in Seq(FuncRef)
        /\ \A e \in DOMAIN old : old[e] = Null \/ IsFunc(old[e])
    BY <1>2, <2>4, FirstTable
  <2>7. ASSUME NEW e \in DOMAIN old
        PROVE  new[e] \in FuncRef /\ (new[e] = Null \/ IsFunc(new[e]))
    <3>1. CASE ~(e - 1 \in off..(off + Len(seg.idxs) - 1))
      <4> HIDE DEF off, seg, old
      <4>1. new[e] = old[e] /\ old[e] \in FuncRef
        BY <2>6, <3>1
      <4> QED BY <2>6, <4>1
    <3>2. CASE e - 1 \in off..(off + Len(seg.idxs) - 1)
      <4>1. new[e] = This.func[seg.idxs[e - off]]
        BY <3>2
      <4>2. e - off \in DOMAIN seg.idxs
        <5>1. e \in Nat /\ seg.idxs \in Seq(Nat)
          BY <2>3, <2>6
        <5> HIDE DEF off, seg
        <5> QED BY <2>5, <3>2, <5>1
      <4>3. seg.idxs[e - off] \in 1..Size(insts[job.inst].module, "func")
        BY <1>2, <2>4, <4>2
      <4> HIDE DEF new, seg, off
      <4>4. insts[job.inst].func[seg.idxs[e - off]] \in FuncRef
            /\ IsFunc(insts[job.inst].func[seg.idxs[e - off]])
        BY <1>2, <4>3, SpaceIsFunc
      <4> QED BY <1>2, <4>1, <4>4
    <3> QED BY <3>1, <3>2
  <2>8. new \in Seq(FuncRef) /\ Len(new) = Len(old) /\ DOMAIN new = DOMAIN old
    <3>1. DOMAIN new = 1..Len(old) /\ Len(old) \in Nat
      BY <2>6
    <3>2. new = [e \in 1..Len(old) |-> new[e]]
      BY <3>1
    <3> HIDE DEF new, old
    <3>3. \A e \in 1..Len(old) : new[e] \in FuncRef
      BY <2>6, <2>7
    <3> QED BY <3>1, <3>2, <3>3, <2>6
  <2> HIDE DEF new, t, off, seg
  <2>9. WritesInPlace
    BY <1>1, <2>1, <2>6, <2>7, <2>8, TableWritten
  <2> QED BY <2>2, <2>9
<1> QED BY <1>3, <1>4

(* A data segment, applied or trapping, writes in place. *)
LEMMA DataSegmentKeeps ==
  ASSUME Inv, DataSegment
  PROVE  WritesInPlace /\ Control'
<1> DEFINE seg == This.module.datas[job.k]
           o == This.memory[1]
           old == mems[o].data
           off == Offset(seg)
           new == [p \in DOMAIN old |-> IF p - 1 \in off..(off + seg.len - 1)
                                        THEN job.inst ELSE old[p]]
<1>1. /\ job.at = "data"
      /\ insts' = insts /\ tabs' = tabs /\ cells' = cells
      /\ registered' = registered /\ live' = live /\ frames' = frames
  BY DEF DataSegment
<1>2. /\ job.inst \in DOMAIN insts /\ job.inst \in Nat /\ This = insts[job.inst]
      /\ This \in Instance /\ This.module \in Modules /\ job.k \in Nat /\ job.k > 0
  BY <1>1, ThisFacts
<1>3. CASE job.k > Len(This.module.datas) \/ off + seg.len > Len(old)
  <2>1. mems' = mems /\ (Ends("trapped") \/ Continue("start", 1))
    BY <1>3 DEF DataSegment
  <2>2. WritesInPlace
    BY <1>1, <2>1, QuietInPlace DEF heap
  <2> QED BY <1>1, <2>1, <2>2, SegmentKeeps
<1>4. CASE ~(job.k > Len(This.module.datas) \/ off + seg.len > Len(old))
  <2>1. mems' = [mems EXCEPT ![o].data = new] /\ Continue("data", job.k + 1)
    BY <1>4 DEF DataSegment
  <2>2. Control'
    <3>1. job.k + 1 \in Nat \ {0}
      BY <1>2
    <3> QED BY <1>1, <2>1, <3>1, SegmentKeeps
  <2>3. Size(This.module, "memory") > 0
    <3>1. /\ This.module.datas \in Seq([off : ConstExpr, len : Nat])
          /\ Validated(This.module)
      BY <1>2, ModuleFacts
    <3>2. job.k \in DOMAIN This.module.datas
      BY <1>2, <1>4, <3>1
    <3> QED BY <3>1, <3>2 DEF Validated
  <2>4. /\ o \in DOMAIN mems /\ old \in Seq(Nat)
        /\ Len(old) <= (IF mems[o].max = NoMax THEN MaxPages ELSE mems[o].max)
    BY <1>2, <2>3, FirstMemory
  <2>5. new \in Seq(Nat) /\ Len(new) = Len(old)
    <3> HIDE DEF old, off, seg
    <3>1. DOMAIN new = 1..Len(old) /\ Len(old) \in Nat
      BY <2>4
    <3>2. \A p \in 1..Len(old) : new[p] \in Nat
      BY <1>2, <2>4
    <3>3. new = [p \in 1..Len(old) |-> new[p]]
      BY <3>1
    <3> HIDE DEF new
    <3> QED BY <3>1, <3>2, <3>3
  <2>6. /\ Len(mems[o].data) <= Len(new)
        /\ Len(new) <= (IF mems[o].max = NoMax THEN MaxPages ELSE mems[o].max)
    <3>1. Len(old) \in Nat
      BY <2>4
    <3> HIDE DEF new
    <3> QED BY <2>4, <2>5, <3>1
  <2> HIDE DEF new, o, seg, off
  <2>7. WritesInPlace
    BY <1>1, <2>1, <2>4, <2>5, <2>6, MemoryWritten
  <2> QED BY <2>2, <2>7
<1> QED BY <1>3, <1>4

(* memory.grow, refused or not, stays within the object's maximum. *)
LEMMA GrowKeeps ==
  ASSUME Inv, Grow
  PROVE  WritesInPlace /\ Control'
<1> DEFINE o == home.memory[1]
           old == mems[o].data
           cap == IF mems[o].max = NoMax THEN MaxPages ELSE mems[o].max
           more == [p \in 1..ins.by |-> 0]
<1>1. /\ Running("grow") /\ Proceed
      /\ insts' = insts /\ tabs' = tabs /\ cells' = cells
      /\ registered' = registered /\ live' = live
  BY DEF Grow
<1>2. /\ frames # <<>> /\ ins \in Instr /\ ins.op = "grow"
      /\ Size(home.module, "memory") > 0
      /\ top.fn.inst \in DOMAIN insts /\ home = insts[top.fn.inst]
  BY <1>1, RunningFacts DEF InstrOK
<1>3. Control'
  BY <1>1, <1>2, ProceedKeeps
<1>4. /\ o \in DOMAIN mems /\ old \in Seq(Nat) /\ mems[o].max \in Nat \cup {NoMax}
  BY <1>2, FirstMemory
<1>5. ins.by \in Nat
  BY <1>2 DEF Instr
<1>6. CASE Len(old) + ins.by > cap
  <2>1. mems' = mems
    BY <1>6 DEF Grow
  <2>2. WritesInPlace
    BY <1>1, <2>1, QuietInPlace DEF heap
  <2> QED BY <1>3, <2>2
<1>7. CASE ~(Len(old) + ins.by > cap)
  <2>1. mems' = [mems EXCEPT ![o].data = old \o more]
    BY <1>7 DEF Grow
  <2>2. cap \in Nat
    BY <1>4, LinkerAssumption
  <2>3. more \in Seq(Nat) /\ Len(more) = ins.by
    <3> HIDE DEF o
    <3> QED BY <1>5
  <2> HIDE DEF more
  <2>4. old \o more \in Seq(Nat) /\ Len(old \o more) = Len(old) + ins.by /\ Len(old) \in Nat
    <3> HIDE DEF old
    <3> QED BY <1>4, <2>3, ConcatFacts
  <2>5. Len(old) <= Len(old \o more) /\ Len(old \o more) <= cap
    <3> HIDE DEF old, cap
    <3> QED BY <1>5, <1>7, <2>2, <2>4
  <2> HIDE DEF o
  <2>6. WritesInPlace
    BY <1>1, <1>4, <2>1, <2>4, <2>5, MemoryWritten
  <2> QED BY <1>3, <2>6
<1> QED BY <1>6, <1>7

(* A store, in bounds or trapping, writes in place. *)
LEMMA MemStoreKeeps ==
  ASSUME Inv, MemStore
  PROVE  WritesInPlace /\ Control'
<1> DEFINE o == home.memory[1]
           old == mems[o].data
           new == [old EXCEPT ![ins.at + 1] = top.fn.inst]
<1>1. /\ Running("store")
      /\ insts' = insts /\ tabs' = tabs /\ cells' = cells
      /\ registered' = registered /\ live' = live
  BY DEF MemStore
<1>2. /\ frames # <<>> /\ ins \in Instr /\ ins.op = "store"
      /\ Size(home.module, "memory") > 0
      /\ top.fn.inst \in DOMAIN insts /\ top.fn.inst \in Nat /\ home = insts[top.fn.inst]
  BY <1>1, RunningFacts, InstanceFacts DEF InstrOK
<1>3. CASE ins.at >= Len(old)
  <2>1. mems' = mems /\ TrapExec
    BY <1>3 DEF MemStore
  <2>2. WritesInPlace
    BY <1>1, <2>1, QuietInPlace DEF heap
  <2> QED BY <1>1, <1>2, <2>1, <2>2, TrapKeeps
<1>4. CASE ~(ins.at >= Len(old))
  <2>1. mems' = [mems EXCEPT ![o].data = new] /\ Proceed
    BY <1>4 DEF MemStore
  <2>2. /\ o \in DOMAIN mems /\ old \in Seq(Nat)
        /\ Len(old) <= (IF mems[o].max = NoMax THEN MaxPages ELSE mems[o].max)
    BY <1>2, FirstMemory
  <2>3. new \in Seq(Nat) /\ Len(new) = Len(old) /\ Len(old) \in Nat
    <3>1. ins.at + 1 \in DOMAIN old /\ Len(old) \in Nat
      <4>1. ins.at \in Nat
        BY <1>2 DEF Instr
      <4> HIDE DEF old
      <4> QED BY <1>4, <2>2, <4>1
    <3> HIDE DEF old
    <3> QED BY <1>2, <2>2, <3>1, ReplaceFacts
  <2>4. /\ Len(mems[o].data) <= Len(new)
        /\ Len(new) <= (IF mems[o].max = NoMax THEN MaxPages ELSE mems[o].max)
    <3> HIDE DEF new
    <3> QED BY <2>2, <2>3
  <2> HIDE DEF new, o
  <2>5. WritesInPlace
    BY <1>1, <2>1, <2>2, <2>3, <2>4, MemoryWritten
  <2> QED BY <1>1, <1>2, <2>1, <2>5, ProceedKeeps
<1> QED BY <1>3, <1>4

(* global.set writes the cell of a global that its own module knows as     *)
(* mutable.                                                                *)
LEMMA GlobalSetKeeps ==
  ASSUME Inv, GlobalSet
  PROVE  /\ WritesInPlace /\ Control'
         /\ home.global[ins.idx] \in DOMAIN cells /\ cells[home.global[ins.idx]].mut
<1> DEFINE c == home.global[ins.idx]
<1>1. /\ Running("global.set") /\ Proceed
      /\ cells' = [cells EXCEPT ![c].value = ins.v]
      /\ insts' = insts /\ tabs' = tabs /\ mems' = mems
      /\ registered' = registered /\ live' = live
  BY DEF GlobalSet
<1>2. /\ frames # <<>> /\ ins \in Instr /\ ins.op = "global.set"
      /\ ins.idx \in 1..Size(home.module, "global") /\ Mutable(home.module, ins.idx)
      /\ top.fn.inst \in DOMAIN insts /\ home = insts[top.fn.inst]
  BY <1>1, RunningFacts DEF InstrOK
<1>3. ins.v \in Nat
  BY <1>2 DEF Instr
<1>4. ins.idx \in DOMAIN home.global
  BY <1>2, InstanceFacts DEF Kinds
<1>5. c \in DOMAIN cells
  BY <1>2, <1>4 DEF Inv, TypeOK, InstancesOK
<1>6. cells[c].mut = Mutable(home.module, ins.idx)
  BY <1>2, <1>4 DEF Inv, AsDeclared
<1> HIDE DEF c
<1>7. WritesInPlace
  BY <1>1, <1>3, <1>5, CellWritten
<1> QED BY <1>1, <1>2, <1>5, <1>6, <1>7, ProceedKeeps DEF c

----------------------------------------------------------------------------
(* instantiate: what an import resolves to is an object of its kind, of    *)
(* the type that the module declared.                                      *)
LEMMA LinkedFacts ==
  ASSUME Inv, NEW im \in Import, Links(im)
  PROVE  /\ im.kind = "func" =>
              /\ Object(im) \in FuncRef /\ IsFunc(Object(im))
              /\ Object(im).inst <= Len(insts) /\ Defined(Object(im)).type = im.type
         /\ im.kind = "table" =>
              /\ Object(im) \in DOMAIN tabs
              /\ LimitsMatch(Len(tabs[Object(im)].entries), tabs[Object(im)].max, im.type)
         /\ im.kind = "memory" =>
              /\ Object(im) \in DOMAIN mems
              /\ LimitsMatch(Len(mems[Object(im)].data), mems[Object(im)].max, im.type)
         /\ im.kind = "global" =>
              Object(im) \in DOMAIN cells /\ cells[Object(im)].mut = im.type
<1> DEFINE i == registered[im.from]
           e == im.field
           idx == Exports(i)[e].idx
<1>1. /\ i # 0 /\ e \in DOMAIN Exports(i) /\ Exports(i)[e].kind = im.kind
      /\ TypeMatches(im, Object(im))
  BY DEF Links, Resolves
<1>2. im.from \in Aliases /\ im.kind \in Kinds
  BY DEF Import, Kinds
<1>3. i \in DOMAIN insts
  BY <1>1, <1>2 DEF Inv, TypeOK, ControlOK
<1>4. idx \in 1..Size(insts[i].module, im.kind)
  <2>1. Validated(insts[i].module)
    BY <1>3, InstanceFacts, ModuleFacts
  <2> QED BY <1>1, <2>1 DEF Validated, Exports
<1>5. Object(im) = insts[i][im.kind][idx]
  BY <1>1 DEF Object, Exported
<1>6. idx \in DOMAIN insts[i][im.kind] /\ i \in Nat
  BY <1>2, <1>3, <1>4, InstanceFacts
<1>7. i <= Len(insts)
  BY <1>3 DEF Inv, TypeOK, InstancesOK
<1> HIDE DEF i, e, idx
<1>8. CASE im.kind = "func"
  <2>1. /\ Object(im) \in FuncRef /\ IsFunc(Object(im)) /\ Object(im).inst <= i
    BY <1>3, <1>4, <1>5, <1>8, SpaceIsFunc
  <2>2. Object(im).inst \in Nat /\ Len(insts) \in Nat
    BY <2>1 DEF FuncRef, Inv, TypeOK, InstancesOK
  <2>3. Defined(Object(im)).type = im.type
    BY <1>1, <1>8 DEF TypeMatches, LimitsFit
  <2> QED BY <1>6, <1>7, <1>8, <2>1, <2>2, <2>3
<1>9. CASE im.kind = "table"
  <2>1. Object(im) \in DOMAIN tabs
    BY <1>3, <1>5, <1>6, <1>9 DEF Inv, TypeOK, InstancesOK
  <2> QED BY <1>1, <1>9, <2>1 DEF TypeMatches, LimitsFit
<1>10. CASE im.kind = "memory"
  <2>1. Object(im) \in DOMAIN mems
    BY <1>3, <1>5, <1>6, <1>10 DEF Inv, TypeOK, InstancesOK
  <2> QED BY <1>1, <1>10, <2>1 DEF TypeMatches, LimitsFit
<1>11. CASE im.kind = "global"
  <2>1. Object(im) \in DOMAIN cells
    BY <1>3, <1>5, <1>6, <1>11 DEF Inv, TypeOK, InstancesOK
  <2> QED BY <1>1, <1>11, <2>1 DEF TypeMatches, LimitsFit
<1> QED BY <1>2, <1>8, <1>9, <1>10, <1>11 DEF Kinds

AllLink(m) == \A i \in DOMAIN m.imports : Links(m.imports[i])

(* Each import of a module that links has an object that matches it. *)
LEMMA ImportsLink ==
  ASSUME NEW m \in Modules, AllLink(m), NEW kind \in Kinds,
         NEW n \in DOMAIN Imports(m, kind)
  PROVE  /\ Imports(m, kind)[n] \in Import /\ Imports(m, kind)[n].kind = kind
         /\ Links(Imports(m, kind)[n])
  BY ImportsFacts DEF AllLink

(* An index space: what the imports name, then what the module defines.    *)
LEMMA SpaceFacts ==
  ASSUME NEW S, NEW m \in Modules, NEW kind, NEW fresh \in Seq(S),
         \A n \in DOMAIN Imports(m, kind) : Object(Imports(m, kind)[n]) \in S
  PROVE  LET ims == Imports(m, kind) sp == Space(m, kind, fresh)
         IN  /\ sp \in Seq(S) /\ Len(sp) = Len(ims) + Len(fresh)
             /\ DOMAIN sp = 1..(Len(ims) + Len(fresh))
             /\ \A n \in DOMAIN ims : sp[n] = Object(ims[n])
             /\ \A k \in DOMAIN fresh : sp[Len(ims) + k] = fresh[k]
             /\ \A n \in DOMAIN sp : n \in DOMAIN ims
                                     \/ \E k \in DOMAIN fresh : n = Len(ims) + k
<1> DEFINE ims == Imports(m, kind)
           sp == Space(m, kind, fresh)
           imported == [n \in 1..Len(ims) |-> Object(ims[n])]
<1>1. Len(ims) \in Nat /\ DOMAIN ims = 1..Len(ims)
  BY ImportsFacts
<1>2. imported \in Seq(S) /\ Len(imported) = Len(ims)
      /\ \A n \in DOMAIN ims : imported[n] = Object(ims[n])
  <2>1. \A n \in 1..Len(ims) : Object(ims[n]) \in S
    BY <1>1
  <2> HIDE DEF ims
  <2> QED BY <1>1, <2>1
<1>3. sp = imported \o fresh
  BY DEF Space
<1>4. Len(fresh) \in Nat /\ DOMAIN fresh = 1..Len(fresh)
  OBVIOUS
<1> HIDE DEF sp, imported, ims
<1>5. /\ sp \in Seq(S) /\ Len(sp) = Len(ims) + Len(fresh)
      /\ DOMAIN sp = 1..(Len(ims) + Len(fresh))
      /\ \A n \in DOMAIN imported : sp[n] = imported[n]
      /\ \A k \in 1..Len(fresh) : sp[Len(ims) + k] = fresh[k]
  <2>1. imported \in Seq(S) /\ fresh \in Seq(S) /\ Len(imported) = Len(ims)
    BY <1>2
  <2>2. sp \in Seq(S) /\ Len(sp) = Len(imported) + Len(fresh)
    <3>1. imported \o fresh \in Seq(S)
      BY ONLY <2>1
    <3>2. Len(imported \o fresh) = Len(imported) + Len(fresh)
      BY ONLY <2>1
    <3> QED BY <1>3, <3>1, <3>2
  <2>3. DOMAIN sp = 1..(Len(imported) + Len(fresh))
    BY <2>2
  <2>4. \A n \in DOMAIN imported : sp[n] = imported[n]
    BY <1>3, <2>1
  <2>5. \A k \in 1..Len(fresh) : sp[Len(imported) + k] = fresh[k]
    BY <1>3, <2>1
  <2> QED BY <2>1, <2>2, <2>3, <2>4, <2>5
<1>6. DOMAIN imported = 1..Len(ims)
  BY <1>2
<1>7. \A n \in DOMAIN sp : n \in DOMAIN ims \/ \E k \in DOMAIN fresh : n = Len(ims) + k
  <2> SUFFICES ASSUME NEW n \in DOMAIN sp, n \notin DOMAIN ims
               PROVE  \E k \in DOMAIN fresh : n = Len(ims) + k
    OBVIOUS
  <2>1. n - Len(ims) \in 1..Len(fresh) /\ n = Len(ims) + (n - Len(ims))
    BY <1>1, <1>4, <1>5
  <2> QED BY <1>4, <2>1
<1> QED BY <1>1, <1>2, <1>4, <1>5, <1>6, <1>7 DEF sp, ims

(* New objects are numbered after the ones that exist. *)
LEMMA FreshFacts ==
  ASSUME NEW S, NEW objects \in Seq(S), NEW n \in Nat
  PROVE  /\ Fresh(objects, n) \in Seq(Nat) /\ Len(Fresh(objects, n)) = n
         /\ DOMAIN Fresh(objects, n) = 1..n
         /\ \A k \in 1..n : Fresh(objects, n)[k] = Len(objects) + k
<1>1. Len(objects) \in Nat
  OBVIOUS
<1> QED BY <1>1 DEF Fresh

(* What a module allocates, object by object.                              *)
LEMMA NewMemoriesFacts ==
  ASSUME NEW m \in Modules
  PROVE  /\ NewMemories(m) \in Seq(Mem) /\ Len(NewMemories(m)) = Len(m.mems)
         /\ \A k \in DOMAIN NewMemories(m) :
              LET o == NewMemories(m)[k]
              IN  Len(o.data) <= (IF o.max = NoMax THEN MaxPages ELSE o.max)
<1>1. m.mems \in Seq(Limit) /\ Validated(m)
  BY ModuleFacts
<1>2. ASSUME NEW k \in DOMAIN m.mems
      PROVE  /\ NewMemories(m)[k] \in Mem /\ NewMemories(m)[k].max = m.mems[k].max
             /\ Len(NewMemories(m)[k].data) = m.mems[k].min
             /\ m.mems[k].min \in Nat /\ m.mems[k].max \in Nat \cup {NoMax}
  <2> DEFINE data == [p \in 1..m.mems[k].min |-> 0]
  <2>1. m.mems[k] \in Limit
    BY <1>1
  <2>2. m.mems[k].min \in Nat /\ m.mems[k].max \in Nat \cup {NoMax}
    BY <2>1 DEF Limit
  <2>3. data \in Seq(Nat) /\ Len(data) = m.mems[k].min
    BY <2>2
  <2>4. NewMemories(m)[k] = [data |-> data, max |-> m.mems[k].max]
    BY DEF NewMemories
  <2> HIDE DEF data
  <2> QED BY <2>2, <2>3, <2>4 DEF Mem
<1>3. DOMAIN NewMemories(m) = DOMAIN m.mems /\ DOMAIN m.mems = 1..Len(m.mems)
      /\ Len(m.mems) \in Nat /\ NewMemories(m) = [k \in DOMAIN m.mems |-> NewMemories(m)[k]]
  BY <1>1 DEF NewMemories
<1>4. NewMemories(m) \in Seq(Mem) /\ Len(NewMemories(m)) = Len(m.mems)
  BY <1>2, <1>3
<1>5. \A k \in DOMAIN m.mems :
        m.mems[k].min <= (IF m.mems[k].max = NoMax THEN MaxPages ELSE m.mems[k].max)
  BY <1>1 DEF Validated, Sound
<1> QED BY <1>2, <1>3, <1>4, <1>5

(* The tables an instantiation makes respect their maxima and hold no      *)
(* function yet.                                                           *)
LEMMA NewTablesFacts ==
  ASSUME NEW m \in Modules
  PROVE  /\ NewTables(m) \in Seq(Tab) /\ Len(NewTables(m)) = Len(m.tables)
         /\ \A k \in DOMAIN NewTables(m) :
              LET t == NewTables(m)[k]
              IN  /\ t.max # NoMax => Len(t.entries) <= t.max
                  /\ \A e \in DOMAIN t.entries : t.entries[e] = Null
<1>1. m.tables \in Seq(Limit) /\ Validated(m)
  BY ModuleFacts
<1>2. ASSUME NEW k \in DOMAIN m.tables
      PROVE  /\ NewTables(m)[k] \in Tab /\ NewTables(m)[k].max = m.tables[k].max
             /\ Len(NewTables(m)[k].entries) = m.tables[k].min
             /\ \A e \in DOMAIN NewTables(m)[k].entries : NewTables(m)[k].entries[e] = Null
             /\ m.tables[k].min \in Nat /\ m.tables[k].max \in Nat \cup {NoMax}
  <2> DEFINE entries == [e \in 1..m.tables[k].min |-> Null]
  <2>1. m.tables[k] \in Limit
    BY <1>1
  <2>2. m.tables[k].min \in Nat /\ m.tables[k].max \in Nat \cup {NoMax}
    BY <2>1 DEF Limit
  <2>3. Null \in FuncRef
    BY DEF Null, FuncRef
  <2>4. entries \in Seq(FuncRef) /\ Len(entries) = m.tables[k].min
        /\ \A e \in DOMAIN entries : entries[e] = Null
    BY <2>2, <2>3
  <2>5. NewTables(m)[k] = [entries |-> entries, max |-> m.tables[k].max]
    BY DEF NewTables
  <2> HIDE DEF entries
  <2> QED BY <2>2, <2>4, <2>5 DEF Tab
<1>3. DOMAIN NewTables(m) = DOMAIN m.tables /\ DOMAIN m.tables = 1..Len(m.tables)
      /\ Len(m.tables) \in Nat /\ NewTables(m) = [k \in DOMAIN m.tables |-> NewTables(m)[k]]
  BY <1>1 DEF NewTables
<1>4. NewTables(m) \in Seq(Tab) /\ Len(NewTables(m)) = Len(m.tables)
  BY <1>2, <1>3
<1>5. \A k \in DOMAIN m.tables : m.tables[k].max # NoMax => m.tables[k].min <= m.tables[k].max
  BY <1>1 DEF Validated, Sound
<1> QED BY <1>2, <1>3, <1>4, <1>5

(* The global index space: the imported cells, as mutable as declared,     *)
(* then new ones.                                                          *)
LEMMA GlobalsFacts ==
  ASSUME Inv, NEW m \in Modules, AllLink(m)
  PROVE  LET ims == Imports(m, "global") sp == Globals(m)
         IN  /\ sp \in Seq(Nat) /\ Len(sp) = Size(m, "global")
             /\ DOMAIN sp = 1..Size(m, "global")
             /\ \A n \in DOMAIN ims : /\ sp[n] = Object(ims[n]) /\ sp[n] \in DOMAIN cells
                                      /\ cells[sp[n]].mut = ims[n].type
             /\ \A k \in 1..Len(m.globals) : sp[Len(ims) + k] = Len(cells) + k
             /\ \A n \in DOMAIN sp : n \in DOMAIN ims
                                     \/ \E k \in 1..Len(m.globals) : n = Len(ims) + k
<1> DEFINE ims == Imports(m, "global")
<1>1. /\ cells \in Seq(Cell) /\ Len(m.globals) \in Nat
  BY ModuleFacts DEF Inv, TypeOK, HeapOK, Cell
<1>2. \A n \in DOMAIN ims :
        /\ Object(ims[n]) \in DOMAIN cells /\ cells[Object(ims[n])].mut = ims[n].type
  BY ImportsLink, LinkedFacts DEF Kinds
<1>3. \A n \in DOMAIN ims : Object(ims[n]) \in Nat
  BY <1>1, <1>2
<1> HIDE DEF ims
<1>4. /\ Fresh(cells, Len(m.globals)) \in Seq(Nat)
      /\ Len(Fresh(cells, Len(m.globals))) = Len(m.globals)
      /\ DOMAIN Fresh(cells, Len(m.globals)) = 1..Len(m.globals)
      /\ \A k \in 1..Len(m.globals) : Fresh(cells, Len(m.globals))[k] = Len(cells) + k
  BY <1>1, FreshFacts
<1>5. Size(m, "global") = Len(ims) + Len(m.globals)
  BY DEF Size, ims
<1> DEFINE fresh == Fresh(cells, Len(m.globals))
           sp == Globals(m)
<1>6. sp = Space(m, "global", fresh)
  BY DEF Globals
<1> HIDE DEF fresh, sp
<1>7. fresh \in Seq(Nat) /\ Len(fresh) = Len(m.globals) /\ DOMAIN fresh = 1..Len(m.globals)
      /\ \A k \in 1..Len(m.globals) : fresh[k] = Len(cells) + k
  BY <1>4 DEF fresh
<1>8. /\ sp \in Seq(Nat) /\ Len(sp) = Len(ims) + Len(fresh)
      /\ DOMAIN sp = 1..(Len(ims) + Len(fresh))
      /\ \A n \in DOMAIN ims : sp[n] = Object(ims[n])
      /\ \A k \in DOMAIN fresh : sp[Len(ims) + k] = fresh[k]
      /\ \A n \in DOMAIN sp : n \in DOMAIN ims \/ \E k \in DOMAIN fresh : n = Len(ims) + k
  <2>1. \A n \in DOMAIN Imports(m, "global") : Object(Imports(m, "global")[n]) \in Nat
    BY <1>3 DEF ims
  <2>2. fresh \in Seq(Nat)
    BY <1>7
  <2>3. LET jms == Imports(m, "global") tp == Space(m, "global", fresh)
        IN  /\ tp \in Seq(Nat) /\ Len(tp) = Len(jms) + Len(fresh)
            /\ DOMAIN tp = 1..(Len(jms) + Len(fresh))
            /\ \A n \in DOMAIN jms : tp[n] = Object(jms[n])
            /\ \A k \in DOMAIN fresh : tp[Len(jms) + k] = fresh[k]
            /\ \A n \in DOMAIN tp : n \in DOMAIN jms \/ \E k \in DOMAIN fresh : n = Len(jms) + k
    BY ONLY <2>1, <2>2, SpaceFacts, m \in Modules
  <2> QED BY <1>6, <2>3 DEF ims
<1>9. /\ \A n \in DOMAIN ims : /\ sp[n] = Object(ims[n]) /\ sp[n] \in DOMAIN cells
                                /\ cells[sp[n]].mut = ims[n].type
      /\ \A k \in 1..Len(m.globals) : sp[Len(ims) + k] = Len(cells) + k
      /\ \A n \in DOMAIN sp : n \in DOMAIN ims \/ \E k \in 1..Len(m.globals) : n = Len(ims) + k
  BY <1>2, <1>7, <1>8
<1> QED BY <1>5, <1>7, <1>8, <1>9 DEF ims, sp

(* The cells an instantiation makes are as mutable as declared. *)
LEMMA NewCellsFacts ==
  ASSUME Inv, NEW m \in Modules, AllLink(m)
  PROVE  /\ NewCells(m) \in Seq(Cell) /\ Len(NewCells(m)) = Len(m.globals)
         /\ \A k \in DOMAIN m.globals : NewCells(m)[k].mut = m.globals[k].mut
<1>1. m.globals \in Seq([mut : BOOLEAN, init : ConstExpr]) /\ Validated(m)
  BY ModuleFacts
<1>2. ASSUME NEW k \in DOMAIN m.globals
      PROVE  NewCells(m)[k] \in Cell /\ NewCells(m)[k].mut = m.globals[k].mut
  <2> DEFINE v == Const(m.globals[k].init, Globals(m), cells)
  <2>1. /\ m.globals[k].mut \in BOOLEAN /\ m.globals[k].init \in ConstExpr
        /\ ConstOK(m, m.globals[k].init)
    <3>1. m.globals[k] \in [mut : BOOLEAN, init : ConstExpr]
      BY <1>1, ElementOf
    <3>2. ConstOK(m, m.globals[k].init)
      BY <1>1 DEF Validated
    <3> QED BY <3>1, <3>2
  <2>2. \A n \in 1..Len(Imports(m, "global")) : Globals(m)[n] \in DOMAIN cells
    BY GlobalsFacts, ImportsFacts
  <2>3. v \in Nat
    BY <2>1, <2>2, ConstIsValue
  <2>4. NewCells(m)[k] = [mut |-> m.globals[k].mut, value |-> v]
    BY DEF NewCells
  <2> HIDE DEF v
  <2> QED BY <2>1, <2>3, <2>4 DEF Cell
<1>3. DOMAIN NewCells(m) = DOMAIN m.globals /\ DOMAIN m.globals = 1..Len(m.globals)
      /\ Len(m.globals) \in Nat /\ NewCells(m) = [k \in DOMAIN m.globals |-> NewCells(m)[k]]
  BY <1>1 DEF NewCells
<1>4. NewCells(m) \in Seq(Cell) /\ Len(NewCells(m)) = Len(m.globals)
  BY <1>2, <1>3
<1> QED BY <1>2, <1>4

\* The n-th place of an index space: an import's object, or its own.
Filled(m, kind, sp, fresh) ==
  \A n \in DOMAIN sp :
    \/ n \in DOMAIN Imports(m, kind) /\ sp[n] = Object(Imports(m, kind)[n])
    \/ \E k \in DOMAIN fresh : n = Len(Imports(m, kind)) + k /\ sp[n] = fresh[k]

(* An index space is the imported objects followed by the instance's own. *)
LEMMA SpaceFilled ==
  ASSUME NEW S, NEW m \in Modules, NEW kind, NEW fresh \in Seq(S),
         \A n \in DOMAIN Imports(m, kind) : Object(Imports(m, kind)[n]) \in S
  PROVE  /\ Space(m, kind, fresh) \in Seq(S)
         /\ Len(Space(m, kind, fresh)) = Len(Imports(m, kind)) + Len(fresh)
         /\ Filled(m, kind, Space(m, kind, fresh), fresh)
<1> DEFINE ims == Imports(m, kind)
           sp == Space(m, kind, fresh)
<1>1. /\ sp \in Seq(S) /\ Len(sp) = Len(ims) + Len(fresh)
      /\ \A n \in DOMAIN ims : sp[n] = Object(ims[n])
      /\ \A k \in DOMAIN fresh : sp[Len(ims) + k] = fresh[k]
      /\ \A n \in DOMAIN sp : n \in DOMAIN ims \/ \E k \in DOMAIN fresh : n = Len(ims) + k
  BY SpaceFacts
<1> HIDE DEF sp, ims
<1>2. \A n \in DOMAIN sp : \/ n \in DOMAIN ims /\ sp[n] = Object(ims[n])
                           \/ \E k \in DOMAIN fresh : n = Len(ims) + k /\ sp[n] = fresh[k]
  BY <1>1
<1> QED BY <1>1, <1>2 DEF Filled, sp, ims

OwnFuncs(m) == [k \in DOMAIN m.funcs |-> [inst |-> Len(insts) + 1, idx |-> k]]

(* The instance that is made: every index space as long as declared,       *)
(* imports first.                                                          *)
LEMMA NewInstanceFacts ==
  ASSUME Inv, NEW m \in Modules, AllLink(m)
  PROVE  /\ NewInstance(m) \in Instance /\ NewInstance(m).module = m
         /\ \A kind \in Kinds : Len(NewInstance(m)[kind]) = Size(m, kind)
         /\ Filled(m, "func", NewInstance(m).func, OwnFuncs(m))
         /\ Filled(m, "table", NewInstance(m).table, Fresh(tabs, Len(m.tables)))
         /\ Filled(m, "memory", NewInstance(m).memory, Fresh(mems, Len(m.mems)))
         /\ NewInstance(m).global = Globals(m)
<1>1. /\ m.funcs \in Seq([type : FuncTypes, body : Seq(Instr)])
      /\ Len(m.funcs) \in Nat /\ Len(m.tables) \in Nat /\ Len(m.mems) \in Nat
  <2>1. /\ m.funcs \in Seq([type : FuncTypes, body : Seq(Instr)])
        /\ m.tables \in Seq(Limit) /\ m.mems \in Seq(Limit)
    BY ModuleFacts
  <2> QED BY <2>1
<1>2. tabs \in Seq(Tab) /\ mems \in Seq(Mem) /\ Len(insts) \in Nat
  BY DEF Inv, TypeOK, HeapOK, InstancesOK, Tab, Mem
<1>3. NewInstance(m) = [module |-> m, func |-> NewInstance(m).func,
                        table |-> NewInstance(m).table, memory |-> NewInstance(m).memory,
                        global |-> NewInstance(m).global]
      /\ NewInstance(m).func = Space(m, "func", OwnFuncs(m))
      /\ NewInstance(m).table = Space(m, "table", Fresh(tabs, Len(m.tables)))
      /\ NewInstance(m).memory = Space(m, "memory", Fresh(mems, Len(m.mems)))
      /\ NewInstance(m).global = Globals(m)
  BY DEF NewInstance, OwnFuncs
<1>4. /\ NewInstance(m).func \in Seq(FuncRef)
      /\ Len(NewInstance(m).func) = Size(m, "func")
      /\ Filled(m, "func", NewInstance(m).func, OwnFuncs(m))
  <2>1. OwnFuncs(m) \in Seq(FuncRef) /\ Len(OwnFuncs(m)) = Len(m.funcs)
    <3>1. DOMAIN m.funcs = 1..Len(m.funcs)
      BY <1>1
    <3>2. \A k \in 1..Len(m.funcs) : [inst |-> Len(insts) + 1, idx |-> k] \in FuncRef
      BY <1>2 DEF FuncRef
    <3>3. OwnFuncs(m) = [k \in 1..Len(m.funcs) |-> [inst |-> Len(insts) + 1, idx |-> k]]
      BY <3>1 DEF OwnFuncs
    <3> QED BY <1>1, <3>2, <3>3
  <2>2. \A n \in DOMAIN Imports(m, "func") : Object(Imports(m, "func")[n]) \in FuncRef
    BY ImportsLink, LinkedFacts DEF Kinds
  <2>3. Size(m, "func") = Len(Imports(m, "func")) + Len(m.funcs)
    BY DEF Size
  <2> QED BY <1>3, <2>1, <2>2, <2>3, SpaceFilled
<1>5. /\ NewInstance(m).table \in Seq(Nat)
      /\ Len(NewInstance(m).table) = Size(m, "table")
      /\ Filled(m, "table", NewInstance(m).table, Fresh(tabs, Len(m.tables)))
  <2>1. /\ Fresh(tabs, Len(m.tables)) \in Seq(Nat)
        /\ Len(Fresh(tabs, Len(m.tables))) = Len(m.tables)
    BY <1>1, <1>2, FreshFacts
  <2>2. \A n \in DOMAIN Imports(m, "table") : Object(Imports(m, "table")[n]) \in Nat
    <3>1. \A n \in DOMAIN Imports(m, "table") : Object(Imports(m, "table")[n]) \in DOMAIN tabs
      BY ImportsLink, LinkedFacts DEF Kinds
    <3> QED BY <1>2, <3>1
  <2>3. Size(m, "table") = Len(Imports(m, "table")) + Len(m.tables)
    BY DEF Size
  <2> QED BY <1>3, <2>1, <2>2, <2>3, SpaceFilled
<1>6. /\ NewInstance(m).memory \in Seq(Nat)
      /\ Len(NewInstance(m).memory) = Size(m, "memory")
      /\ Filled(m, "memory", NewInstance(m).memory, Fresh(mems, Len(m.mems)))
  <2>1. /\ Fresh(mems, Len(m.mems)) \in Seq(Nat)
        /\ Len(Fresh(mems, Len(m.mems))) = Len(m.mems)
    BY <1>1, <1>2, FreshFacts
  <2>2. \A n \in DOMAIN Imports(m, "memory") : Object(Imports(m, "memory")[n]) \in Nat
    <3>1. \A n \in DOMAIN Imports(m, "memory") : Object(Imports(m, "memory")[n]) \in DOMAIN mems
      BY ImportsLink, LinkedFacts DEF Kinds
    <3> QED BY <1>2, <3>1
  <2>3. Size(m, "memory") = Len(Imports(m, "memory")) + Len(m.mems)
    BY DEF Size
  <2> QED BY <1>3, <2>1, <2>2, <2>3, SpaceFilled
<1>7. Globals(m) \in Seq(Nat) /\ Len(Globals(m)) = Size(m, "global")
  BY GlobalsFacts
<1>8. NewInstance(m) \in Instance /\ NewInstance(m).module = m
  BY <1>3, <1>4, <1>5, <1>6, <1>7 DEF Instance
<1>9. \A kind \in Kinds : Len(NewInstance(m)[kind]) = Size(m, kind)
  BY <1>3, <1>4, <1>5, <1>6, <1>7 DEF Kinds
<1> QED BY <1>3, <1>4, <1>5, <1>6, <1>8, <1>9

(* The heap grows at its end: what was there stays as it was.              *)
LEMMA HeapGrows ==
  ASSUME Inv, NEW m \in Modules, AllLink(m), Instantiate(m)
  PROVE  /\ insts' \in Seq(Instance) /\ Len(insts') = Len(insts) + 1
         /\ Len(insts) \in Nat /\ Len(insts') <= MaxInst
         /\ DOMAIN insts = 1..Len(insts) /\ DOMAIN insts' = 1..(Len(insts) + 1)
         /\ insts'[Len(insts) + 1] = NewInstance(m)
         /\ \A i \in DOMAIN insts : insts'[i] = insts[i]
         /\ mems' \in Seq(Mem) /\ DOMAIN mems' = 1..(Len(mems) + Len(m.mems))
         /\ \A o \in DOMAIN mems : mems'[o] = mems[o]
         /\ \A k \in 1..Len(m.mems) : mems'[Len(mems) + k] = NewMemories(m)[k]
         /\ tabs' \in Seq(Tab) /\ DOMAIN tabs' = 1..(Len(tabs) + Len(m.tables))
         /\ \A t \in DOMAIN tabs : tabs'[t] = tabs[t]
         /\ \A k \in 1..Len(m.tables) : tabs'[Len(tabs) + k] = NewTables(m)[k]
         /\ cells' \in Seq(Cell) /\ DOMAIN cells' = 1..(Len(cells) + Len(m.globals))
         /\ \A c \in DOMAIN cells : cells'[c] = cells[c]
         /\ \A k \in 1..Len(m.globals) : cells'[Len(cells) + k] = NewCells(m)[k]
<1>1. /\ insts \in Seq(Instance) /\ mems \in Seq(Mem) /\ tabs \in Seq(Tab)
      /\ cells \in Seq(Cell)
  BY DEF Inv, TypeOK, HeapOK, InstancesOK, Instance, Mem, Tab, Cell
<1>2. /\ insts' = Append(insts, NewInstance(m)) /\ Len(insts) < MaxInst
      /\ tabs' = tabs \o NewTables(m) /\ mems' = mems \o NewMemories(m)
      /\ cells' = cells \o NewCells(m)
  BY DEF Instantiate, AllLink
<1>3. NewInstance(m) \in Instance
  BY NewInstanceFacts
<1>4. /\ insts' \in Seq(Instance) /\ Len(insts') = Len(insts) + 1 /\ Len(insts) \in Nat
      /\ DOMAIN insts = 1..Len(insts) /\ DOMAIN insts' = 1..(Len(insts) + 1)
      /\ insts'[Len(insts) + 1] = NewInstance(m)
      /\ \A i \in DOMAIN insts : insts'[i] = insts[i]
  BY <1>1, <1>2, <1>3
<1>5. Len(insts') <= MaxInst
  BY <1>2, <1>4, LinkerAssumption
<1>6. /\ mems' \in Seq(Mem) /\ DOMAIN mems' = 1..(Len(mems) + Len(m.mems))
      /\ \A o \in DOMAIN mems : mems'[o] = mems[o]
      /\ \A k \in 1..Len(m.mems) : mems'[Len(mems) + k] = NewMemories(m)[k]
  <2>1. mems \in Seq(Mem) /\ NewMemories(m) \in Seq(Mem) /\ Len(NewMemories(m)) = Len(m.mems)
    BY <1>1, NewMemoriesFacts
  <2>2. mems \o NewMemories(m) \in Seq(Mem)
    BY ONLY <2>1
  <2>3. Len(mems \o NewMemories(m)) = Len(mems) + Len(NewMemories(m))
    BY ONLY <2>1
  <2>4. \A k \in DOMAIN mems : (mems \o NewMemories(m))[k] = mems[k]
    BY ONLY <2>1
  <2>5. \A k \in 1..Len(NewMemories(m)) : (mems \o NewMemories(m))[Len(mems) + k] = NewMemories(m)[k]
    BY ONLY <2>1
  <2>6. mems' = mems \o NewMemories(m)
    BY <1>2
  <2>7. DOMAIN mems' = 1..(Len(mems) + Len(NewMemories(m)))
    BY <2>2, <2>3, <2>6
  <2> QED BY <2>1, <2>2, <2>4, <2>5, <2>6, <2>7
<1>7. /\ tabs' \in Seq(Tab) /\ DOMAIN tabs' = 1..(Len(tabs) + Len(m.tables))
      /\ \A t \in DOMAIN tabs : tabs'[t] = tabs[t]
      /\ \A k \in 1..Len(m.tables) : tabs'[Len(tabs) + k] = NewTables(m)[k]
  <2>1. tabs \in Seq(Tab) /\ NewTables(m) \in Seq(Tab) /\ Len(NewTables(m)) = Len(m.tables)
    BY <1>1, NewTablesFacts
  <2>2. tabs \o NewTables(m) \in Seq(Tab)
    BY ONLY <2>1
  <2>3. Len(tabs \o NewTables(m)) = Len(tabs) + Len(NewTables(m))
    BY ONLY <2>1
  <2>4. \A k \in DOMAIN tabs : (tabs \o NewTables(m))[k] = tabs[k]
    BY ONLY <2>1
  <2>5. \A k \in 1..Len(NewTables(m)) : (tabs \o NewTables(m))[Len(tabs) + k] = NewTables(m)[k]
    BY ONLY <2>1
  <2>6. tabs' = tabs \o NewTables(m)
    BY <1>2
  <2>7. DOMAIN tabs' = 1..(Len(tabs) + Len(NewTables(m)))
    BY <2>2, <2>3, <2>6
  <2> QED BY <2>1, <2>2, <2>4, <2>5, <2>6, <2>7
<1>8. /\ cells' \in Seq(Cell) /\ DOMAIN cells' = 1..(Len(cells) + Len(m.globals))
      /\ \A c \in DOMAIN cells : cells'[c] = cells[c]
      /\ \A k \in 1..Len(m.globals) : cells'[Len(cells) + k] = NewCells(m)[k]
  <2>1. cells \in Seq(Cell) /\ NewCells(m) \in Seq(Cell) /\ Len(NewCells(m)) = Len(m.globals)
    BY <1>1, NewCellsFacts
  <2>2. cells \o NewCells(m) \in Seq(Cell)
    BY ONLY <2>1
  <2>3. Len(cells \o NewCells(m)) = Len(cells) + Len(NewCells(m))
    BY ONLY <2>1
  <2>4. \A k \in DOMAIN cells : (cells \o NewCells(m))[k] = cells[k]
    BY ONLY <2>1
  <2>5. \A k \in 1..Len(NewCells(m)) : (cells \o NewCells(m))[Len(cells) + k] = NewCells(m)[k]
    BY ONLY <2>1
  <2>6. cells' = cells \o NewCells(m)
    BY <1>2
  <2>7. DOMAIN cells' = 1..(Len(cells) + Len(NewCells(m)))
    BY <2>2, <2>3, <2>6
  <2> QED BY <2>1, <2>2, <2>4, <2>5, <2>6, <2>7
<1> QED BY <1>4, <1>5, <1>6, <1>7, <1>8

(* A function that exists goes on existing, at the same type, when an      *)
(* instance is added.                                                      *)
LEMMA StaysFunc ==
  ASSUME Inv, NEW m \in Modules, AllLink(m), Instantiate(m), NEW f \in FuncRef, IsFunc(f)
  PROVE  /\ f.inst \in DOMAIN insts' /\ f.idx \in DOMAIN insts'[f.inst].module.funcs
         /\ insts'[f.inst].module.funcs[f.idx].type = Defined(f).type
<1>1. f.inst \in DOMAIN insts /\ f.idx \in DOMAIN insts[f.inst].module.funcs
  BY DEF IsFunc
<1>2. insts'[f.inst] = insts[f.inst] /\ f.inst \in DOMAIN insts'
  BY <1>1, HeapGrows
<1> QED BY <1>1, <1>2 DEF Defined

(* Instantiating keeps the heap sound: objects are added and none is       *)
(* changed.                                                                *)
LEMMA HeapStaysOK ==
  ASSUME Inv, NEW m \in Modules, AllLink(m), Instantiate(m)
  PROVE  HeapOK' /\ Capped'
<1>1. mems' \in Seq(Mem) /\ tabs' \in Seq(Tab) /\ cells' \in Seq(Cell)
  BY HeapGrows
<1>2. ASSUME NEW o \in DOMAIN mems'
      PROVE  Len(mems'[o].data) <= (IF mems'[o].max = NoMax THEN MaxPages ELSE mems'[o].max)
  <2>1. o \in DOMAIN mems \/ \E k \in 1..Len(m.mems) : o = Len(mems) + k
    <3>1. mems \in Seq(Mem) /\ Len(m.mems) \in Nat
      BY ModuleFacts DEF Inv, TypeOK, HeapOK, Mem
    <3>2. o \in 1..(Len(mems) + Len(m.mems))
      BY HeapGrows
    <3>3. o \notin DOMAIN mems => o - Len(mems) \in 1..Len(m.mems) /\ o = Len(mems) + (o - Len(mems))
      BY <3>1, <3>2
    <3> QED BY <3>3
  <2>2. CASE o \in DOMAIN mems
    BY <2>2, HeapGrows DEF Inv, Capped
  <2>3. CASE \E k \in 1..Len(m.mems) : o = Len(mems) + k
    <3>1. PICK k \in 1..Len(m.mems) : o = Len(mems) + k
      BY <2>3
    <3>2. mems'[o] = NewMemories(m)[k]
      BY <3>1, HeapGrows
    <3>3. k \in DOMAIN NewMemories(m)
      BY NewMemoriesFacts
    <3> QED BY <3>2, <3>3, NewMemoriesFacts
  <2> QED BY <2>1, <2>2, <2>3
<1>3. ASSUME NEW t \in DOMAIN tabs'
      PROVE  /\ tabs'[t].max # NoMax => Len(tabs'[t].entries) <= tabs'[t].max
             /\ \A e \in DOMAIN tabs'[t].entries :
                  tabs'[t].entries[e] = Null \/ (IsFunc(tabs[t].entries[e]))'
  <2>1. t \in DOMAIN tabs \/ \E k \in 1..Len(m.tables) : t = Len(tabs) + k
    <3>1. tabs \in Seq(Tab) /\ Len(m.tables) \in Nat
      BY ModuleFacts DEF Inv, TypeOK, HeapOK, Tab
    <3>2. t \in 1..(Len(tabs) + Len(m.tables))
      BY HeapGrows
    <3>3. t \notin DOMAIN tabs => t - Len(tabs) \in 1..Len(m.tables) /\ t = Len(tabs) + (t - Len(tabs))
      BY <3>1, <3>2
    <3> QED BY <3>3
  <2>2. CASE t \in DOMAIN tabs
    <3>1. tabs'[t] = tabs[t]
      BY <2>2, HeapGrows
    <3>2. tabs[t] \in Tab
      <4>1. tabs \in Seq(Tab)
        BY DEF Inv, TypeOK, HeapOK, Tab
      <4> QED BY <2>2, <4>1
    <3>3. \A e \in DOMAIN tabs[t].entries :
            /\ tabs[t].entries[e] \in FuncRef
            /\ tabs[t].entries[e] = Null \/ IsFunc(tabs[t].entries[e])
      <4>1. tabs[t].entries \in Seq(FuncRef)
        BY <3>2 DEF Tab
      <4>2. \A e \in DOMAIN tabs[t].entries : tabs[t].entries[e] \in FuncRef
        BY <4>1, ElementOf
      <4> QED BY <2>2, <4>2 DEF Inv, TypeOK, HeapOK
    <3>4. \A e \in DOMAIN tabs[t].entries :
            tabs[t].entries[e] = Null
            \/ LET f == tabs[t].entries[e]
               IN  f.inst \in DOMAIN insts' /\ f.idx \in DOMAIN insts'[f.inst].module.funcs
      BY <3>3, StaysFunc
    <3>5. tabs[t].max # NoMax => Len(tabs[t].entries) <= tabs[t].max
      BY <2>2 DEF Inv, Capped
    <3> QED BY <3>1, <3>4, <3>5 DEF IsFunc
  <2>3. CASE \E k \in 1..Len(m.tables) : t = Len(tabs) + k
    <3>1. PICK k \in 1..Len(m.tables) : t = Len(tabs) + k
      BY <2>3
    <3>2. tabs'[t] = NewTables(m)[k]
      BY <3>1, HeapGrows
    <3>3. k \in DOMAIN NewTables(m)
      BY NewTablesFacts
    <3> QED BY <3>2, <3>3, NewTablesFacts
  <2> QED BY <2>1, <2>2, <2>3
<1>4. HeapOK'
  BY <1>1, <1>3 DEF HeapOK, Mem, Tab, Cell
<1>5. Capped'
  BY <1>2, <1>3 DEF Capped
<1> QED BY <1>4, <1>5

(* The new instance's index spaces name objects that are there, and what   *)
(* it declared of each is what the object is.                              *)
LEMMA NewInstanceOK ==
  ASSUME Inv, NEW m \in Modules, AllLink(m), Instantiate(m)
  PROVE  LET x == NewInstance(m) new == Len(insts) + 1
             fims == Imports(m, "func") mims == Imports(m, "memory") tims == Imports(m, "table")
         IN  /\ \A n \in DOMAIN x.func :
                  /\ x.func[n] \in FuncRef /\ x.func[n].inst <= new
                  /\ x.func[n].inst \in DOMAIN insts'
                  /\ x.func[n].idx \in DOMAIN insts'[x.func[n].inst].module.funcs
                  /\ insts'[x.func[n].inst].module.funcs[x.func[n].idx].type =
                       IF n <= Len(fims) THEN fims[n].type ELSE m.funcs[n - Len(fims)].type
             /\ \A n \in DOMAIN x.table : x.table[n] \in DOMAIN tabs'
             /\ \A n \in DOMAIN x.memory : x.memory[n] \in DOMAIN mems'
             /\ \A n \in DOMAIN x.global :
                  x.global[n] \in DOMAIN cells' /\ cells'[x.global[n]].mut = Mutable(m, n)
             /\ \A n \in DOMAIN mims :
                  LET o == mems'[x.memory[n]] IN LimitsMatch(Len(o.data), o.max, mims[n].type)
             /\ \A n \in DOMAIN tims :
                  LET o == tabs'[x.table[n]] IN LimitsMatch(Len(o.entries), o.max, tims[n].type)
<1> DEFINE x == NewInstance(m)
           new == Len(insts) + 1
<1>1. /\ x \in Instance /\ x.module = m /\ insts'[new] = x /\ Len(insts) \in Nat
      /\ DOMAIN insts' = 1..new
      /\ \A kind \in Kinds : Len(x[kind]) = Size(m, kind)
  BY NewInstanceFacts, HeapGrows
<1>2. \A kind \in Kinds : DOMAIN x[kind] = 1..Size(m, kind)
  BY <1>1 DEF Kinds, Instance
<1>3. \A kind \in Kinds : /\ DOMAIN Imports(m, kind) = 1..Len(Imports(m, kind))
                          /\ Len(Imports(m, kind)) \in Nat
  BY ImportsFacts
<1>4. ASSUME NEW n \in DOMAIN x.func
      PROVE  LET fims == Imports(m, "func")
             IN  /\ x.func[n] \in FuncRef /\ x.func[n].inst <= new
                 /\ x.func[n].inst \in DOMAIN insts'
                 /\ x.func[n].idx \in DOMAIN insts'[x.func[n].inst].module.funcs
                 /\ insts'[x.func[n].inst].module.funcs[x.func[n].idx].type =
                      IF n <= Len(fims) THEN fims[n].type ELSE m.funcs[n - Len(fims)].type
  <2> DEFINE ims == Imports(m, "func")
             f == x.func[n]
  <2>1. \/ n \in DOMAIN ims /\ f = Object(ims[n])
        \/ \E k \in DOMAIN OwnFuncs(m) : n = Len(ims) + k /\ f = OwnFuncs(m)[k]
    BY NewInstanceFacts DEF Filled
  <2>2. f \in FuncRef
    BY <1>1 DEF Instance
  <2>3. CASE n \in DOMAIN ims /\ f = Object(ims[n])
    <3>1. IsFunc(f) /\ f.inst <= Len(insts) /\ Defined(f).type = ims[n].type
      BY <2>3, ImportsLink, LinkedFacts DEF Kinds
    <3>2. f.inst \in Nat /\ n <= Len(ims)
      BY <1>3, <2>2, <2>3 DEF FuncRef, Kinds
    <3> HIDE DEF f, ims
    <3>3. f.inst \in DOMAIN insts' /\ f.idx \in DOMAIN insts'[f.inst].module.funcs
          /\ insts'[f.inst].module.funcs[f.idx].type = ims[n].type
      BY <2>2, <3>1, StaysFunc
    <3>4. f.inst <= new
      BY <1>1, <3>1, <3>2
    <3> QED BY <2>2, <3>2, <3>3, <3>4 DEF f, ims
  <2>4. CASE \E k \in DOMAIN OwnFuncs(m) : n = Len(ims) + k /\ f = OwnFuncs(m)[k]
    <3>1. PICK k \in DOMAIN OwnFuncs(m) : n = Len(ims) + k /\ f = OwnFuncs(m)[k]
      BY <2>4
    <3>2. k \in DOMAIN m.funcs /\ f = [inst |-> new, idx |-> k]
      BY <3>1 DEF OwnFuncs
    <3>3. k \in Nat /\ k > 0
      <4>1. m.funcs \in Seq([type : FuncTypes, body : Seq(Instr)])
        BY ModuleFacts
      <4> QED BY <3>2, <4>1
    <3>4. ~(n <= Len(ims)) /\ n - Len(ims) = k
      BY <1>3, <3>1, <3>3 DEF Kinds
    <3>5. f.inst = new /\ f.idx = k /\ insts'[new].module = m /\ new \in DOMAIN insts' /\ new <= new
      BY <1>1, <3>2
    <3> HIDE DEF f, ims, new
    <3>6. f.inst \in DOMAIN insts' /\ f.idx \in DOMAIN insts'[f.inst].module.funcs
          /\ insts'[f.inst].module.funcs[f.idx].type = m.funcs[n - Len(ims)].type
      BY <3>2, <3>4, <3>5
    <3> QED BY <2>2, <3>4, <3>5, <3>6 DEF f, ims
  <2> QED BY <2>1, <2>3, <2>4
<1>5. ASSUME NEW n \in DOMAIN x.table
      PROVE  x.table[n] \in DOMAIN tabs'
  <2> DEFINE ims == Imports(m, "table")
             fresh == Fresh(tabs, Len(m.tables))
  <2>1. tabs \in Seq(Tab) /\ Len(m.tables) \in Nat
    BY ModuleFacts DEF Inv, TypeOK, HeapOK, Tab
  <2>2. DOMAIN fresh = 1..Len(m.tables) /\ \A k \in 1..Len(m.tables) : fresh[k] = Len(tabs) + k
    BY <2>1, FreshFacts
  <2>3. \/ n \in DOMAIN ims /\ x.table[n] = Object(ims[n])
        \/ \E k \in DOMAIN fresh : x.table[n] = fresh[k]
    BY NewInstanceFacts DEF Filled
  <2>4. \A j \in DOMAIN ims : Object(ims[j]) \in DOMAIN tabs
    BY ImportsLink, LinkedFacts DEF Kinds
  <2>5. DOMAIN tabs' = 1..(Len(tabs) + Len(m.tables)) /\ DOMAIN tabs = 1..Len(tabs)
        /\ Len(tabs) \in Nat
    BY <2>1, HeapGrows
  <2> HIDE DEF fresh, ims, x
  <2>6. CASE n \in DOMAIN ims /\ x.table[n] = Object(ims[n])
    BY <2>1, <2>4, <2>5, <2>6
  <2>7. CASE \E k \in DOMAIN fresh : x.table[n] = fresh[k]
    <3>1. \A k \in 1..Len(m.tables) : Len(tabs) + k \in DOMAIN tabs'
      BY <2>1, <2>5
    <3> QED BY <2>2, <2>7, <3>1
  <2> QED BY <2>3, <2>6, <2>7
<1>6. ASSUME NEW n \in DOMAIN x.memory
      PROVE  x.memory[n] \in DOMAIN mems'
  <2> DEFINE ims == Imports(m, "memory")
             fresh == Fresh(mems, Len(m.mems))
  <2>1. mems \in Seq(Mem) /\ Len(m.mems) \in Nat
    BY ModuleFacts DEF Inv, TypeOK, HeapOK, Mem
  <2>2. DOMAIN fresh = 1..Len(m.mems) /\ \A k \in 1..Len(m.mems) : fresh[k] = Len(mems) + k
    BY <2>1, FreshFacts
  <2>3. \/ n \in DOMAIN ims /\ x.memory[n] = Object(ims[n])
        \/ \E k \in DOMAIN fresh : x.memory[n] = fresh[k]
    BY NewInstanceFacts DEF Filled
  <2>4. \A j \in DOMAIN ims : Object(ims[j]) \in DOMAIN mems
    BY ImportsLink, LinkedFacts DEF Kinds
  <2>5. DOMAIN mems' = 1..(Len(mems) + Len(m.mems)) /\ DOMAIN mems = 1..Len(mems)
        /\ Len(mems) \in Nat
    BY <2>1, HeapGrows
  <2> HIDE DEF fresh, ims, x
  <2>6. CASE n \in DOMAIN ims /\ x.memory[n] = Object(ims[n])
    BY <2>1, <2>4, <2>5, <2>6
  <2>7. CASE \E k \in DOMAIN fresh : x.memory[n] = fresh[k]
    <3>1. \A k \in 1..Len(m.mems) : Len(mems) + k \in DOMAIN mems'
      BY <2>1, <2>5
    <3> QED BY <2>2, <2>7, <3>1
  <2> QED BY <2>3, <2>6, <2>7
<1>7. ASSUME NEW n \in DOMAIN x.global
      PROVE  x.global[n] \in DOMAIN cells' /\ cells'[x.global[n]].mut = Mutable(m, n)
  <2> DEFINE ims == Imports(m, "global")
             c == x.global[n]
  <2>1. cells \in Seq(Cell) /\ m.globals \in Seq([mut : BOOLEAN, init : ConstExpr])
    BY ModuleFacts DEF Inv, TypeOK, HeapOK, Cell
  <2>2. x.global = Globals(m)
    BY NewInstanceFacts
  <2>3. n \in DOMAIN ims \/ \E k \in 1..Len(m.globals) : n = Len(ims) + k
    BY <2>2, GlobalsFacts
  <2>4. DOMAIN cells' = 1..(Len(cells) + Len(m.globals)) /\ DOMAIN cells = 1..Len(cells)
        /\ Len(cells) \in Nat /\ Len(m.globals) \in Nat
    BY <2>1, HeapGrows
  <2>5. CASE n \in DOMAIN ims
    <3>1. c \in DOMAIN cells /\ cells[c].mut = ims[n].type
      BY <2>2, <2>5, GlobalsFacts
    <3>2. cells'[c] = cells[c]
      BY <3>1, HeapGrows
    <3>3. Mutable(m, n) = ims[n].type
      BY <1>3, <2>5 DEF Mutable, Kinds
    <3>4. c \in DOMAIN cells'
      <4> HIDE DEF c
      <4> QED BY <2>4, <3>1
    <3> QED BY <3>1, <3>2, <3>3, <3>4
  <2>6. CASE \E k \in 1..Len(m.globals) : n = Len(ims) + k
    <3>1. PICK k \in 1..Len(m.globals) : n = Len(ims) + k
      BY <2>6
    <3>2. c = Len(cells) + k
      BY <2>2, <3>1, GlobalsFacts
    <3>3. cells'[c].mut = m.globals[k].mut
      <4>1. cells'[c] = NewCells(m)[k]
        BY <3>2, HeapGrows
      <4>2. k \in DOMAIN m.globals
        BY <2>1
      <4> QED BY <4>1, <4>2, NewCellsFacts
    <3>4. Mutable(m, n) = m.globals[k].mut
      <4>1. ~(n <= Len(ims)) /\ n - Len(ims) = k
        BY <1>3, <2>4, <3>1 DEF Kinds
      <4> QED BY <4>1 DEF Mutable
    <3>5. c \in DOMAIN cells'
      <4> HIDE DEF c
      <4> QED BY <2>4, <3>2
    <3> QED BY <3>3, <3>4, <3>5
  <2> QED BY <2>3, <2>5, <2>6
<1>8. ASSUME NEW n \in DOMAIN Imports(m, "memory")
      PROVE  LET o == mems'[x.memory[n]]
             IN  LimitsMatch(Len(o.data), o.max, Imports(m, "memory")[n].type)
  <2> DEFINE im == Imports(m, "memory")[n]
  <2>1. /\ Object(im) \in DOMAIN mems
        /\ LimitsMatch(Len(mems[Object(im)].data), mems[Object(im)].max, im.type)
    BY ImportsLink, LinkedFacts DEF Kinds
  <2>2. x.memory[n] = Object(im)
    <3>1. \A k \in DOMAIN Fresh(mems, Len(m.mems)) : k > 0 /\ k \in Nat
      BY DEF Fresh
    <3>2. /\ n \in DOMAIN x.memory
          /\ \A k \in DOMAIN Fresh(mems, Len(m.mems)) : n # Len(Imports(m, "memory")) + k
      BY <1>2, <1>3, <3>1, ModuleFacts DEF Kinds
    <3> QED BY <3>2, NewInstanceFacts DEF Filled
  <2>3. mems'[Object(im)] = mems[Object(im)]
    BY <2>1, HeapGrows
  <2> QED BY <2>1, <2>2, <2>3
<1>9. ASSUME NEW n \in DOMAIN Imports(m, "table")
      PROVE  LET o == tabs'[x.table[n]]
             IN  LimitsMatch(Len(o.entries), o.max, Imports(m, "table")[n].type)
  <2> DEFINE im == Imports(m, "table")[n]
  <2>1. /\ Object(im) \in DOMAIN tabs
        /\ LimitsMatch(Len(tabs[Object(im)].entries), tabs[Object(im)].max, im.type)
    BY ImportsLink, LinkedFacts DEF Kinds
  <2>2. x.table[n] = Object(im)
    <3>1. \A k \in DOMAIN Fresh(tabs, Len(m.tables)) : k > 0 /\ k \in Nat
      BY DEF Fresh
    <3>2. /\ n \in DOMAIN x.table
          /\ \A k \in DOMAIN Fresh(tabs, Len(m.tables)) : n # Len(Imports(m, "table")) + k
      BY <1>2, <1>3, <3>1, ModuleFacts DEF Kinds
    <3> QED BY <3>2, NewInstanceFacts DEF Filled
  <2>3. tabs'[Object(im)] = tabs[Object(im)]
    BY <2>1, HeapGrows
  <2> QED BY <2>1, <2>2, <2>3
<1> QED BY <1>4, <1>5, <1>6, <1>7, <1>8, <1>9

(* Instantiating a module that links keeps the invariant. *)
LEMMA InstantiateKeeps ==
  ASSUME Inv, NEW m \in Modules, AllLink(m), Instantiate(m)
  PROVE  HeapOK' /\ InstancesOK' /\ AsDeclared' /\ Capped' /\ Control'
<1> DEFINE new == Len(insts) + 1
<1>1. /\ insts' \in Seq(Instance) /\ Len(insts') <= MaxInst /\ Len(insts) \in Nat
      /\ DOMAIN insts = 1..Len(insts) /\ DOMAIN insts' = 1..new
      /\ insts'[new] = NewInstance(m) /\ NewInstance(m).module = m
      /\ \A i \in DOMAIN insts : insts'[i] = insts[i]
  BY HeapGrows, NewInstanceFacts
<1>2. new \in Nat /\ new > 0 /\ \A i \in DOMAIN insts' : i \in DOMAIN insts \/ i = new
  BY <1>1
<1>3. /\ DOMAIN mems \subseteq DOMAIN mems' /\ DOMAIN tabs \subseteq DOMAIN tabs'
      /\ DOMAIN cells \subseteq DOMAIN cells'
  <2>1. /\ DOMAIN mems = 1..Len(mems) /\ DOMAIN tabs = 1..Len(tabs)
        /\ DOMAIN cells = 1..Len(cells) /\ Len(mems) \in Nat /\ Len(tabs) \in Nat
        /\ Len(cells) \in Nat
    BY DEF Inv, TypeOK, HeapOK
  <2>2. Len(m.mems) \in Nat /\ Len(m.tables) \in Nat /\ Len(m.globals) \in Nat
    <3>1. /\ m.globals \in Seq([mut : BOOLEAN, init : ConstExpr])
          /\ m.tables \in Seq(Limit) /\ m.mems \in Seq(Limit)
      BY ModuleFacts
    <3> QED BY <3>1
  <2>3. /\ DOMAIN mems' = 1..(Len(mems) + Len(m.mems))
        /\ DOMAIN tabs' = 1..(Len(tabs) + Len(m.tables))
        /\ DOMAIN cells' = 1..(Len(cells) + Len(m.globals))
    BY HeapGrows
  <2> QED BY <2>1, <2>2, <2>3
<1>4. ASSUME NEW i \in DOMAIN insts'
      PROVE  /\ \A kind \in Kinds : Len(insts'[i][kind]) = Size(insts'[i].module, kind)
             /\ \A n \in DOMAIN insts'[i].func :
                  (IsFunc(insts[i].func[n]))' /\ insts'[i].func[n].inst <= i
             /\ \A n \in DOMAIN insts'[i].table : insts'[i].table[n] \in DOMAIN tabs'
             /\ \A n \in DOMAIN insts'[i].memory : insts'[i].memory[n] \in DOMAIN mems'
             /\ \A n \in DOMAIN insts'[i].global : insts'[i].global[n] \in DOMAIN cells'
  <2>1. CASE i \in DOMAIN insts
    <3>1. insts'[i] = insts[i]
      BY <1>1, <2>1
    <3>2. /\ \A kind \in Kinds : Len(insts[i][kind]) = Size(insts[i].module, kind)
          /\ \A n \in DOMAIN insts[i].func :
               IsFunc(insts[i].func[n]) /\ insts[i].func[n].inst <= i
          /\ \A n \in DOMAIN insts[i].table : insts[i].table[n] \in DOMAIN tabs
          /\ \A n \in DOMAIN insts[i].memory : insts[i].memory[n] \in DOMAIN mems
          /\ \A n \in DOMAIN insts[i].global : insts[i].global[n] \in DOMAIN cells
      BY <2>1 DEF Inv, TypeOK, InstancesOK
    <3>3. \A n \in DOMAIN insts[i].func : insts[i].func[n] \in FuncRef
      <4>1. insts[i] \in Instance
        BY <2>1, InstanceFacts
      <4> QED BY <4>1 DEF Instance
    <3>4. \A n \in DOMAIN insts'[i].func : (IsFunc(insts[i].func[n]))'
      BY <3>1, <3>2, <3>3, StaysFunc DEF IsFunc
    <3> QED BY <1>3, <3>1, <3>2, <3>4
  <2>2. CASE i = new
    <3>1. insts'[i] = NewInstance(m)
      BY <1>1, <2>2
    <3>2. \A n \in DOMAIN insts'[i].func :
            (IsFunc(insts[i].func[n]))' /\ insts'[i].func[n].inst <= i
      BY <2>2, <3>1, NewInstanceOK DEF IsFunc
    <3>3. insts'[i].module = m /\ \A kind \in Kinds : Len(insts'[i][kind]) = Size(m, kind)
      BY <3>1, NewInstanceFacts
    <3>4. /\ \A n \in DOMAIN insts'[i].table : insts'[i].table[n] \in DOMAIN tabs'
          /\ \A n \in DOMAIN insts'[i].memory : insts'[i].memory[n] \in DOMAIN mems'
          /\ \A n \in DOMAIN insts'[i].global : insts'[i].global[n] \in DOMAIN cells'
      BY <3>1, NewInstanceOK
    <3> QED BY ONLY <3>2, <3>3, <3>4
  <2> QED BY <1>2, <2>1, <2>2
<1>5. InstancesOK'
  BY <1>1, <1>4 DEF InstancesOK, Instance
<1>6. ASSUME NEW i \in DOMAIN insts'
      PROVE  LET mi == insts'[i].module
                 ms == Imports(mi, "memory") ts == Imports(mi, "table")
             IN  /\ \A n \in DOMAIN insts'[i].func :
                      (Defined(insts[i].func[n]).type = Assumed(i, n))'
                 /\ \A n \in DOMAIN insts'[i].global :
                      cells'[insts'[i].global[n]].mut = Mutable(mi, n)
                 /\ \A n \in DOMAIN ms :
                      LET o == mems'[insts'[i].memory[n]]
                      IN  LimitsMatch(Len(o.data), o.max, ms[n].type)
                 /\ \A n \in DOMAIN ts :
                      LET o == tabs'[insts'[i].table[n]]
                      IN  LimitsMatch(Len(o.entries), o.max, ts[n].type)
  <2>1. CASE i \in DOMAIN insts
    <3> DEFINE mi == insts[i].module
    <3>1. insts'[i] = insts[i] /\ insts[i] \in Instance /\ mi \in Modules
          /\ \A kind \in Kinds : DOMAIN insts[i][kind] = 1..Size(mi, kind)
      BY <1>1, <2>1, InstanceFacts
    <3>2. \A n \in DOMAIN insts'[i].func : (Defined(insts[i].func[n]).type = Assumed(i, n))'
      <4>1. \A n \in DOMAIN insts[i].func :
              /\ insts[i].func[n] \in FuncRef /\ IsFunc(insts[i].func[n])
              /\ Defined(insts[i].func[n]).type = Assumed(i, n)
        <5>1. \A n \in DOMAIN insts[i].func : insts[i].func[n] \in FuncRef
          BY <3>1 DEF Instance
        <5>2. \A n \in DOMAIN insts[i].func : IsFunc(insts[i].func[n])
          BY <2>1, ZenonT(60) DEF Inv, TypeOK, InstancesOK
        <5>3. \A n \in DOMAIN insts[i].func : Defined(insts[i].func[n]).type = Assumed(i, n)
          BY <2>1 DEF Inv, AsDeclared
        <5> QED BY <5>1, <5>2, <5>3
      <4>2. ASSUME NEW n \in DOMAIN insts[i].func
            PROVE  LET f == insts[i].func[n]
                   IN  insts'[f.inst].module.funcs[f.idx].type = Assumed(i, n)
        BY <4>1, StaysFunc
      <4> QED BY <3>1, <4>2 DEF Defined, Assumed
    <3>3. \A n \in DOMAIN insts[i].global : cells'[insts[i].global[n]].mut = Mutable(mi, n)
      <4>1. \A n \in DOMAIN insts[i].global : insts[i].global[n] \in DOMAIN cells
        BY <2>1 DEF Inv, TypeOK, InstancesOK
      <4>2. \A o \in DOMAIN cells : cells'[o] = cells[o]
        BY HeapGrows
      <4>3. \A n \in DOMAIN insts[i].global :
              cells'[insts[i].global[n]] = cells[insts[i].global[n]]
        BY ONLY <4>1, <4>2
      <4> QED BY <2>1, <4>3 DEF Inv, AsDeclared
    <3>4. \A n \in DOMAIN Imports(mi, "memory") :
            mems'[insts[i].memory[n]] = mems[insts[i].memory[n]]
      <4>1. \A n \in DOMAIN Imports(mi, "memory") : n \in DOMAIN insts[i].memory
        BY <3>1, ImportsFacts, ModuleFacts, SMTT(60) DEF Kinds
      <4>2. \A n \in DOMAIN insts[i].memory : insts[i].memory[n] \in DOMAIN mems
        BY <2>1 DEF Inv, TypeOK, InstancesOK
      <4>3. \A o \in DOMAIN mems : mems'[o] = mems[o]
        BY HeapGrows
      <4> QED BY ONLY <4>1, <4>2, <4>3
    <3>5. \A n \in DOMAIN Imports(mi, "table") :
            tabs'[insts[i].table[n]] = tabs[insts[i].table[n]]
      <4>1. \A n \in DOMAIN Imports(mi, "table") : n \in DOMAIN insts[i].table
        BY <3>1, ImportsFacts, ModuleFacts, SMTT(60) DEF Kinds
      <4>2. \A n \in DOMAIN insts[i].table : insts[i].table[n] \in DOMAIN tabs
        BY <2>1 DEF Inv, TypeOK, InstancesOK
      <4>3. \A o \in DOMAIN tabs : tabs'[o] = tabs[o]
        BY HeapGrows
      <4> QED BY ONLY <4>1, <4>2, <4>3
    <3> QED BY <2>1, <3>1, <3>2, <3>3, <3>4, <3>5 DEF Inv, AsDeclared
  <2>2. CASE i = new
    <3>1. insts'[i] = NewInstance(m) /\ insts'[i].module = m
      BY <1>1, <2>2
    <3>2. \A n \in DOMAIN insts'[i].func : (Defined(insts[i].func[n]).type = Assumed(i, n))'
      BY <3>1, NewInstanceOK, ZenonT(60) DEF Defined, Assumed
    <3>3. \A n \in DOMAIN insts'[i].global :
            cells'[insts'[i].global[n]].mut = Mutable(insts'[i].module, n)
      BY <3>1, NewInstanceOK
    <3>4. \A n \in DOMAIN Imports(insts'[i].module, "memory") :
            LET o == mems'[insts'[i].memory[n]]
            IN  LimitsMatch(Len(o.data), o.max, Imports(insts'[i].module, "memory")[n].type)
      BY <3>1, NewInstanceOK
    <3>5. \A n \in DOMAIN Imports(insts'[i].module, "table") :
            LET o == tabs'[insts'[i].table[n]]
            IN  LimitsMatch(Len(o.entries), o.max, Imports(insts'[i].module, "table")[n].type)
      BY <3>1, NewInstanceOK
    <3> QED BY <3>2, <3>3, <3>4, <3>5
  <2> QED BY <1>2, <2>1, <2>2
<1>7. AsDeclared'
  BY <1>6 DEF AsDeclared
<1>8. /\ job = Idle /\ frames' = frames /\ live' = live /\ registered' = registered
      /\ job' = [at |-> "elem", inst |-> new, k |-> 1] /\ outcome' = "running"
  BY DEF Instantiate, AllLink, IsIdle
<1>9. frames = <<>> /\ live \subseteq DOMAIN insts
  BY <1>8 DEF Inv, TypeOK, ControlOK, Idle
<1>10. /\ job' \in JobType /\ job'.at = "elem" /\ job'.inst = new /\ job'.k = 1
       /\ live' \subseteq DOMAIN insts' /\ new \in DOMAIN insts'
  BY <1>1, <1>2, <1>8, <1>9 DEF JobType
<1>11. CalledAsTyped'
  BY <1>8, <1>9 DEF CalledAsTyped
<1>12. ControlOK'
  BY <1>8, <1>9, <1>10, LinkerAssumption DEF Inv, TypeOK, ControlOK, JobType
<1> QED BY <1>5, <1>7, <1>11, <1>12, HeapStaysOK DEF Control

(* A module that does not link leaves everything as it was. *)
LEMMA FailureKeeps ==
  ASSUME Inv, NEW m \in Modules, ~AllLink(m), Instantiate(m)
  PROVE  WritesInPlace /\ Control' /\ UNCHANGED heap
<1>1. /\ insts' = insts /\ heap' = heap /\ job' = job /\ outcome' = LinkFailure(m)
      /\ registered' = registered /\ live' = live /\ frames' = frames
  BY DEF Instantiate, AllLink
<1>2. WritesInPlace
  BY <1>1, QuietInPlace
<1>3. outcome' \in {"incompatible", "unresolved"}
  BY <1>1 DEF LinkFailure
<1>4. \A n \in DOMAIN frames' : (IsFunc(frames[n].fn))'
  BY <1>1 DEF Inv, TypeOK, ControlOK, IsFunc
<1>5. ControlOK'
  BY <1>1, <1>3, <1>4 DEF Inv, TypeOK, ControlOK
<1>6. CalledAsTyped'
  BY <1>1 DEF Inv, CalledAsTyped, Defined
<1> QED BY <1>1, <1>2, <1>5, <1>6 DEF Control

----------------------------------------------------------------------------
(* Every step but a successful instantiate writes in place.                *)
LEMMA StepInPlace ==
  ASSUME Inv, Next, ~\E m \in Modules : AllLink(m) /\ Instantiate(m)
  PROVE  WritesInPlace /\ Control'
<1>1. ASSUME NEW m \in Modules, Instantiate(m)
      PROVE  WritesInPlace /\ Control'
  BY <1>1, FailureKeeps
<1>2. ASSUME NEW i \in live, NEW a \in Aliases, Register(i, a)
      PROVE  WritesInPlace /\ Control'
  BY <1>2, RegisterKeeps, QuietInPlace DEF Register
<1>3. ASSUME NEW a \in Aliases, Unregister(a)
      PROVE  WritesInPlace /\ Control'
  BY <1>3, RegisterKeeps, QuietInPlace DEF Unregister
<1>4. ASSUME NEW i \in live, NEW e \in DOMAIN Exports(i), Invoke(i, e)
      PROVE  WritesInPlace /\ Control'
  BY <1>4, InvokeKeeps, QuietInPlace DEF Invoke
<1>5. CASE ElemSegment
  BY <1>5, ElemSegmentKeeps
<1>6. CASE DataSegment
  BY <1>6, DataSegmentKeeps
<1>7. CASE Start
  BY <1>7, StartKeeps, QuietInPlace DEF Start
<1>8. CASE Grow
  BY <1>8, GrowKeeps
<1>9. CASE MemStore
  BY <1>9, MemStoreKeeps
<1>10. CASE GlobalSet
  BY <1>10, GlobalSetKeeps
<1>11. CASE Unreachable
  <2>1. frames # <<>>
    BY <1>11 DEF Unreachable, Running
  <2> QED BY <1>11, <2>1, TrapKeeps, QuietInPlace DEF Unreachable
<1>12. CASE Call
  BY <1>12, CallKeeps, QuietInPlace DEF Call
<1>13. CASE CallIndirect
  BY <1>13, CallIndirectKeeps, QuietInPlace DEF CallIndirect
<1>14. CASE Return
  BY <1>14, ReturnKeeps, QuietInPlace DEF Return
<1> QED BY <1>1, <1>2, <1>3, <1>4, <1>5, <1>6, <1>7, <1>8, <1>9, <1>10, <1>11, <1>12,
           <1>13, <1>14 DEF Next, Step

(* The empty store satisfies the invariant. *)
LEMMA InitInv == Init => Inv
<1> SUFFICES ASSUME Init PROVE Inv
  OBVIOUS
<1>1. /\ insts = <<>> /\ mems = <<>> /\ tabs = <<>> /\ cells = <<>> /\ frames = <<>>
      /\ live = {} /\ registered = [a \in Aliases |-> 0] /\ job = Idle /\ outcome = "none"
  BY DEF Init
<1>2. HeapOK
  BY <1>1 DEF HeapOK
<1>3. InstancesOK
  BY <1>1, LinkerAssumption DEF InstancesOK
<1>4. ControlOK
  BY <1>1, LinkerAssumption DEF ControlOK, Idle
<1>5. AsDeclared /\ Capped /\ CalledAsTyped
  BY <1>1 DEF AsDeclared, Capped, CalledAsTyped
<1> QED BY <1>2, <1>3, <1>4, <1>5 DEF Inv, TypeOK

(* Every step keeps the invariant. *)
LEMMA NextInv ==
  ASSUME Inv, [Next]_vars
  PROVE  Inv'
<1>1. CASE \E m \in Modules : AllLink(m) /\ Instantiate(m)
  BY <1>1, InstantiateKeeps DEF Inv, TypeOK, Control
<1>2. CASE Next /\ ~\E m \in Modules : AllLink(m) /\ Instantiate(m)
  BY <1>2, StepInPlace, InPlaceKeeps DEF Inv, TypeOK, Control
<1>3. CASE UNCHANGED vars
  <2>1. /\ insts' = insts /\ mems' = mems /\ tabs' = tabs /\ cells' = cells
        /\ registered' = registered /\ live' = live /\ job' = job
        /\ frames' = frames /\ outcome' = outcome
    BY <1>3 DEF vars, heap
  <2>2. WritesInPlace
    BY <2>1, QuietInPlace DEF heap
  <2>3. ControlOK' /\ CalledAsTyped'
    BY <2>1 DEF Inv, TypeOK, ControlOK, CalledAsTyped, IsFunc, Defined
  <2> QED BY <2>2, <2>3, InPlaceKeeps DEF Inv, TypeOK
<1> QED BY <1>1, <1>2, <1>3

(* The inductive invariant: beside the types, the declarations of every    *)
(* index and the caps of memories and tables.                              *)
THEOREM Invariance == Spec => []Inv
<1>1. Init => Inv
  BY InitInv
<1>2. Inv /\ [Next]_vars => Inv'
  BY NextInv
<1> QED BY <1>1, <1>2, PTL DEF Spec

----------------------------------------------------------------------------
(* Type correctness, for every set of validated modules.                   *)
THEOREM TypeCorrect == Spec => []TypeOK
<1>1. Inv => TypeOK
  BY DEF Inv
<1> QED BY <1>1, Invariance, PTL

(* A function is only ever entered at the type its call site was validated *)
(* against: the declarations of AsDeclared for a direct call, the check of *)
(* the entry for an indirect one.                                          *)
THEOREM CalledAsTypedHolds == Spec => []CalledAsTyped
<1>1. Inv => CalledAsTyped
  BY DEF Inv
<1> QED BY <1>1, Invariance, PTL

(* An imported memory or table stays within the limits its importer        *)
(* declared: it matched them once, it never shrinks, and its own maximum,  *)
(* which is no more than the declared one, caps its growth.                *)
LEMMA InvDeclaredLimits == Inv => DeclaredLimits
<1> SUFFICES ASSUME Inv PROVE DeclaredLimits
  OBVIOUS
<1>1. ASSUME NEW i \in DOMAIN insts, NEW n \in DOMAIN Imports(insts[i].module, "memory")
      PROVE  Within(Len(mems[insts[i].memory[n]].data),
                    Imports(insts[i].module, "memory")[n].type)
  <2> DEFINE m == insts[i].module
             o == insts[i].memory[n]
             lim == Imports(m, "memory")[n].type
  <2>1. m \in Modules /\ DOMAIN insts[i].memory = 1..Size(m, "memory")
    BY InstanceFacts DEF Kinds
  <2>2. n \in DOMAIN insts[i].memory
    BY <2>1, ImportsFacts, ModuleFacts DEF Kinds
  <2>3. lim \in Limit
    BY <2>1, ImportsFacts DEF Import
  <2>4. o \in DOMAIN mems
    BY <2>2 DEF Inv, TypeOK, InstancesOK
  <2>5. /\ LimitsMatch(Len(mems[o].data), mems[o].max, lim)
        /\ Len(mems[o].data) <= (IF mems[o].max = NoMax THEN MaxPages ELSE mems[o].max)
    BY <2>4 DEF Inv, AsDeclared, Capped
  <2>6. Len(mems[o].data) \in Nat /\ mems[o].max \in Nat \cup {NoMax}
    <3>1. mems \in Seq(Mem)
      BY DEF Inv, TypeOK, HeapOK, Mem
    <3>2. mems[o] \in Mem
      BY <2>4, <3>1
    <3> QED BY <3>2 DEF Mem
  <2> HIDE DEF m, o, lim
  <2>7. Within(Len(mems[o].data), lim)
    BY <2>3, <2>5, <2>6 DEF LimitsMatch, Within, Limit
  <2> QED BY <2>7 DEF m, o, lim
<1>2. ASSUME NEW i \in DOMAIN insts, NEW n \in DOMAIN Imports(insts[i].module, "table")
      PROVE  Within(Len(tabs[insts[i].table[n]].entries),
                    Imports(insts[i].module, "table")[n].type)
  <2> DEFINE m == insts[i].module
             t == insts[i].table[n]
             lim == Imports(m, "table")[n].type
  <2>1. m \in Modules /\ DOMAIN insts[i].table = 1..Size(m, "table")
    BY InstanceFacts DEF Kinds
  <2>2. n \in DOMAIN insts[i].table
    BY <2>1, ImportsFacts, ModuleFacts DEF Kinds
  <2>3. lim \in Limit
    BY <2>1, ImportsFacts DEF Import
  <2>4. t \in DOMAIN tabs
    BY <2>2 DEF Inv, TypeOK, InstancesOK
  <2>5. /\ LimitsMatch(Len(tabs[t].entries), tabs[t].max, lim)
        /\ tabs[t].max # NoMax => Len(tabs[t].entries) <= tabs[t].max
    BY <2>4 DEF Inv, AsDeclared, Capped
  <2>6. Len(tabs[t].entries) \in Nat /\ tabs[t].max \in Nat \cup {NoMax}
    <3>1. tabs \in Seq(Tab)
      BY DEF Inv, TypeOK, HeapOK, Tab
    <3>2. tabs[t] \in Tab
      BY <2>4, <3>1
    <3> QED BY <3>2 DEF Tab
  <2> HIDE DEF m, t, lim
  <2>7. Within(Len(tabs[t].entries), lim)
    BY <2>3, <2>5, <2>6 DEF LimitsMatch, Within, Limit
  <2> QED BY <2>7 DEF m, t, lim
<1> QED BY <1>1, <1>2 DEF DeclaredLimits

(* An imported memory or table stays within what its importer declared,    *)
(* whoever grows the object later.                                         *)
THEOREM DeclaredLimitsHold == Spec => []DeclaredLimits
BY InvDeclaredLimits, Invariance, PTL

(* The value of an immutable global never changes: the only step that      *)
(* writes a cell is global.set, which the validator allows on mutable ones *)
(* only, and a cell is what every instance declared of it.                 *)
LEMMA StepConstants ==
  ASSUME Inv, [Next]_vars, NEW c \in DOMAIN cells, ~cells[c].mut
  PROVE  cells'[c] = cells[c]
<1>1. CASE \E m \in Modules : AllLink(m) /\ Instantiate(m)
  BY <1>1, HeapGrows
<1>2. CASE GlobalSet
  <2>1. /\ cells' = [cells EXCEPT ![home.global[ins.idx]].value = ins.v]
        /\ cells[home.global[ins.idx]].mut
    BY <1>2, GlobalSetKeeps DEF GlobalSet
  <2>2. c # home.global[ins.idx]
    BY <2>1
  <2> QED BY <2>1, <2>2
<1>3. CASE /\ ~\E m \in Modules : AllLink(m) /\ Instantiate(m)
           /\ ~GlobalSet
  <2>1. cells' = cells
    BY <1>3 DEF Next, Step, Instantiate, AllLink, Register, Unregister, Invoke, ElemSegment,
                DataSegment, Start, Grow, MemStore, Unreachable, Call, CallIndirect, Return,
                vars, heap
  <2> QED BY <2>1
<1> QED BY <1>1, <1>2, <1>3

(* No step changes the value of an immutable global. *)
THEOREM ConstantsStayHolds == Spec => ConstantsStay
<1>1. Inv /\ [Next]_vars =>
        [\A c \in DOMAIN cells : ~cells[c].mut => cells'[c] = cells[c]]_vars
  BY StepConstants
<1> QED BY <1>1, Invariance, PTL DEF Spec, ConstantsStay

(* A step that traps writes nothing.                                       *)
LEMMA StepTraps ==
  ASSUME Inv, [Next]_vars, outcome' = "trapped", outcome # "trapped"
  PROVE  UNCHANGED heap
<1>1. CASE \E m \in Modules : Instantiate(m)
  BY <1>1 DEF Instantiate
<1>2. CASE ElemSegment
  BY <1>2 DEF ElemSegment, Continue, heap
<1>3. CASE DataSegment
  BY <1>3 DEF DataSegment, Continue, heap
<1>4. CASE Grow
  BY <1>4 DEF Grow, Proceed
<1>5. CASE MemStore
  BY <1>5 DEF MemStore, Proceed, heap
<1>6. CASE GlobalSet
  BY <1>6 DEF GlobalSet, Proceed
<1>7. CASE ~(\/ \E m \in Modules : Instantiate(m)
             \/ ElemSegment \/ DataSegment \/ Grow \/ MemStore \/ GlobalSet)
  BY <1>7 DEF Next, Step, Register, Unregister, Invoke, Start, Unreachable, Call,
              CallIndirect, Return, vars
<1> QED BY <1>1, <1>2, <1>3, <1>4, <1>5, <1>6, <1>7

(* The step that traps writes no object: a segment or a store out of       *)
(* bounds leaves everything before it, and nothing of itself.              *)
THEOREM TrapsWriteNothingHolds == Spec => TrapsWriteNothing
<1>1. Inv /\ [Next]_vars =>
        [outcome' = "trapped" /\ outcome # "trapped" => UNCHANGED heap]_vars
  BY StepTraps
<1> QED BY <1>1, Invariance, PTL DEF Spec, TrapsWriteNothing

(* An object changes only at the hands of an instance that reaches it.     *)
Confining ==
  /\ \A o \in DOMAIN mems : mems'[o] # mems[o] => Reaches(Actor, "memory", o)
  /\ \A o \in DOMAIN tabs : tabs'[o] # tabs[o] => Reaches(Actor, "table", o)
  /\ \A o \in DOMAIN cells : cells'[o] # cells[o] => Reaches(Actor, "global", o)

(* An instance reaches the first object of each of its index spaces. *)
LEMMA FirstReached ==
  ASSUME Inv, NEW i \in DOMAIN insts, NEW kind \in Kinds, Size(insts[i].module, kind) > 0
  PROVE  Reaches(i, kind, insts[i][kind][1])
<1>1. Size(insts[i].module, kind) \in Nat
  BY InstanceFacts, ModuleFacts
<1>2. 1 \in DOMAIN insts[i][kind]
  BY <1>1, InstanceFacts
<1> QED BY <1>2 DEF Reaches

(* What a step writes is reached by the instance that runs, or whose       *)
(* segments are applied.                                                   *)
LEMMA StepConfining ==
  ASSUME Inv, [Next]_vars
  PROVE  Confining
<1>1. CASE \E m \in Modules : AllLink(m) /\ Instantiate(m)
  BY <1>1, HeapGrows DEF Confining
<1>2. CASE ElemSegment
  <2> DEFINE t == This.table[1]
  <2>1. /\ job.at = "elem" /\ mems' = mems /\ cells' = cells
        /\ \A o \in DOMAIN tabs : o # t => tabs'[o] = tabs[o]
    BY <1>2 DEF ElemSegment
  <2>2. /\ job.inst \in DOMAIN insts /\ This = insts[job.inst] /\ Actor = job.inst
        /\ This.module \in Modules /\ job.k \in Nat /\ job.k > 0
    BY <2>1, ThisFacts DEF Inv, TypeOK, ControlOK, Actor
  <2>3. CASE tabs' = tabs
    BY <2>1, <2>3 DEF Confining
  <2>4. CASE tabs' # tabs
    <3>1. ~(job.k > Len(This.module.elems))
      BY <1>2, <2>4 DEF ElemSegment
    <3>2. /\ This.module.elems \in Seq([off : ConstExpr, idxs : Seq(Nat)])
          /\ Validated(This.module)
      BY <2>2, ModuleFacts
    <3>3. job.k \in DOMAIN This.module.elems
      BY <2>2, <3>1, <3>2
    <3>4. Size(This.module, "table") > 0
      BY <3>2, <3>3 DEF Validated
    <3>5. Reaches(Actor, "table", t)
      BY <2>2, <3>4, FirstReached DEF Kinds
    <3> QED BY <2>1, <3>5 DEF Confining
  <2> QED BY <2>3, <2>4
<1>3. CASE DataSegment
  <2> DEFINE o == This.memory[1]
  <2>1. /\ job.at = "data" /\ tabs' = tabs /\ cells' = cells
        /\ \A p \in DOMAIN mems : p # o => mems'[p] = mems[p]
    BY <1>3 DEF DataSegment
  <2>2. /\ job.inst \in DOMAIN insts /\ This = insts[job.inst] /\ Actor = job.inst
        /\ This.module \in Modules /\ job.k \in Nat /\ job.k > 0
    BY <2>1, ThisFacts DEF Inv, TypeOK, ControlOK, Actor
  <2>3. CASE mems' = mems
    BY <2>1, <2>3 DEF Confining
  <2>4. CASE mems' # mems
    <3>1. ~(job.k > Len(This.module.datas))
      BY <1>3, <2>4 DEF DataSegment
    <3>2. /\ This.module.datas \in Seq([off : ConstExpr, len : Nat])
          /\ Validated(This.module)
      BY <2>2, ModuleFacts
    <3>3. job.k \in DOMAIN This.module.datas
      BY <2>2, <3>1, <3>2
    <3>4. Size(This.module, "memory") > 0
      BY <3>2, <3>3 DEF Validated
    <3>5. Reaches(Actor, "memory", o)
      BY <2>2, <3>4, FirstReached DEF Kinds
    <3> QED BY <2>1, <3>5 DEF Confining
  <2> QED BY <2>3, <2>4
<1>4. CASE Grow \/ MemStore
  <2> DEFINE o == home.memory[1]
  <2>1. /\ Running("grow") \/ Running("store")
        /\ tabs' = tabs /\ cells' = cells
        /\ \A p \in DOMAIN mems : p # o => mems'[p] = mems[p]
    BY <1>4 DEF Grow, MemStore
  <2>2. /\ frames # <<>> /\ Size(home.module, "memory") > 0
        /\ top.fn.inst \in DOMAIN insts /\ home = insts[top.fn.inst]
    BY <2>1, RunningFacts DEF InstrOK
  <2>3. Reaches(Actor, "memory", o)
    BY <2>2, FirstReached DEF Kinds, Actor
  <2> QED BY <2>1, <2>3 DEF Confining
<1>5. CASE GlobalSet
  <2> DEFINE c == home.global[ins.idx]
  <2>1. /\ Running("global.set") /\ mems' = mems /\ tabs' = tabs
        /\ \A p \in DOMAIN cells : p # c => cells'[p] = cells[p]
    BY <1>5 DEF GlobalSet
  <2>2. /\ frames # <<>> /\ ins.idx \in 1..Size(home.module, "global")
        /\ top.fn.inst \in DOMAIN insts /\ home = insts[top.fn.inst]
    BY <2>1, RunningFacts DEF InstrOK
  <2>3. ins.idx \in DOMAIN home.global
    BY <2>2, InstanceFacts DEF Kinds
  <2>4. Reaches(Actor, "global", c)
    BY <2>2, <2>3 DEF Reaches, Actor
  <2> QED BY <2>1, <2>4 DEF Confining
<1>6. CASE ~(\/ \E m \in Modules : AllLink(m) /\ Instantiate(m)
             \/ ElemSegment \/ DataSegment \/ Grow \/ MemStore \/ GlobalSet)
  <2>1. mems' = mems /\ tabs' = tabs /\ cells' = cells
    BY <1>6 DEF Next, Step, Instantiate, AllLink, Register, Unregister, Invoke, Start,
                Unreachable, Call, CallIndirect, Return, vars, heap
  <2> QED BY <2>1 DEF Confining
<1> QED BY <1>1, <1>2, <1>3, <1>4, <1>5, <1>6

(* An object is only ever written by an instance that has it in an index   *)
(* space: linking shares what is exported and nothing else.                *)
THEOREM ConfinedHolds == Spec => Confined
<1>1. Inv /\ [Next]_vars => [Confining]_vars
  BY StepConfining
<1>2. Confined <=> [][Confining]_vars
  BY DEF Confined, Confining
<1> QED BY <1>1, <1>2, Invariance, PTL DEF Spec

=============================================================================
