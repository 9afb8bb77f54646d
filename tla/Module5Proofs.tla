---------------------------- MODULE Module5Proofs ----------------------------
(***************************************************************************)
(* The invariants of module Module5, for any modules the decoder makes and *)
(* any objects a store may hold.                                           *)
(***************************************************************************)
EXTENDS Module5, FiniteSetTheorems, TLAPS

SectionOk(k) == SectionVerdict(Sections[k]) = "ok"
Things == Objects \cup Limits
n_imported(kind) == Cardinality(Places(kind))

\* Cell g of the instance is the global the module calls g - 1.
Declares(g) ==
  [valtype |-> spaces.globals[g].valtype, mutable |-> spaces.globals[g].mutable]
    = global_type(g - 1)

Typed ==
  /\ module \in Modules /\ at \in 1..18
  /\ outcome \in {"running", "invalid", "incompatible"}
  /\ spaces \in [funcs : Seq(FuncObjects), tables : Seq(Things), mems : Seq(Things),
                 globals : Seq(Cells)]

(* Sections passed were found valid, and the one rejected was not.         *)
Judged ==
  /\ \A k \in 1..10 : k < at => SectionOk(k)
  /\ outcome = "invalid" => \E k \in 1..10 : ~SectionOk(k)

(* What the stages passed have left in the index spaces.                   *)
Filling ==
  /\ at > 11 =>
       /\ Len(spaces.tables) = n_tables /\ Len(spaces.mems) = n_mems
       /\ Len(spaces.globals) \in n_imported("global")..n_globals
       /\ \A g \in DOMAIN spaces.globals : Declares(g)
       /\ Len(spaces.funcs) = IF at > 13 THEN n_funcs ELSE n_imported("func")
       /\ \A f \in DOMAIN spaces.funcs : spaces.funcs[f].type = func_type(f - 1)
  /\ at > 12 => Len(spaces.globals) = n_globals

Inv == Typed /\ Judged /\ Filling /\ GlobalsKeepTheirWord /\ StartIsNullary

----------------------------------------------------------------------------
(* The n-th of a set of positions is one of them.                          *)
LEMMA NthIsElement ==
  ASSUME NEW S \in SUBSET Nat, IsFiniteSet(S), NEW n \in 1..Cardinality(S)
  PROVE  Nth(S, n) \in S
<1> DEFINE Less(i) == {j \in S : j < i}
           T == 0..(Cardinality(S) - 1)
           f == [i \in S |-> Cardinality(Less(i))]
<1>1. Cardinality(S) \in Nat
  BY FS_CardinalityType
<1>2. ASSUME NEW i \in S
      PROVE  IsFiniteSet(Less(i)) /\ Cardinality(Less(i)) \in Nat
  BY FS_Subset, FS_CardinalityType
<1>3. ASSUME NEW i \in S
      PROVE  Cardinality(Less(i)) \in T
  <2>1. IsFiniteSet(S \ {i}) /\ Cardinality(S \ {i}) = Cardinality(S) - 1
    BY FS_RemoveElement
  <2>2. Less(i) \in SUBSET (S \ {i})
    OBVIOUS
  <2>3. Cardinality(Less(i)) <= Cardinality(S \ {i})
    BY <2>1, <2>2, FS_Subset
  <2> QED BY <1>1, <1>2, <2>1, <2>3
<1>4. ASSUME NEW i \in S, NEW k \in S, i < k
      PROVE  f[i] # f[k]
  <2>1. IsFiniteSet(Less(i) \cup {i})
        /\ Cardinality(Less(i) \cup {i}) = Cardinality(Less(i)) + 1
    <3>1. i \notin Less(i)
      OBVIOUS
    <3> HIDE DEF Less
    <3> QED BY <1>2, <3>1, FS_AddElement
  <2>2. Less(i) \cup {i} \in SUBSET Less(k)
    <3>1. \A j \in S : j \in Nat
      OBVIOUS
    <3>2. \A j \in S : j < i => j < k
      BY <1>4, <3>1
    <3> QED BY <1>4, <3>2
  <2>3. Cardinality(Less(i) \cup {i}) <= Cardinality(Less(k))
    BY <1>2, <2>2, FS_Subset
  <2> HIDE DEF Less
  <2> QED BY <1>2, <2>1, <2>3
<1>5. f \in Injection(S, T)
  <2>1. f \in [S -> T]
    BY <1>3
  <2>2. \A i, k \in S : i # k => i < k \/ k < i
    OBVIOUS
  <2>3. \A i, k \in S : f[i] = f[k] => i = k
    BY <1>4, <2>2
  <2> HIDE DEF f
  <2> QED BY <2>1, <2>3 DEF Injection, IsInjective
<1>6. IsFiniteSet(T) /\ Cardinality(T) = Cardinality(S)
  <2>1. 0 \in Int /\ Cardinality(S) - 1 \in Int
    BY <1>1
  <2>2. IsFiniteSet(T)
        /\ Cardinality(T) = IF 0 > Cardinality(S) - 1 THEN 0 ELSE Cardinality(S) - 1 - 0 + 1
    BY <2>1, FS_Interval
  <2> HIDE DEF T
  <2> QED BY <1>1, <2>2
<1>7. f \in Surjection(S, T)
  <2> HIDE DEF f, T
  <2> QED BY <1>5, <1>6, FS_Injection
<1>8. \E i \in S : f[i] = n - 1
  <2>1. n - 1 \in T
    BY <1>1
  <2> HIDE DEF f, T
  <2> QED BY <1>7, <2>1 DEF Surjection
<1>9. \E i \in S : Cardinality({j \in S : j < i}) = n - 1
  BY <1>8
<1> QED BY <1>9 DEF Nth

(* The elements of a sequence over S are in S. *)
LEMMA ElementOf ==
  ASSUME NEW S, NEW s \in Seq(S), NEW k \in DOMAIN s
  PROVE  s[k] \in S
  OBVIOUS

(* A concatenation holds the first sequence, then the second. *)
LEMMA ConcatFacts ==
  ASSUME NEW S, NEW s \in Seq(S), NEW t \in Seq(S)
  PROVE  /\ s \o t \in Seq(S) /\ Len(s \o t) = Len(s) + Len(t) /\ Len(s) \in Nat
         /\ DOMAIN (s \o t) = 1..(Len(s) + Len(t))
         /\ \A k \in DOMAIN s : (s \o t)[k] = s[k]
         /\ \A k \in 1..Len(t) : (s \o t)[Len(s) + k] = t[k]
  OBVIOUS

(* The first verdict that is not "ok".                                     *)
LEMMA FirstIs ==
  ASSUME NEW vs, NEW n \in Nat, DOMAIN vs = 1..n
  PROVE  /\ First(vs) = "ok" <=> \A i \in 1..n : vs[i] = "ok"
         /\ First(vs) = "ok" \/ \E i \in 1..n : First(vs) = vs[i]
<1> DEFINE bad == {i \in DOMAIN vs : vs[i] # "ok"}
<1>1. IsFiniteSet(1..n)
  BY FS_Interval
<1>2. bad \in SUBSET (1..n) /\ bad \in SUBSET Nat
  OBVIOUS
<1>3. IsFiniteSet(bad)
  BY <1>1, <1>2, FS_Subset
<1>4. CASE bad = {}
  BY <1>4 DEF First
<1>5. CASE bad # {}
  <2>1. Cardinality(bad) \in Nat /\ Cardinality(bad) # 0
    BY <1>3, <1>5, FS_CardinalityType, FS_EmptySet
  <2>2. 1 \in 1..Cardinality(bad)
    BY <2>1
  <2>3. Nth(bad, 1) \in bad
    <3> HIDE DEF bad
    <3> QED BY <1>2, <1>3, <2>2, NthIsElement
  <2>4. First(vs) = vs[Nth(bad, 1)]
    BY <1>5 DEF First
  <2> QED BY <1>5, <2>3, <2>4
<1> QED BY <1>4, <1>5
----------------------------------------------------------------------------
(* What a decoded module is.                                               *)
LEMMA ModuleFacts ==
  ASSUME module \in Modules
  PROVE  /\ module.types \in Seq(FuncTypes) /\ module.imports \in Seq(Imports)
         /\ module.funcs \in Seq(Funcs) /\ module.tables \in Seq(Limits)
         /\ module.mems \in Seq(Limits) /\ Len(module.mems) <= 1
         /\ module.globals \in Seq(Globals) /\ module.elems \in Seq(Segments)
         /\ module.datas \in Seq(Segments) /\ module.exports \in Seq(Exports)
         /\ module.start \in Nat \cup {NoStart}
BY ModulesAssumption

(* The imports of one kind: how many there are, where, and in which order. *)
LEMMA PlacesFacts ==
  ASSUME module \in Modules, NEW kind
  PROVE  /\ IsFiniteSet(Places(kind)) /\ n_imported(kind) \in Nat
         /\ \A n \in 1..n_imported(kind) :
              /\ Nth(Places(kind), n) \in DOMAIN module.imports
              /\ module.imports[Nth(Places(kind), n)].kind = kind
         /\ Imported(kind) = [n \in 1..n_imported(kind) |-> module.imports[Nth(Places(kind), n)]]
         /\ Imported(kind) \in Seq(Imports) /\ Len(Imported(kind)) = n_imported(kind)
         /\ DOMAIN Imported(kind) = 1..n_imported(kind)
<1> DEFINE S == Places(kind)
<1>1. module.imports \in Seq(Imports)
  BY ModuleFacts
<1>2. S \in SUBSET Nat /\ IsFiniteSet(S)
  <2>1. Len(module.imports) \in Nat /\ DOMAIN module.imports = 1..Len(module.imports)
    BY <1>1
  <2>2. IsFiniteSet(1..Len(module.imports))
    BY <2>1, FS_Interval
  <2>3. S \in SUBSET (1..Len(module.imports))
    BY <2>1 DEF Places
  <2> QED BY <2>1, <2>2, <2>3, FS_Subset
<1>3. n_imported(kind) \in Nat
  BY <1>2, FS_CardinalityType DEF n_imported
<1>4. ASSUME NEW n \in 1..n_imported(kind)
      PROVE  Nth(S, n) \in DOMAIN module.imports /\ module.imports[Nth(S, n)].kind = kind
             /\ module.imports[Nth(S, n)] \in Imports
  <2>1. Nth(S, n) \in S
    BY <1>2, NthIsElement DEF n_imported
  <2>2. Nth(S, n) \in DOMAIN module.imports /\ module.imports[Nth(S, n)].kind = kind
    BY <2>1 DEF Places
  <2> QED BY <1>1, <2>2
<1>5. Imported(kind) = [n \in 1..n_imported(kind) |-> module.imports[Nth(S, n)]]
  BY DEF Imported, Of, n_imported
<1> QED BY <1>2, <1>3, <1>4, <1>5

(* The sizes of the index spaces.                                          *)
LEMMA Sizes ==
  ASSUME module \in Modules
  PROVE  /\ n_funcs = n_imported("func") + Len(module.funcs)
         /\ n_tables = n_imported("table") + Len(module.tables)
         /\ n_mems = n_imported("memory") + Len(module.mems)
         /\ n_globals = n_imported("global") + Len(module.globals)
         /\ \A kind : n_imported(kind) \in Nat
         /\ Len(module.types) \in Nat /\ Len(module.funcs) \in Nat
         /\ Len(module.tables) \in Nat /\ Len(module.mems) \in Nat
         /\ Len(module.globals) \in Nat
         /\ n_funcs \in Nat /\ n_tables \in Nat /\ n_mems \in Nat /\ n_globals \in Nat
<1>1. /\ Len(module.types) \in Nat /\ Len(module.funcs) \in Nat
      /\ Len(module.tables) \in Nat /\ Len(module.mems) \in Nat
      /\ Len(module.globals) \in Nat
  BY ModuleFacts, SMTT(60)
<1>2. \A kind : n_imported(kind) \in Nat
  BY PlacesFacts
<1>3. /\ Len(Imported("func")) = n_imported("func")
      /\ Len(Imported("table")) = n_imported("table")
      /\ Len(Imported("memory")) = n_imported("memory")
      /\ Len(Imported("global")) = n_imported("global")
  BY PlacesFacts
<1>4. /\ n_imported("func") \in Nat /\ n_imported("table") \in Nat
      /\ n_imported("memory") \in Nat /\ n_imported("global") \in Nat
  BY <1>2
<1>5. /\ n_funcs = n_imported("func") + Len(module.funcs)
      /\ n_tables = n_imported("table") + Len(module.tables)
      /\ n_mems = n_imported("memory") + Len(module.mems)
      /\ n_globals = n_imported("global") + Len(module.globals)
  BY <1>3 DEF n_funcs, n_tables, n_mems, n_globals
<1>6. n_funcs \in Nat /\ n_tables \in Nat /\ n_mems \in Nat /\ n_globals \in Nat
  <2>1. \A a, b \in Nat : a + b \in Nat
    OBVIOUS
  <2> QED BY ONLY <1>1, <1>4, <1>5, <2>1, ZenonT(60)
<1> QED BY ONLY <1>1, <1>2, <1>5, <1>6, ZenonT(60)

----------------------------------------------------------------------------
(* What a section that was found valid promises.                           *)
LEMMA SectionsAre ==
  /\ Len(Sections) = 10 /\ Len(Stages) = 8
  /\ Sections[1] = "imports" /\ Sections[2] = "functypes" /\ Sections[3] = "tables"
  /\ Sections[4] = "mems" /\ Sections[5] = "globals" /\ Sections[6] = "bodies"
  /\ Sections[7] = "elems" /\ Sections[8] = "datas" /\ Sections[9] = "start"
  /\ Sections[10] = "exports"
  /\ Stages[1] = "imports" /\ Stages[2] = "globals" /\ Stages[3] = "funcs"
  /\ Stages[4] = "exports" /\ Stages[5] = "elems" /\ Stages[6] = "datas"
  /\ Stages[7] = "start" /\ Stages[8] = "calls"
BY DEF Sections, Stages

(* A section is judged by the first of its entries that is not valid. *)
LEMMA EachSection ==
  /\ SectionVerdict("imports") = First([i \in DOMAIN module.imports |-> ImportVerdict(module.imports[i])])
  /\ SectionVerdict("functypes") = First([i \in DOMAIN module.funcs |-> TypeIndexVerdict(module.funcs[i])])
  /\ SectionVerdict("tables") = First([i \in DOMAIN module.tables |-> _check_table_limits(module.tables[i])])
  /\ SectionVerdict("mems") = First([i \in DOMAIN module.mems |-> _check_mem_limits(module.mems[i])])
  /\ SectionVerdict("globals") = First([i \in DOMAIN module.globals |-> GlobalVerdict(module.globals[i])])
  /\ SectionVerdict("bodies") = First([i \in DOMAIN module.funcs |-> BodyVerdict(module.funcs[i])])
  /\ SectionVerdict("elems") = First([i \in DOMAIN module.elems |-> ElemVerdict(module.elems[i])])
  /\ SectionVerdict("datas") = First([i \in DOMAIN module.datas |-> DataVerdict(module.datas[i])])
  /\ SectionVerdict("start") = StartVerdict
BY DEF SectionVerdict, Each
(* So are the exports, each also against the names before it. *)
LEMMA EachExport ==
  SectionVerdict("exports") = First([e \in DOMAIN module.exports |-> ExportVerdict(e)])
BY DEF SectionVerdict, Each

(* The first verdict that is not "ok" is "ok" exactly when all are. *)
LEMMA FirstOver ==
  ASSUME NEW S, NEW list \in Seq(S), NEW vs, DOMAIN vs = DOMAIN list
  PROVE  /\ First(vs) = "ok" <=> \A i \in DOMAIN list : vs[i] = "ok"
         /\ First(vs) = "ok" \/ \E i \in DOMAIN list : First(vs) = vs[i]
<1>1. Len(list) \in Nat /\ DOMAIN list = 1..Len(list)
  OBVIOUS
<1> QED BY <1>1, FirstIs

(* The sections, by what they look at.                                     *)
LEMMA SectionOks ==
  ASSUME module \in Modules
  PROVE  /\ SectionVerdict("imports") = "ok" <=> \A i \in DOMAIN module.imports : ImportVerdict(module.imports[i]) = "ok"
         /\ SectionVerdict("functypes") = "ok" <=> \A i \in DOMAIN module.funcs : TypeIndexVerdict(module.funcs[i]) = "ok"
         /\ SectionVerdict("tables") = "ok" <=> \A i \in DOMAIN module.tables : _check_table_limits(module.tables[i]) = "ok"
         /\ SectionVerdict("mems") = "ok" <=> \A i \in DOMAIN module.mems : _check_mem_limits(module.mems[i]) = "ok"
         /\ SectionVerdict("globals") = "ok" <=> \A i \in DOMAIN module.globals : GlobalVerdict(module.globals[i]) = "ok"
         /\ SectionVerdict("bodies") = "ok" <=> \A i \in DOMAIN module.funcs : BodyVerdict(module.funcs[i]) = "ok"
         /\ SectionVerdict("elems") = "ok" <=> \A i \in DOMAIN module.elems : ElemVerdict(module.elems[i]) = "ok"
         /\ SectionVerdict("datas") = "ok" <=> \A i \in DOMAIN module.datas : DataVerdict(module.datas[i]) = "ok"
         /\ SectionVerdict("exports") = "ok" <=> \A e \in DOMAIN module.exports : ExportVerdict(e) = "ok"
<1>1. SectionVerdict("imports") = "ok" <=> \A i \in DOMAIN module.imports : ImportVerdict(module.imports[i]) = "ok"
  <2> DEFINE vs == [i \in DOMAIN module.imports |-> ImportVerdict(module.imports[i])]
  <2>1. First(vs) = "ok" <=> \A i \in DOMAIN module.imports : vs[i] = "ok"
    <3>1. DOMAIN vs = DOMAIN module.imports
      OBVIOUS
    <3> HIDE DEF vs
    <3> QED BY <3>1, ModuleFacts, FirstOver
  <2> QED BY <2>1, EachSection
<1>2. SectionVerdict("functypes") = "ok" <=> \A i \in DOMAIN module.funcs : TypeIndexVerdict(module.funcs[i]) = "ok"
  <2> DEFINE vs == [i \in DOMAIN module.funcs |-> TypeIndexVerdict(module.funcs[i])]
  <2>1. First(vs) = "ok" <=> \A i \in DOMAIN module.funcs : vs[i] = "ok"
    <3>1. DOMAIN vs = DOMAIN module.funcs
      OBVIOUS
    <3> HIDE DEF vs
    <3> QED BY <3>1, ModuleFacts, FirstOver
  <2> QED BY <2>1, EachSection
<1>3. SectionVerdict("tables") = "ok" <=> \A i \in DOMAIN module.tables : _check_table_limits(module.tables[i]) = "ok"
  <2> DEFINE vs == [i \in DOMAIN module.tables |-> _check_table_limits(module.tables[i])]
  <2>1. First(vs) = "ok" <=> \A i \in DOMAIN module.tables : vs[i] = "ok"
    <3>1. DOMAIN vs = DOMAIN module.tables
      OBVIOUS
    <3> HIDE DEF vs
    <3> QED BY <3>1, ModuleFacts, FirstOver
  <2> QED BY <2>1, EachSection
<1>4. SectionVerdict("mems") = "ok" <=> \A i \in DOMAIN module.mems : _check_mem_limits(module.mems[i]) = "ok"
  <2> DEFINE vs == [i \in DOMAIN module.mems |-> _check_mem_limits(module.mems[i])]
  <2>1. First(vs) = "ok" <=> \A i \in DOMAIN module.mems : vs[i] = "ok"
    <3>1. DOMAIN vs = DOMAIN module.mems
      OBVIOUS
    <3> HIDE DEF vs
    <3> QED BY <3>1, ModuleFacts, FirstOver
  <2> QED BY <2>1, EachSection
<1>5. SectionVerdict("globals") = "ok" <=> \A i \in DOMAIN module.globals : GlobalVerdict(module.globals[i]) = "ok"
  <2> DEFINE vs == [i \in DOMAIN module.globals |-> GlobalVerdict(module.globals[i])]
  <2>1. First(vs) = "ok" <=> \A i \in DOMAIN module.globals : vs[i] = "ok"
    <3>1. DOMAIN vs = DOMAIN module.globals
      OBVIOUS
    <3> HIDE DEF vs
    <3> QED BY <3>1, ModuleFacts, FirstOver
  <2> QED BY <2>1, EachSection
<1>6. SectionVerdict("bodies") = "ok" <=> \A i \in DOMAIN module.funcs : BodyVerdict(module.funcs[i]) = "ok"
  <2> DEFINE vs == [i \in DOMAIN module.funcs |-> BodyVerdict(module.funcs[i])]
  <2>1. First(vs) = "ok" <=> \A i \in DOMAIN module.funcs : vs[i] = "ok"
    <3>1. DOMAIN vs = DOMAIN module.funcs
      OBVIOUS
    <3> HIDE DEF vs
    <3> QED BY <3>1, ModuleFacts, FirstOver
  <2> QED BY <2>1, EachSection
<1>7. SectionVerdict("elems") = "ok" <=> \A i \in DOMAIN module.elems : ElemVerdict(module.elems[i]) = "ok"
  <2> DEFINE vs == [i \in DOMAIN module.elems |-> ElemVerdict(module.elems[i])]
  <2>1. First(vs) = "ok" <=> \A i \in DOMAIN module.elems : vs[i] = "ok"
    <3>1. DOMAIN vs = DOMAIN module.elems
      OBVIOUS
    <3> HIDE DEF vs
    <3> QED BY <3>1, ModuleFacts, FirstOver
  <2> QED BY <2>1, EachSection
<1>8. SectionVerdict("datas") = "ok" <=> \A i \in DOMAIN module.datas : DataVerdict(module.datas[i]) = "ok"
  <2> DEFINE vs == [i \in DOMAIN module.datas |-> DataVerdict(module.datas[i])]
  <2>1. First(vs) = "ok" <=> \A i \in DOMAIN module.datas : vs[i] = "ok"
    <3>1. DOMAIN vs = DOMAIN module.datas
      OBVIOUS
    <3> HIDE DEF vs
    <3> QED BY <3>1, ModuleFacts, FirstOver
  <2> QED BY <2>1, EachSection
<1>9. SectionVerdict("exports") = "ok" <=> \A e \in DOMAIN module.exports : ExportVerdict(e) = "ok"
  <2> DEFINE vs == [e \in DOMAIN module.exports |-> ExportVerdict(e)]
  <2>1. First(vs) = "ok" <=> \A e \in DOMAIN module.exports : vs[e] = "ok"
    <3>1. DOMAIN vs = DOMAIN module.exports
      OBVIOUS
    <3> HIDE DEF vs
    <3> QED BY <3>1, ModuleFacts, FirstOver
  <2> QED BY <2>1, EachExport
<1> QED BY <1>1, <1>2, <1>3, <1>4, <1>5, <1>6, <1>7, <1>8, <1>9

(* A section's verdict is "ok", or that of one of its entries. *)
LEMMA SectionAnswers ==
  ASSUME module \in Modules
  PROVE  /\ SectionVerdict("imports") = "ok" \/ \E i \in DOMAIN module.imports : SectionVerdict("imports") = ImportVerdict(module.imports[i])
         /\ SectionVerdict("functypes") = "ok" \/ \E i \in DOMAIN module.funcs : SectionVerdict("functypes") = TypeIndexVerdict(module.funcs[i])
         /\ SectionVerdict("tables") = "ok" \/ \E i \in DOMAIN module.tables : SectionVerdict("tables") = _check_table_limits(module.tables[i])
         /\ SectionVerdict("mems") = "ok" \/ \E i \in DOMAIN module.mems : SectionVerdict("mems") = _check_mem_limits(module.mems[i])
         /\ SectionVerdict("globals") = "ok" \/ \E i \in DOMAIN module.globals : SectionVerdict("globals") = GlobalVerdict(module.globals[i])
         /\ SectionVerdict("bodies") = "ok" \/ \E i \in DOMAIN module.funcs : SectionVerdict("bodies") = BodyVerdict(module.funcs[i])
         /\ SectionVerdict("elems") = "ok" \/ \E i \in DOMAIN module.elems : SectionVerdict("elems") = ElemVerdict(module.elems[i])
         /\ SectionVerdict("datas") = "ok" \/ \E i \in DOMAIN module.datas : SectionVerdict("datas") = DataVerdict(module.datas[i])
         /\ SectionVerdict("exports") = "ok" \/ \E e \in DOMAIN module.exports : SectionVerdict("exports") = ExportVerdict(e)
<1>1. SectionVerdict("imports") = "ok" \/ \E i \in DOMAIN module.imports : SectionVerdict("imports") = ImportVerdict(module.imports[i])
  <2> DEFINE vs == [i \in DOMAIN module.imports |-> ImportVerdict(module.imports[i])]
  <2>1. First(vs) = "ok" \/ \E i \in DOMAIN module.imports : First(vs) = vs[i]
    <3>1. DOMAIN vs = DOMAIN module.imports
      OBVIOUS
    <3> HIDE DEF vs
    <3> QED BY <3>1, ModuleFacts, FirstOver
  <2> QED BY <2>1, EachSection
<1>2. SectionVerdict("functypes") = "ok" \/ \E i \in DOMAIN module.funcs : SectionVerdict("functypes") = TypeIndexVerdict(module.funcs[i])
  <2> DEFINE vs == [i \in DOMAIN module.funcs |-> TypeIndexVerdict(module.funcs[i])]
  <2>1. First(vs) = "ok" \/ \E i \in DOMAIN module.funcs : First(vs) = vs[i]
    <3>1. DOMAIN vs = DOMAIN module.funcs
      OBVIOUS
    <3> HIDE DEF vs
    <3> QED BY <3>1, ModuleFacts, FirstOver
  <2> QED BY <2>1, EachSection
<1>3. SectionVerdict("tables") = "ok" \/ \E i \in DOMAIN module.tables : SectionVerdict("tables") = _check_table_limits(module.tables[i])
  <2> DEFINE vs == [i \in DOMAIN module.tables |-> _check_table_limits(module.tables[i])]
  <2>1. First(vs) = "ok" \/ \E i \in DOMAIN module.tables : First(vs) = vs[i]
    <3>1. DOMAIN vs = DOMAIN module.tables
      OBVIOUS
    <3> HIDE DEF vs
    <3> QED BY <3>1, ModuleFacts, FirstOver
  <2> QED BY <2>1, EachSection
<1>4. SectionVerdict("mems") = "ok" \/ \E i \in DOMAIN module.mems : SectionVerdict("mems") = _check_mem_limits(module.mems[i])
  <2> DEFINE vs == [i \in DOMAIN module.mems |-> _check_mem_limits(module.mems[i])]
  <2>1. First(vs) = "ok" \/ \E i \in DOMAIN module.mems : First(vs) = vs[i]
    <3>1. DOMAIN vs = DOMAIN module.mems
      OBVIOUS
    <3> HIDE DEF vs
    <3> QED BY <3>1, ModuleFacts, FirstOver
  <2> QED BY <2>1, EachSection
<1>5. SectionVerdict("globals") = "ok" \/ \E i \in DOMAIN module.globals : SectionVerdict("globals") = GlobalVerdict(module.globals[i])
  <2> DEFINE vs == [i \in DOMAIN module.globals |-> GlobalVerdict(module.globals[i])]
  <2>1. First(vs) = "ok" \/ \E i \in DOMAIN module.globals : First(vs) = vs[i]
    <3>1. DOMAIN vs = DOMAIN module.globals
      OBVIOUS
    <3> HIDE DEF vs
    <3> QED BY <3>1, ModuleFacts, FirstOver
  <2> QED BY <2>1, EachSection
<1>6. SectionVerdict("bodies") = "ok" \/ \E i \in DOMAIN module.funcs : SectionVerdict("bodies") = BodyVerdict(module.funcs[i])
  <2> DEFINE vs == [i \in DOMAIN module.funcs |-> BodyVerdict(module.funcs[i])]
  <2>1. First(vs) = "ok" \/ \E i \in DOMAIN module.funcs : First(vs) = vs[i]
    <3>1. DOMAIN vs = DOMAIN module.funcs
      OBVIOUS
    <3> HIDE DEF vs
    <3> QED BY <3>1, ModuleFacts, FirstOver
  <2> QED BY <2>1, EachSection
<1>7. SectionVerdict("elems") = "ok" \/ \E i \in DOMAIN module.elems : SectionVerdict("elems") = ElemVerdict(module.elems[i])
  <2> DEFINE vs == [i \in DOMAIN module.elems |-> ElemVerdict(module.elems[i])]
  <2>1. First(vs) = "ok" \/ \E i \in DOMAIN module.elems : First(vs) = vs[i]
    <3>1. DOMAIN vs = DOMAIN module.elems
      OBVIOUS
    <3> HIDE DEF vs
    <3> QED BY <3>1, ModuleFacts, FirstOver
  <2> QED BY <2>1, EachSection
<1>8. SectionVerdict("datas") = "ok" \/ \E i \in DOMAIN module.datas : SectionVerdict("datas") = DataVerdict(module.datas[i])
  <2> DEFINE vs == [i \in DOMAIN module.datas |-> DataVerdict(module.datas[i])]
  <2>1. First(vs) = "ok" \/ \E i \in DOMAIN module.datas : First(vs) = vs[i]
    <3>1. DOMAIN vs = DOMAIN module.datas
      OBVIOUS
    <3> HIDE DEF vs
    <3> QED BY <3>1, ModuleFacts, FirstOver
  <2> QED BY <2>1, EachSection
<1>9. SectionVerdict("exports") = "ok" \/ \E e \in DOMAIN module.exports : SectionVerdict("exports") = ExportVerdict(e)
  <2> DEFINE vs == [e \in DOMAIN module.exports |-> ExportVerdict(e)]
  <2>1. First(vs) = "ok" \/ \E e \in DOMAIN module.exports : First(vs) = vs[e]
    <3>1. DOMAIN vs = DOMAIN module.exports
      OBVIOUS
    <3> HIDE DEF vs
    <3> QED BY <3>1, ModuleFacts, FirstOver
  <2> QED BY <2>1, EachExport
<1> QED BY <1>1, <1>2, <1>3, <1>4, <1>5, <1>6, <1>7, <1>8, <1>9
(* What an import's descriptor is, by kind. *)
LEMMA ImportIs ==
  ASSUME NEW im \in Imports
  PROVE  /\ im.kind \in {"func", "table", "memory", "global"}
         /\ im.kind = "func" => im.desc \in Nat
         /\ im.kind = "global" => im.desc \in GlobalTypes
         /\ im.kind \in {"table", "memory"} => im.desc \in Limits
BY DEF Imports

(* The type index of each function, imported or defined.                   *)
LEMMA TypeIndices ==
  ASSUME module \in Modules
  PROVE  /\ \A f \in 1..n_imported("func") :
              typeidxs[f] = Imported("func")[f].desc /\ typeidxs[f] \in Nat
         /\ \A k \in 1..Len(module.funcs) :
              /\ typeidxs[n_imported("func") + k] = module.funcs[k].typeidx
              /\ module.funcs[k].typeidx \in Nat
<1> DEFINE a == [i \in DOMAIN Imported("func") |-> Imported("func")[i].desc]
           b == [i \in DOMAIN module.funcs |-> module.funcs[i].typeidx]
           n == n_imported("func")
<1>1. /\ n \in Nat /\ Imported("func") \in Seq(Imports) /\ DOMAIN Imported("func") = 1..n
      /\ \A i \in 1..n : Imported("func")[i].kind = "func"
  BY PlacesFacts
<1>2. module.funcs \in Seq(Funcs) /\ DOMAIN module.funcs = 1..Len(module.funcs)
      /\ Len(module.funcs) \in Nat
  BY ModuleFacts
<1>3. \A i \in 1..n : Imported("func")[i].desc \in Nat
  BY <1>1, ImportIs
<1>4. ASSUME NEW k \in 1..Len(module.funcs) PROVE module.funcs[k].typeidx \in Nat
  <2>1. module.funcs[k] \in Funcs
    BY <1>2
  <2> QED BY <2>1 DEF Funcs
<1>5. a \in Seq(Nat) /\ Len(a) = n
  <2>1. a \in [1..n -> Nat]
    BY <1>1, <1>3
  <2> HIDE DEF a, n
  <2> QED BY <1>1, <2>1
<1>6. b \in Seq(Nat) /\ Len(b) = Len(module.funcs)
  <2>1. b \in [1..Len(module.funcs) -> Nat]
    BY <1>2, <1>4
  <2> HIDE DEF b
  <2> QED BY <1>2, <2>1
<1>7. \A f \in 1..n : a[f] = Imported("func")[f].desc
  BY <1>1
<1>8. \A k \in 1..Len(module.funcs) : b[k] = module.funcs[k].typeidx
  BY <1>2
<1>9. typeidxs = a \o b
  BY DEF typeidxs
<1> HIDE DEF a, b, n
<1>10. /\ \A f \in 1..n : typeidxs[f] = a[f]
       /\ \A k \in 1..Len(module.funcs) : typeidxs[n + k] = b[k]
  <2>1. DOMAIN a = 1..n
    BY <1>5
  <2> QED BY <1>5, <1>6, <1>9, <2>1, ConcatFacts, SMTT(60)
<1> QED BY <1>3, <1>4, <1>7, <1>8, <1>10 DEF n

\* A function is an imported or a defined one.
LEMMA Split ==
  ASSUME NEW m \in Nat, NEW n \in Nat, NEW f \in 1..(m + n)
  PROVE  f \in 1..m \/ \E k \in 1..n : f = m + k
<1>1. f \in 1..m \/ (f - m \in 1..n /\ f = m + (f - m))
  OBVIOUS
<1> QED BY <1>1

(* A check answers "ok" exactly when its condition holds. *)
LEMMA RequireIs ==
  ASSUME NEW c \in BOOLEAN
  PROVE  Require(c) \in {"ok", "invalid"} /\ (Require(c) = "ok" <=> c)
BY DEF Require

(* Once imports and functions were found valid, every type index names a   *)
(* type.                                                                   *)
LEMMA TypeIndicesInRange ==
  ASSUME module \in Modules, SectionVerdict("imports") = "ok",
         SectionVerdict("functypes") = "ok"
  PROVE  /\ \A f \in 1..n_funcs : typeidxs[f] \in Nat /\ typeidxs[f] < Len(module.types)
         /\ \A k \in DOMAIN module.funcs : module.funcs[k].typeidx < Len(module.types)
<1>1. /\ n_imported("func") \in Nat /\ Len(module.funcs) \in Nat
      /\ n_funcs = n_imported("func") + Len(module.funcs)
      /\ DOMAIN module.funcs = 1..Len(module.funcs)
  BY Sizes, ModuleFacts, SMTT(60)
<1>2. ASSUME NEW f \in 1..n_imported("func")
      PROVE  typeidxs[f] \in Nat /\ typeidxs[f] < Len(module.types)
  <2>1. PICK i \in DOMAIN module.imports :
          Imported("func")[f] = module.imports[i] /\ module.imports[i].kind = "func"
    BY PlacesFacts
  <2>2. ImportVerdict(module.imports[i]) = "ok"
    BY SectionOks
  <2>3. module.imports[i].desc < Len(module.types)
    BY <2>1, <2>2 DEF ImportVerdict, Require
  <2> QED BY <2>1, <2>3, TypeIndices
<1>3. ASSUME NEW k \in DOMAIN module.funcs
      PROVE  module.funcs[k].typeidx < Len(module.types)
  <2>1. TypeIndexVerdict(module.funcs[k]) = "ok"
    BY SectionOks
  <2> QED BY <2>1 DEF TypeIndexVerdict, Require
<1>4. ASSUME NEW k \in 1..Len(module.funcs)
      PROVE  typeidxs[n_imported("func") + k] \in Nat
             /\ typeidxs[n_imported("func") + k] < Len(module.types)
  BY <1>1, <1>3, TypeIndices
<1>5. ASSUME NEW f \in 1..n_funcs
      PROVE  typeidxs[f] \in Nat /\ typeidxs[f] < Len(module.types)
  <2>1. f \in 1..n_imported("func") \/ \E k \in 1..Len(module.funcs) : f = n_imported("func") + k
    BY <1>1, Split
  <2> QED BY <1>2, <1>4, <2>1
<1> QED BY <1>3, <1>5
(* Two checks in a row. *)
LEMMA FirstOfTwo ==
  ASSUME NEW v, NEW w
  PROVE  /\ First(<<v, w>>) = "ok" <=> v = "ok" /\ w = "ok"
         /\ First(<<v, w>>) \in {"ok", v, w}
<1>1. DOMAIN <<v, w>> = 1..2 /\ <<v, w>>[1] = v /\ <<v, w>>[2] = w
  OBVIOUS
<1>2. PICK vs : vs = <<v, w>>
  OBVIOUS
<1>3. \A i \in 1..2 : i = 1 \/ i = 2
  OBVIOUS
<1>4. /\ First(vs) = "ok" <=> \A i \in 1..2 : vs[i] = "ok"
      /\ First(vs) = "ok" \/ \E i \in 1..2 : First(vs) = vs[i]
  BY <1>1, <1>2, FirstIs
<1> QED BY <1>1, <1>2, <1>3, <1>4

(* Three checks in a row. *)
LEMMA FirstOfThree ==
  ASSUME NEW u, NEW v, NEW w
  PROVE  /\ First(<<u, v, w>>) = "ok" <=> u = "ok" /\ v = "ok" /\ w = "ok"
         /\ First(<<u, v, w>>) \in {"ok", u, v, w}
<1>1. DOMAIN <<u, v, w>> = 1..3 /\ <<u, v, w>>[1] = u /\ <<u, v, w>>[2] = v
      /\ <<u, v, w>>[3] = w
  OBVIOUS
<1>2. PICK vs : vs = <<u, v, w>>
  OBVIOUS
<1>3. \A i \in 1..3 : i = 1 \/ i = 2 \/ i = 3
  OBVIOUS
<1>4. /\ First(vs) = "ok" <=> \A i \in 1..3 : vs[i] = "ok"
      /\ First(vs) = "ok" \/ \E i \in 1..3 : First(vs) = vs[i]
  BY <1>1, <1>2, FirstIs
<1> QED BY <1>1, <1>2, <1>3, <1>4

(* Reading a list at an index raises exactly when the index is past the    *)
(* end.                                                                    *)
LEMMA ExistsIs ==
  ASSUME NEW list, NEW i
  PROVE  Exists(list, i) \in {"ok", "IndexError"} /\ (Exists(list, i) = "ok" <=> i < Len(list))
BY DEF Exists

(* A constant expression found valid.                                      *)
LEMMA ConstIs ==
  ASSUME module \in Modules, NEW expr \in ConstExprs, NEW expected
  PROVE  /\ _validate_const_expr(expr, expected) \in {"ok", "invalid"}
         /\ _validate_const_expr(expr, expected) = "ok" =>
              /\ Len(expr) = 1
              /\ \/ expr[1].op = "const" /\ expr[1].type = expected
                 \/ /\ expr[1].op = "global.get" /\ expr[1].imm \in Nat
                    /\ expr[1].imm < n_imported("global")
                    /\ global_type(expr[1].imm) = [valtype |-> expected, mutable |-> FALSE]
<1>1. _validate_const_expr(expr, expected) \in {"ok", "invalid"}
  BY DEF _validate_const_expr, Require
<1>2. ASSUME _validate_const_expr(expr, expected) = "ok"
      PROVE  /\ Len(expr) = 1
             /\ \/ expr[1].op = "const" /\ expr[1].type = expected
                \/ /\ expr[1].op = "global.get"
                   /\ expr[1].imm < Len(Imported("global"))
                   /\ global_type(expr[1].imm) = [valtype |-> expected, mutable |-> FALSE]
  BY <1>2 DEF _validate_const_expr, Require
<1>3. ASSUME Len(expr) = 1, expr[1].op = "global.get" PROVE expr[1].imm \in Nat
  <2>1. expr[1] \in [op : {"const"}, type : Types] \cup [op : {"global.get"}, imm : Nat]
    BY <1>3 DEF ConstExprs
  <2> QED BY <1>3, <2>1
<1>4. Len(Imported("global")) = n_imported("global")
  BY PlacesFacts
<1> QED BY <1>1, <1>2, <1>3, <1>4

(* What an instruction's immediate is, by opcode. *)
LEMMA InstructionIs ==
  ASSUME NEW ins \in Instructions
  PROVE  /\ ins.op \in {"block", "call", "call_indirect", "local", "global.get", "global.set",
                        "store", "memory"}
         /\ ins.op \in {"block", "call", "call_indirect", "local", "global.get", "global.set"}
              => ins.imm \in Nat
         /\ ins.op = "store" => ins.align \in Nat
BY DEF Instructions

(* An instruction's index is in range or found not to be.                  *)
LEMMA IndexVerdictIs ==
  ASSUME module \in Modules, NEW f, NEW ins \in Instructions,
         SectionVerdict("imports") = "ok", SectionVerdict("functypes") = "ok"
  PROVE  IndexVerdict(f, ins) \in {"ok", "invalid"}
<1>1. CASE ins.op = "call"
  <2>1. ins.imm \in Nat /\ n_funcs \in Nat
    BY <1>1, InstructionIs, Sizes
  <2>2. CASE ins.imm >= n_funcs
    BY <1>1, <2>2 DEF IndexVerdict
  <2>3. CASE ~(ins.imm >= n_funcs)
    <3>1. ins.imm + 1 \in 1..n_funcs
      BY <2>1, <2>3
    <3>2. typeidxs[ins.imm + 1] < Len(module.types)
      BY <3>1, TypeIndicesInRange
    <3> QED BY <1>1, <2>3, <3>2, ExistsIs DEF IndexVerdict
  <2> QED BY <2>2, <2>3
<1>2. CASE ins.op = "call_indirect"
  <2>1. IndexVerdict(f, ins) = First(<<Uses(n_tables), Require(ins.imm < Len(module.types))>>)
    BY <1>2 DEF IndexVerdict
  <2>2. Uses(n_tables) \in {"ok", "invalid"} /\ Require(ins.imm < Len(module.types)) \in {"ok", "invalid"}
    BY DEF Uses, Require
  <2> QED BY <2>1, <2>2, FirstOfTwo
<1>3. CASE ins.op = "store"
  <2>1. IndexVerdict(f, ins) = First(<<Uses(n_mems), Require(ins.align <= 2)>>)
    BY <1>3 DEF IndexVerdict
  <2>2. Uses(n_mems) \in {"ok", "invalid"} /\ Require(ins.align <= 2) \in {"ok", "invalid"}
    BY DEF Uses, Require
  <2> QED BY <2>1, <2>2, FirstOfTwo
<1>4. CASE ins.op \in {"block", "local", "global.get", "global.set", "memory"}
  BY <1>4 DEF IndexVerdict, Require, Uses, SetVerdict
<1> QED BY <1>1, <1>2, <1>3, <1>4, InstructionIs

(* A body, by its instructions.                                            *)
LEMMA BodyVerdictIs ==
  ASSUME module \in Modules, NEW f \in Funcs
  PROVE  /\ BodyVerdict(f) = "ok" <=>
              /\ f.typeidx < Len(module.types)
              /\ \A i \in DOMAIN f.body : IndexVerdict(f, f.body[i]) = "ok"
         /\ \/ BodyVerdict(f) \in {"ok", Exists(module.types, f.typeidx)}
            \/ \E i \in DOMAIN f.body : BodyVerdict(f) = IndexVerdict(f, f.body[i])
<1> DEFINE vs == [i \in DOMAIN f.body |-> IndexVerdict(f, f.body[i])]
<1>1. f.body \in Seq(Instructions)
  BY DEF Funcs
<1>2. DOMAIN vs = DOMAIN f.body
      /\ \A i \in DOMAIN f.body : vs[i] = IndexVerdict(f, f.body[i])
  OBVIOUS
<1>3. BodyVerdict(f) = First(<<Exists(module.types, f.typeidx), First(vs)>>)
  BY DEF BodyVerdict
<1> HIDE DEF vs
<1>4. /\ First(vs) = "ok" <=> \A i \in DOMAIN f.body : vs[i] = "ok"
      /\ First(vs) = "ok" \/ \E i \in DOMAIN f.body : First(vs) = vs[i]
  BY <1>1, <1>2, FirstOver
<1> QED BY <1>2, <1>3, <1>4, ExistsIs, FirstOfTwo
(* A segment found valid has a table, or a memory, an offset, and functions *)
(* of the module.                                                          *)
LEMMA ElemVerdictIs ==
  ASSUME module \in Modules, NEW seg \in Segments
  PROVE  /\ ElemVerdict(seg) \in {"ok", "invalid"}
         /\ ElemVerdict(seg) = "ok" =>
              /\ n_tables > 0 /\ _validate_const_expr(seg.offset, "i32") = "ok"
              /\ \A i \in DOMAIN seg.funcidxs : seg.funcidxs[i] < n_funcs
<1> DEFINE vs == [i \in DOMAIN seg.funcidxs |-> Require(seg.funcidxs[i] < n_funcs)]
<1>1. seg.funcidxs \in Seq(Nat) /\ seg.offset \in ConstExprs
  BY DEF Segments
<1>2. DOMAIN vs = DOMAIN seg.funcidxs
      /\ \A i \in DOMAIN seg.funcidxs : /\ vs[i] \in {"ok", "invalid"}
                                        /\ vs[i] = "ok" => seg.funcidxs[i] < n_funcs
  BY DEF Require
<1>3. ElemVerdict(seg)
        = First(<<Uses(n_tables), _validate_const_expr(seg.offset, "i32"), First(vs)>>)
  BY DEF ElemVerdict
<1> HIDE DEF vs
<1>4. /\ First(vs) = "ok" <=> \A i \in DOMAIN seg.funcidxs : vs[i] = "ok"
      /\ First(vs) = "ok" \/ \E i \in DOMAIN seg.funcidxs : First(vs) = vs[i]
  BY <1>1, <1>2, FirstOver
<1>5. First(vs) \in {"ok", "invalid"}
      /\ (First(vs) = "ok" => \A i \in DOMAIN seg.funcidxs : seg.funcidxs[i] < n_funcs)
  BY <1>2, <1>4
<1>6. Uses(n_tables) \in {"ok", "invalid"} /\ (Uses(n_tables) = "ok" => n_tables > 0)
  BY DEF Uses, Require
<1>7. _validate_const_expr(seg.offset, "i32") \in {"ok", "invalid"}
  BY <1>1, ConstIs
<1> QED BY <1>3, <1>5, <1>6, <1>7, FirstOfThree

(* A data segment is valid or not, and valid only where there is a memory. *)
LEMMA DataVerdictIs ==
  ASSUME module \in Modules, NEW seg \in Segments
  PROVE  /\ DataVerdict(seg) \in {"ok", "invalid"}
         /\ DataVerdict(seg) = "ok" =>
              n_mems > 0 /\ _validate_const_expr(seg.offset, "i32") = "ok"
<1>1. Uses(n_mems) \in {"ok", "invalid"} /\ (Uses(n_mems) = "ok" => n_mems > 0)
  BY DEF Uses, Require
<1>2. _validate_const_expr(seg.offset, "i32") \in {"ok", "invalid"}
  BY ConstIs DEF Segments
<1> QED BY <1>1, <1>2, FirstOfTwo DEF DataVerdict

(* The start function is one of the module, takes nothing and gives        *)
(* nothing.                                                                *)
LEMMA StartVerdictIs ==
  ASSUME module \in Modules, SectionVerdict("imports") = "ok",
         SectionVerdict("functypes") = "ok"
  PROVE  /\ StartVerdict \in {"ok", "invalid"}
         /\ StartVerdict = "ok" /\ module.start # NoStart =>
              /\ module.start \in Nat /\ module.start < n_funcs
              /\ Nullary(func_type(module.start))
<1>1. CASE module.start = NoStart
  BY <1>1 DEF StartVerdict
<1>2. CASE module.start # NoStart
  <2>1. module.start \in Nat /\ n_funcs \in Nat
    BY <1>2, ModuleFacts, Sizes
  <2>2. CASE module.start >= n_funcs
    BY <1>2, <2>2 DEF StartVerdict
  <2>3. CASE ~(module.start >= n_funcs)
    <3>1. module.start + 1 \in 1..n_funcs /\ module.start < n_funcs
      BY <2>1, <2>3
    <3>2. Exists(module.types, typeidxs[module.start + 1]) = "ok"
      BY <3>1, TypeIndicesInRange, ExistsIs
    <3>3. /\ Require(Nullary(func_type(module.start))) \in {"ok", "invalid"}
          /\ Require(Nullary(func_type(module.start))) = "ok" => Nullary(func_type(module.start))
      BY DEF Require
    <3>4. StartVerdict = First(<<Exists(module.types, typeidxs[module.start + 1]),
                                 Require(Nullary(func_type(module.start)))>>)
      BY <1>2, <2>3 DEF StartVerdict
    <3> QED BY <2>1, <3>1, <3>2, <3>3, <3>4, FirstOfTwo
  <2> QED BY <2>2, <2>3
<1> QED BY <1>1, <1>2

----------------------------------------------------------------------------
(* The validator itself reads no list past its end.                        *)
LEMMA SectionsJudge ==
  ASSUME Inv, NEW k \in 1..10, k = at
  PROVE  SectionVerdict(Sections[k]) \in {"ok", "invalid"}
<1>1. module \in Modules /\ \A j \in 1..10 : j < k => SectionVerdict(Sections[j]) = "ok"
  BY DEF Inv, Typed, Judged, SectionOk
<1>2. ASSUME k > 2
      PROVE  SectionVerdict("imports") = "ok" /\ SectionVerdict("functypes") = "ok"
  BY <1>1, <1>2, SectionsAre
<1>3. SectionVerdict("imports") \in {"ok", "invalid"}
  BY <1>1, SectionAnswers DEF ImportVerdict, Require, _check_table_limits, _check_mem_limits
<1>4. SectionVerdict("functypes") \in {"ok", "invalid"}
  BY <1>1, SectionAnswers DEF TypeIndexVerdict, Require
<1>5. SectionVerdict("tables") \in {"ok", "invalid"}
  BY <1>1, SectionAnswers DEF _check_table_limits, Require
<1>6. SectionVerdict("mems") \in {"ok", "invalid"}
  BY <1>1, SectionAnswers DEF _check_mem_limits, Require
<1>7. SectionVerdict("globals") \in {"ok", "invalid"}
  BY <1>1, SectionAnswers DEF GlobalVerdict, _validate_const_expr, Require
<1>8. SectionVerdict("exports") \in {"ok", "invalid"}
  BY <1>1, SectionAnswers DEF ExportVerdict, Require
<1>9. ASSUME k > 2 PROVE SectionVerdict("bodies") \in {"ok", "invalid"}
  <2>1. CASE SectionVerdict("bodies") = "ok"
    BY <2>1
  <2>2. ASSUME NEW i \in DOMAIN module.funcs, SectionVerdict("bodies") = BodyVerdict(module.funcs[i])
        PROVE  BodyVerdict(module.funcs[i]) \in {"ok", "invalid"}
    <3>1. module.funcs[i] \in Funcs /\ module.funcs[i].body \in Seq(Instructions)
      <4>1. module.funcs[i] \in Funcs
        BY <1>1, ModuleFacts
      <4> QED BY <4>1 DEF Funcs
    <3>2. Exists(module.types, module.funcs[i].typeidx) = "ok"
      BY <1>1, <1>2, <1>9, TypeIndicesInRange, ExistsIs
    <3>3. ASSUME NEW j \in DOMAIN module.funcs[i].body
          PROVE  IndexVerdict(module.funcs[i], module.funcs[i].body[j]) \in {"ok", "invalid"}
      <4>1. module.funcs[i].body[j] \in Instructions
        BY <3>1
      <4> QED BY <1>1, <1>2, <1>9, <4>1, IndexVerdictIs
    <3> QED BY <1>1, <3>1, <3>2, <3>3, BodyVerdictIs
  <2> QED BY <1>1, <2>1, <2>2, SectionAnswers
<1>10. SectionVerdict("elems") \in {"ok", "invalid"}
  <2>1. \A i \in DOMAIN module.elems : module.elems[i] \in Segments
    BY <1>1, ModuleFacts
  <2> QED BY <1>1, <2>1, SectionAnswers, ElemVerdictIs
<1>11. SectionVerdict("datas") \in {"ok", "invalid"}
  <2>1. \A i \in DOMAIN module.datas : module.datas[i] \in Segments
    BY <1>1, ModuleFacts
  <2> QED BY <1>1, <2>1, SectionAnswers, DataVerdictIs
<1>12. ASSUME k > 2 PROVE SectionVerdict("start") \in {"ok", "invalid"}
  BY <1>1, <1>2, <1>12, EachSection, StartVerdictIs
<1> QED
  <2>1. k \in {1, 2, 3, 4, 5, 6, 7, 8, 9, 10}
    OBVIOUS
  <2> QED BY <1>3, <1>4, <1>5, <1>6, <1>7, <1>8, <1>9, <1>10, <1>11, <1>12, <2>1, SectionsAre

----------------------------------------------------------------------------
(* What the module says stays as long as the module does.                  *)
LEMMA SameModule ==
  ASSUME module' = module
  PROVE  /\ \A kind : Places(kind)' = Places(kind) /\ n_imported(kind)' = n_imported(kind)
                      /\ Imported(kind)' = Imported(kind)
         /\ n_funcs' = n_funcs /\ n_tables' = n_tables /\ n_mems' = n_mems
         /\ n_globals' = n_globals /\ typeidxs' = typeidxs
         /\ \A f : func_type(f)' = func_type(f) /\ global_type(f)' = global_type(f)
<1>1. \A kind : Places(kind)' = Places(kind)
  BY DEF Places
<1>2. \A kind : n_imported(kind)' = n_imported(kind)
  BY <1>1 DEF n_imported
<1>3. \A kind : Imported(kind)' = Imported(kind)
  BY <1>1 DEF Imported, Of
<1>4. n_funcs' = n_funcs /\ n_tables' = n_tables /\ n_mems' = n_mems /\ n_globals' = n_globals
  BY <1>3 DEF n_funcs, n_tables, n_mems, n_globals
<1>5. typeidxs' = typeidxs
  BY <1>3 DEF typeidxs
<1>6. \A f : func_type(f)' = func_type(f) /\ global_type(f)' = global_type(f)
  BY <1>3, <1>5 DEF func_type, global_type, At
<1> QED BY <1>1, <1>2, <1>3, <1>4, <1>5, <1>6

(* While the module is the same, so are the verdicts on its sections. *)
LEMMA SameVerdicts ==
  ASSUME module' = module
  PROVE  \A k \in 1..10 : SectionOk(k)' <=> SectionOk(k)
<1> USE SameModule
<1>1. ASSUME NEW expr, NEW t
      PROVE  _validate_const_expr(expr, t)' = _validate_const_expr(expr, t)
  <2>1. Imported("global")' = Imported("global")
    OBVIOUS
  <2>2. global_type(expr[1].imm)' = global_type(expr[1].imm)
    OBVIOUS
  <2> QED BY ONLY <2>1, <2>2, Zenon DEF _validate_const_expr
<1>2. \A im : ImportVerdict(im)' = ImportVerdict(im)
  BY DEF ImportVerdict
<1>3. \A f, ins : IndexVerdict(f, ins)' = IndexVerdict(f, ins)
  BY DEF IndexVerdict, SetVerdict
<1>4. \A f : BodyVerdict(f)' = BodyVerdict(f)
  BY <1>3 DEF BodyVerdict
<1>5. \A seg : ElemVerdict(seg)' = ElemVerdict(seg) /\ DataVerdict(seg)' = DataVerdict(seg)
  BY <1>1 DEF ElemVerdict, DataVerdict
<1>6. StartVerdict' = StartVerdict
  BY DEF StartVerdict
<1>7. \A e : ExportVerdict(e)' = ExportVerdict(e)
  BY DEF ExportVerdict, Size
<1>8. \A f : TypeIndexVerdict(f)' = TypeIndexVerdict(f) /\ GlobalVerdict(f)' = GlobalVerdict(f)
  BY <1>1 DEF TypeIndexVerdict, GlobalVerdict
<1>9. \A s : SectionVerdict(s)' = SectionVerdict(s)
  BY <1>2, <1>4, <1>5, <1>6, <1>7, <1>8 DEF SectionVerdict, Each
<1> QED BY <1>9 DEF SectionOk, Sections

(* A stage is a place in instantiate.                                      *)
LEMMA StageAt ==
  ASSUME at \in 1..18
  PROVE  /\ InStage("imports") => at = 11
         /\ InStage("globals") => at = 12
         /\ InStage("funcs") => at = 13
         /\ InStage("exports") => at = 14
         /\ InStage("elems") => at = 15
         /\ InStage("datas") => at = 16
         /\ InStage("start") => at = 17
         /\ InStage("calls") => at = 18
<1>1. ASSUME NEW stage, InStage(stage)
      PROVE  \E k \in {1, 2, 3, 4, 5, 6, 7, 8} : at = 10 + k /\ Stages[k] = stage
  <2>1. at > 10 /\ Stages[at - 10] = stage
    BY <1>1, SectionsAre DEF InStage
  <2>2. at - 10 \in {1, 2, 3, 4, 5, 6, 7, 8} /\ at = 10 + (at - 10)
    BY <2>1
  <2> QED BY <2>1, <2>2
<1> QED BY <1>1, SectionsAre

(* Once instantiate is under way every section has been found valid.       *)
LEMMA Accepted ==
  ASSUME Inv, at > 10
  PROVE  /\ module \in Modules
         /\ \A k \in 1..10 : SectionOk(k)
         /\ \A s \in {"imports", "functypes", "tables", "mems", "globals", "bodies", "elems",
                      "datas", "start", "exports"} : SectionVerdict(s) = "ok"
<1>1. module \in Modules /\ \A k \in 1..10 : SectionOk(k)
  BY DEF Inv, Judged, Typed
<1>2. \A k \in {1, 2, 3, 4, 5, 6, 7, 8, 9, 10} : SectionVerdict(Sections[k]) = "ok"
  BY <1>1 DEF SectionOk
<1> QED BY <1>1, <1>2, SectionsAre

(* The verdicts stand as long as the module does.                          *)
LEMMA StillJudged ==
  ASSUME Inv, at > 10, module' = module, outcome' # "invalid"
  PROVE  Judged'
BY Accepted, SameVerdicts DEF Judged

(* An end leaves everything but the outcome.                               *)
LEMMA EndsWell ==
  ASSUME Inv, NEW how \in {"invalid", "incompatible"}, Ends(how),
         how = "invalid" => \E k \in 1..10 : ~SectionOk(k)
  PROVE  Inv'
<1>1. /\ module' = module /\ at' = at /\ spaces' = spaces /\ started' = started
      /\ outcome' = how
  BY DEF Ends
<1>2. Typed'
  BY <1>1 DEF Inv, Typed
<1>3. Judged'
  BY <1>1, SameVerdicts DEF Inv, Judged
<1>4. Filling'
  BY <1>1, SameModule DEF Inv, Filling, Declares
<1>5. GlobalsKeepTheirWord' /\ StartIsNullary'
  BY <1>1 DEF Inv, GlobalsKeepTheirWord, StartIsNullary
<1> QED BY <1>2, <1>3, <1>4, <1>5 DEF Inv

(* A section found valid is one more to rely on; any other verdict ends    *)
(* the run.                                                                *)
LEMMA ValidateStep ==
  ASSUME Inv, Validate
  PROVE  Inv'
<1>1. at \in 1..10
  BY SectionsAre, SMTT(60) DEF Inv, Typed, Validate
<1>2. PICK k \in 1..10 : k = at
  BY <1>1
<1>3. SectionVerdict(Sections[k]) \in {"ok", "invalid"}
  BY <1>2, SectionsJudge
<1>4. CASE SectionVerdict(Sections[k]) = "ok"
  <2>1. /\ at' = at + 1 /\ module' = module /\ spaces' = spaces /\ started' = started
        /\ outcome' = outcome /\ outcome = "running"
    BY <1>2, <1>4 DEF Validate
  <2>2. Typed'
    BY <1>1, <2>1 DEF Inv, Typed
  <2>3. \A j \in 1..10 : j < at' => SectionOk(j)
    <3>1. \A j \in 1..10 : j < at => SectionOk(j)
      BY DEF Inv, Judged
    <3>2. SectionOk(k)
      BY <1>4 DEF SectionOk
    <3>3. \A j \in 1..10 : j < at' => j < at \/ j = k
      BY <1>1, <1>2, <2>1
    <3> QED BY <3>1, <3>2, <3>3
  <2>4. Judged'
    BY <2>1, <2>3, SameVerdicts DEF Judged
  <2>5. Filling'
    BY <1>1, <2>1 DEF Filling
  <2>6. GlobalsKeepTheirWord' /\ StartIsNullary'
    BY <2>1 DEF Inv, GlobalsKeepTheirWord, StartIsNullary
  <2> QED BY <2>2, <2>4, <2>5, <2>6 DEF Inv
<1>5. CASE SectionVerdict(Sections[k]) = "invalid"
  <2>1. Ends("invalid")
    BY <1>2, <1>5 DEF Validate
  <2>2. ~SectionOk(k)
    BY <1>5 DEF SectionOk
  <2> QED BY <2>1, <2>2, EndsWell
<1> QED BY <1>3, <1>4, <1>5

----------------------------------------------------------------------------
(* The declared types, by index.                                           *)
LEMMA FuncTypeOf ==
  ASSUME module \in Modules
  PROVE  /\ \A f \in 1..n_imported("func") :
              func_type(f - 1) = At(module.types, Imported("func")[f].desc)
         /\ \A k \in 1..Len(module.funcs) :
              func_type(n_imported("func") + k - 1) = At(module.types, module.funcs[k].typeidx)
<1>1. n_imported("func") \in Nat /\ Len(module.funcs) \in Nat
  BY Sizes
<1>2. \A f \in 1..n_imported("func") : (f - 1) + 1 = f
  BY <1>1
<1>3. \A k \in 1..Len(module.funcs) :
        (n_imported("func") + k - 1) + 1 = n_imported("func") + k
  BY <1>1
<1> QED BY <1>2, <1>3, TypeIndices DEF func_type

(* The type of a global by its index: the imported ones first. *)
LEMMA GlobalTypeOf ==
  ASSUME module \in Modules
  PROVE  /\ \A g \in 1..n_imported("global") : global_type(g - 1) = Imported("global")[g].desc
         /\ \A k \in 1..Len(module.globals) :
              global_type(n_imported("global") + k - 1)
                = [valtype |-> module.globals[k].valtype, mutable |-> module.globals[k].mutable]
<1>1. /\ n_imported("global") \in Nat /\ Len(module.globals) \in Nat
      /\ Len(Imported("global")) = n_imported("global")
  BY Sizes, PlacesFacts
<1>2. ASSUME NEW g \in 1..n_imported("global")
      PROVE  global_type(g - 1) = Imported("global")[g].desc
  <2>1. g - 1 < n_imported("global") /\ (g - 1) + 1 = g
    BY <1>1
  <2> QED BY <1>1, <2>1 DEF global_type
<1>3. ASSUME NEW k \in 1..Len(module.globals)
      PROVE  global_type(n_imported("global") + k - 1)
               = [valtype |-> module.globals[k].valtype, mutable |-> module.globals[k].mutable]
  <2>1. /\ ~(n_imported("global") + k - 1 < n_imported("global"))
        /\ (n_imported("global") + k - 1) - n_imported("global") + 1 = k
    BY <1>1
  <2> QED BY <1>1, <2>1 DEF global_type
<1> QED BY <1>2, <1>3

(* What the store resolves the imports to.                                 *)
LEMMA OfObjects ==
  ASSUME module \in Modules, NEW objs \in [DOMAIN module.imports -> Objects],
         \A i \in DOMAIN objs : objs[i].kind = module.imports[i].kind, NEW kind
  PROVE  /\ Of(kind, objs) \in Seq(Things) /\ Len(Of(kind, objs)) = n_imported(kind)
         /\ DOMAIN Of(kind, objs) = 1..n_imported(kind)
         /\ kind = "func" => Of(kind, objs) \in Seq(FuncObjects)
         /\ kind = "global" => /\ Of(kind, objs) \in Seq(Cells)
                               /\ \A n \in 1..n_imported(kind) : KeepsItsWord(Of(kind, objs)[n])
<1> DEFINE s == Of(kind, objs)
           N == n_imported(kind)
<1>1. N \in Nat /\ DOMAIN s = 1..N /\ \A n \in 1..N : s[n] = objs[Nth(Places(kind), n)]
  BY PlacesFacts DEF Of, n_imported
<1>2. \A n \in 1..N : s[n] \in Objects /\ s[n].kind = kind
  BY <1>1, PlacesFacts
<1>3. kind = "func" => \A n \in 1..N : s[n] \in FuncObjects
  BY <1>2, ObjectsAssumption DEF Cells
<1>4. kind = "global" => \A n \in 1..N : s[n] \in Cells /\ KeepsItsWord(s[n])
  BY <1>2, ObjectsAssumption DEF FuncObjects
<1>5. s = [n \in 1..N |-> objs[Nth(Places(kind), n)]]
  BY DEF Of, n_imported
<1> HIDE DEF s, N
<1>6. ASSUME NEW S, \A n \in 1..N : s[n] \in S PROVE s \in Seq(S) /\ Len(s) = N
  <2>1. s \in [1..N -> S]
    BY <1>5, <1>1, <1>6
  <2> QED BY <1>1, <2>1
<1>7. s \in Seq(Things) /\ Len(s) = N
  <2>1. \A n \in 1..N : s[n] \in Things
    BY <1>2 DEF Things
  <2> QED BY <1>6, <2>1
<1>8. (kind = "func" => s \in Seq(FuncObjects)) /\ (kind = "global" => s \in Seq(Cells))
  BY <1>3, <1>4, <1>6
<1> QED BY <1>1, <1>4, <1>7, <1>8 DEF s, N

(* An object that matches its import has the type declared for it.         *)
LEMMA LinkIs ==
  ASSUME module \in Modules, SectionVerdict("imports") = "ok",
         NEW i \in DOMAIN module.imports, NEW obj
  PROVE  LET im == module.imports[i]
         IN  /\ LinkVerdict(im, obj) \in {"ok", "incompatible"}
             /\ LinkVerdict(im, obj) = "ok" =>
                  /\ im.kind = "func" => obj.type = At(module.types, im.desc)
                  /\ im.kind = "global" => obj.valtype = im.desc.valtype
                                           /\ obj.mutable = im.desc.mutable
<1> DEFINE im == module.imports[i]
<1>1. module.imports \in Seq(Imports) /\ Len(module.types) \in Nat
  BY ModuleFacts, Sizes
<1>2. im \in Imports
  BY <1>1
<1>3. ImportVerdict(im) = "ok"
  BY SectionOks
<1> HIDE DEF im
<1>4. im.kind = "func" => ~(im.desc >= Len(module.types))
  <2>1. im.kind = "func" => im.desc \in Nat /\ im.desc < Len(module.types)
    BY <1>2, <1>3, ImportIs DEF ImportVerdict, Require
  <2> QED BY <1>1, <2>1
<1>5. LinkVerdict(im, obj) = IF _check_import_type(im, obj) THEN "ok" ELSE "incompatible"
  BY <1>4 DEF LinkVerdict
<1>6. LinkVerdict(im, obj) \in {"ok", "incompatible"}
      /\ (LinkVerdict(im, obj) = "ok" => _check_import_type(im, obj))
  BY <1>5
<1>7. ASSUME _check_import_type(im, obj)
      PROVE  /\ im.kind = "func" => obj.type = At(module.types, im.desc)
             /\ im.kind = "global" => obj.valtype = im.desc.valtype
                                      /\ obj.mutable = im.desc.mutable
  BY <1>7 DEF _check_import_type
<1> QED BY <1>6, <1>7 DEF im

(* The resolved imports fill the beginning of each index space. *)
LEMMA ResolveImportsStep ==
  ASSUME Inv, ResolveImports
  PROVE  Inv'
<1>1. at = 11 /\ outcome = "running"
  BY StageAt DEF ResolveImports, InStage, Inv, Typed
<1>2. /\ module \in Modules /\ \A k \in 1..10 : SectionOk(k)
      /\ SectionVerdict("imports") = "ok" /\ SectionVerdict("functypes") = "ok"
  BY <1>1, Accepted
<1>3. PICK objs \in [DOMAIN module.imports -> Objects] :
        /\ \A i \in DOMAIN objs : objs[i].kind = module.imports[i].kind
        /\ LET verdict == First([i \in DOMAIN objs |-> LinkVerdict(module.imports[i], objs[i])])
           IN  IF verdict = "ok"
               THEN /\ spaces' = [funcs |-> Of("func", objs), globals |-> Of("global", objs),
                                  tables |-> Of("table", objs) \o module.tables,
                                  mems |-> Of("memory", objs) \o module.mems]
                    /\ UNCHANGED started /\ Leaves
               ELSE Ends(verdict)
  BY DEF ResolveImports
<1> DEFINE vs == [i \in DOMAIN objs |-> LinkVerdict(module.imports[i], objs[i])]
<1>4. DOMAIN vs = DOMAIN module.imports
      /\ \A i \in DOMAIN module.imports : vs[i] = LinkVerdict(module.imports[i], objs[i])
  OBVIOUS
<1>5. /\ First(vs) = "ok" => spaces' = [funcs |-> Of("func", objs), globals |-> Of("global", objs),
                                         tables |-> Of("table", objs) \o module.tables,
                                         mems |-> Of("memory", objs) \o module.mems]
      /\ First(vs) = "ok" => started' = started /\ Leaves
      /\ First(vs) # "ok" => Ends(First(vs))
  BY <1>3
<1> HIDE DEF vs
<1>6. /\ First(vs) = "ok" <=> \A i \in DOMAIN module.imports : vs[i] = "ok"
      /\ First(vs) = "ok" \/ \E i \in DOMAIN module.imports : First(vs) = vs[i]
  BY <1>2, <1>4, ModuleFacts, FirstOver
<1>7. CASE First(vs) = "ok"
  <2>1. /\ module' = module /\ at' = 12 /\ outcome' = "running" /\ started' = started
        /\ spaces' = [funcs |-> Of("func", objs), globals |-> Of("global", objs),
                      tables |-> Of("table", objs) \o module.tables,
                      mems |-> Of("memory", objs) \o module.mems]
    BY <1>1, <1>5, <1>7 DEF Leaves
  <2>2. \A i \in DOMAIN module.imports : LinkVerdict(module.imports[i], objs[i]) = "ok"
    BY <1>4, <1>6, <1>7
  <2>3. /\ Of("func", objs) \in Seq(FuncObjects) /\ Of("global", objs) \in Seq(Cells)
        /\ Of("table", objs) \in Seq(Things) /\ Of("memory", objs) \in Seq(Things)
        /\ Len(Of("func", objs)) = n_imported("func")
        /\ DOMAIN Of("func", objs) = 1..n_imported("func")
        /\ Len(Of("global", objs)) = n_imported("global")
        /\ DOMAIN Of("global", objs) = 1..n_imported("global")
        /\ Len(Of("table", objs)) = n_imported("table")
        /\ Len(Of("memory", objs)) = n_imported("memory")
        /\ \A g \in 1..n_imported("global") : KeepsItsWord(Of("global", objs)[g])
    BY <1>2, <1>3, OfObjects
  <2>4. module.tables \in Seq(Things) /\ module.mems \in Seq(Things)
    <3>1. \A s \in Seq(Limits) : s \in Seq(Things)
      BY DEF Things
    <3> QED BY <1>2, <3>1, ModuleFacts
  <2>5. /\ Of("table", objs) \o module.tables \in Seq(Things)
        /\ Len(Of("table", objs) \o module.tables) = n_tables
        /\ Of("memory", objs) \o module.mems \in Seq(Things)
        /\ Len(Of("memory", objs) \o module.mems) = n_mems
    <3>1. /\ n_tables = n_imported("table") + Len(module.tables)
          /\ n_mems = n_imported("memory") + Len(module.mems)
      BY <1>2, Sizes
    <3>2. \A u, v \in Seq(Things) : u \o v \in Seq(Things) /\ Len(u \o v) = Len(u) + Len(v)
      BY ConcatFacts
    <3> QED BY ONLY <2>3, <2>4, <3>1, <3>2, ZenonT(60)
  <2>6. Typed'
    BY <1>2, <2>1, <2>3, <2>5 DEF Typed
  <2>7. Judged'
    BY <1>1, <2>1, StillJudged
  <2>8. ASSUME NEW f \in 1..n_imported("func")
        PROVE  Of("func", objs)[f].type = func_type(f - 1)
    <3> DEFINE p == Nth(Places("func"), f)
    <3>1. p \in DOMAIN module.imports /\ module.imports[p].kind = "func"
          /\ Imported("func")[f] = module.imports[p]
      BY <1>2, PlacesFacts
    <3>2. Of("func", objs)[f] = objs[p]
      BY DEF Of, n_imported
    <3> HIDE DEF p
    <3>3. objs[p].type = At(module.types, module.imports[p].desc)
      BY <1>2, <2>2, <3>1, LinkIs
    <3> QED BY <1>2, <3>1, <3>2, <3>3, FuncTypeOf
  <2>9. ASSUME NEW g \in 1..n_imported("global")
        PROVE  [valtype |-> Of("global", objs)[g].valtype, mutable |-> Of("global", objs)[g].mutable]
                 = global_type(g - 1)
    <3> DEFINE p == Nth(Places("global"), g)
    <3>1. p \in DOMAIN module.imports /\ module.imports[p].kind = "global"
          /\ Imported("global")[g] = module.imports[p]
      BY <1>2, PlacesFacts
    <3>2. Of("global", objs)[g] = objs[p]
      BY DEF Of, n_imported
    <3> HIDE DEF p
    <3>3. objs[p].valtype = module.imports[p].desc.valtype
          /\ objs[p].mutable = module.imports[p].desc.mutable
      BY <1>2, <2>2, <3>1, LinkIs
    <3>4. module.imports[p].desc \in GlobalTypes
      <4>1. module.imports[p] \in Imports
        BY <1>2, <3>1, ModuleFacts, SMTT(60)
      <4> QED BY <3>1, <4>1, ImportIs
    <3>5. module.imports[p].desc = [valtype |-> module.imports[p].desc.valtype,
                                    mutable |-> module.imports[p].desc.mutable]
      BY <3>4 DEF GlobalTypes
    <3> QED BY <1>2, <3>1, <3>2, <3>3, <3>5, GlobalTypeOf
  <2>10. /\ spaces'.funcs = Of("func", objs) /\ spaces'.globals = Of("global", objs)
         /\ Len(spaces'.tables) = n_tables /\ Len(spaces'.mems) = n_mems
    BY <2>1, <2>5
  <2>11. n_imported("global") \in n_imported("global")..n_globals
    <3>1. /\ n_globals = n_imported("global") + Len(module.globals)
          /\ n_imported("global") \in Nat /\ Len(module.globals) \in Nat
      BY <1>2, Sizes
    <3> QED BY <3>1
  <2>12. Filling'
    <3>1. /\ n_tables' = n_tables /\ n_mems' = n_mems /\ n_globals' = n_globals
          /\ n_imported("global")' = n_imported("global")
          /\ n_imported("func")' = n_imported("func")
          /\ \A f : func_type(f)' = func_type(f) /\ global_type(f)' = global_type(f)
      BY <2>1, SameModule
    <3>2. \A g \in DOMAIN spaces'.globals : Declares(g)'
      BY <2>3, <2>9, <2>10, <3>1 DEF Declares
    <3>3. \A f \in DOMAIN spaces'.funcs : spaces'.funcs[f].type = func_type(f - 1)'
      BY <2>3, <2>8, <2>10, <3>1
    <3>4. /\ Len(spaces'.tables) = n_tables' /\ Len(spaces'.mems) = n_mems'
          /\ Len(spaces'.globals) \in n_imported("global")'..n_globals'
          /\ Len(spaces'.funcs) = n_imported("func")'
      BY <2>3, <2>10, <2>11, <3>1
    <3> QED BY <2>1, <3>2, <3>3, <3>4 DEF Filling
  <2>13. GlobalsKeepTheirWord'
    BY <2>3, <2>10 DEF GlobalsKeepTheirWord
  <2>14. StartIsNullary'
    BY <2>1 DEF Inv, StartIsNullary
  <2> QED BY <2>6, <2>7, <2>12, <2>13, <2>14 DEF Inv
<1>8. CASE First(vs) # "ok"
  <2>1. First(vs) = "incompatible"
    BY <1>2, <1>4, <1>6, <1>8, LinkIs
  <2> QED BY <1>5, <2>1, EndsWell
<1> QED BY <1>7, <1>8

----------------------------------------------------------------------------
(* A constant expression found valid reads a global that is there, and     *)
(* gives an initial value of the type asked for.                           *)
LEMMA ConstValue ==
  ASSUME Inv, at > 11, NEW expr \in ConstExprs, NEW expected \in Types,
         _validate_const_expr(expr, expected) = "ok"
  PROVE  /\ ConstVerdict(expr) = "ok" /\ Const(expr) \in Values
         /\ Const(expr).type = expected /\ Const(expr).from = "init"
<1>1. module \in Modules /\ spaces.globals \in Seq(Cells)
  BY DEF Inv, Typed
<1>2. CASE expr[1].op = "const" /\ expr[1].type = expected
  BY <1>2 DEF ConstVerdict, Const, Value, Values
<1>3. CASE /\ expr[1].op = "global.get" /\ expr[1].imm \in Nat
           /\ expr[1].imm < n_imported("global")
           /\ global_type(expr[1].imm) = [valtype |-> expected, mutable |-> FALSE]
  <2>1. PICK k \in Nat : k = expr[1].imm
    BY <1>3
  <2>2. k < Len(spaces.globals) /\ k + 1 \in DOMAIN spaces.globals /\ (k + 1) - 1 = k
    <3>1. Len(spaces.globals) \in n_imported("global")..n_globals
      BY DEF Inv, Filling
    <3>2. /\ n_imported("global") \in Nat /\ Len(spaces.globals) \in Nat
          /\ DOMAIN spaces.globals = 1..Len(spaces.globals)
      BY <1>1, PlacesFacts
    <3>3. n_globals \in Nat
      BY <1>1, Sizes
    <3> QED BY <1>3, <2>1, <3>1, <3>2, <3>3
  <2>3. [valtype |-> spaces.globals[k + 1].valtype, mutable |-> spaces.globals[k + 1].mutable]
          = [valtype |-> expected, mutable |-> FALSE]
    <3>1. Declares(k + 1)
      BY <2>2 DEF Inv, Filling
    <3> QED BY <1>3, <2>1, <2>2, <3>1 DEF Declares
  <2>4. spaces.globals[k + 1].valtype = expected /\ spaces.globals[k + 1].mutable = FALSE
    BY <2>3
  <2>5. KeepsItsWord(spaces.globals[k + 1])
    BY <2>2 DEF Inv, GlobalsKeepTheirWord
  <2>6. spaces.globals[k + 1] \in Cells
    BY <1>1, <2>2
  <2>7. /\ spaces.globals[k + 1].value \in Values
        /\ spaces.globals[k + 1].value.type = expected
        /\ spaces.globals[k + 1].value.from = "init"
    BY <2>4, <2>5, <2>6 DEF KeepsItsWord, Cells
  <2>8. ConstVerdict(expr) = "ok"
    BY <1>3, <2>1, <2>2, ExistsIs DEF ConstVerdict
  <2>9. Const(expr) = spaces.globals[k + 1].value
    BY <1>3, <2>1 DEF Const
  <2> QED BY <2>7, <2>8, <2>9
<1> QED BY <1>1, <1>2, <1>3, ConstIs

(* A global's initialiser finds the globals it may name already defined. *)
LEMMA DefineGlobalStep ==
  ASSUME Inv, DefineGlobal
  PROVE  Inv'
<1>1. at = 12 /\ outcome = "running" /\ spaces.globals \in Seq(Cells)
  BY StageAt DEF DefineGlobal, InStage, Inv, Typed
<1>2. module \in Modules /\ SectionVerdict("globals") = "ok"
  BY <1>1, Accepted
<1>3. /\ n_imported("global") \in Nat /\ Len(module.globals) \in Nat
      /\ n_globals = n_imported("global") + Len(module.globals)
      /\ Len(Imported("global")) = n_imported("global")
      /\ Len(spaces.globals) \in Nat
  <2>1. /\ n_imported("global") \in Nat /\ Len(module.globals) \in Nat
        /\ n_globals = n_imported("global") + Len(module.globals)
    BY <1>2, Sizes
  <2>2. Len(Imported("global")) = n_imported("global")
    BY <1>2, PlacesFacts
  <2>3. Len(spaces.globals) \in Nat
    BY <1>1
  <2> QED BY ONLY <2>1, <2>2, <2>3
<1>4. Len(spaces.globals) \in n_imported("global")..n_globals
  BY <1>1 DEF Inv, Filling
<1>5. PICK k \in 1..Len(module.globals) :
        Filled + 1 = k /\ n_imported("global") + k = Len(spaces.globals) + 1
  <2>1. Filled = Len(spaces.globals) - n_imported("global") /\ Filled < Len(module.globals)
    BY <1>3 DEF Filled, DefineGlobal
  <2> QED BY <1>3, <1>4, <2>1, SMTT(60)
<1> DEFINE g == module.globals[k]
           c == [kind |-> "global", valtype |-> g.valtype, mutable |-> g.mutable,
                 value |-> Const(g.init)]
<1>6. g \in Globals
  BY <1>2, ModuleFacts
<1>7. g.valtype \in Types /\ g.mutable \in BOOLEAN /\ g.init \in ConstExprs
  BY <1>6 DEF Globals
<1>8. _validate_const_expr(g.init, g.valtype) = "ok"
  BY <1>2, SectionOks DEF GlobalVerdict
<1>9. ConstVerdict(g.init) = "ok"
      /\ spaces' = [spaces EXCEPT !.globals = Append(@, c)]
      /\ UNCHANGED <<module, at, started, outcome>>
  <2>1. ConstVerdict(g.init) = "ok"
    BY <1>1, <1>7, <1>8, ConstValue
  <2> QED BY <1>5, <2>1 DEF DefineGlobal
<1>10. c \in Cells /\ KeepsItsWord(c)
       /\ c.valtype = g.valtype /\ c.mutable = g.mutable
  <2>1. Const(g.init) \in Values /\ Const(g.init).type = g.valtype /\ Const(g.init).from = "init"
    BY <1>1, <1>7, <1>8, ConstValue
  <2> HIDE DEF g
  <2> QED BY <1>7, <2>1 DEF Cells, KeepsItsWord
<1> HIDE DEF c
<1>11. /\ spaces'.globals = Append(spaces.globals, c) /\ spaces'.funcs = spaces.funcs
       /\ spaces'.tables = spaces.tables /\ spaces'.mems = spaces.mems
       /\ spaces' \in [funcs : Seq(FuncObjects), tables : Seq(Things), mems : Seq(Things),
                       globals : Seq(Cells)]
  <2>1. spaces \in [funcs : Seq(FuncObjects), tables : Seq(Things), mems : Seq(Things),
                    globals : Seq(Cells)]
    BY DEF Inv, Typed
  <2>2. Append(spaces.globals, c) \in Seq(Cells)
    BY <1>1, <1>10
  <2>3. spaces' = [spaces EXCEPT !.globals = Append(spaces.globals, c)]
    BY <1>9, <2>1
  <2> QED BY <2>1, <2>2, <2>3
<1>12. /\ Len(spaces'.globals) = Len(spaces.globals) + 1
       /\ \A i \in DOMAIN spaces.globals : spaces'.globals[i] = spaces.globals[i]
       /\ spaces'.globals[Len(spaces.globals) + 1] = c
       /\ \A i \in DOMAIN spaces'.globals : i \in DOMAIN spaces.globals \/ i = Len(spaces.globals) + 1
  BY <1>1, <1>10, <1>11
<1>13. Typed'
  BY <1>1, <1>9, <1>11 DEF Inv, Typed
<1>14. Judged'
  BY <1>1, <1>9, StillJudged
<1>15. [valtype |-> c.valtype, mutable |-> c.mutable] = global_type((Len(spaces.globals) + 1) - 1)
  <2>1. global_type(n_imported("global") + k - 1) = [valtype |-> g.valtype, mutable |-> g.mutable]
    BY <1>2, GlobalTypeOf
  <2>2. n_imported("global") + k - 1 = (Len(spaces.globals) + 1) - 1
    BY ONLY <1>3, <1>5
  <2> QED BY ONLY <1>10, <2>1, <2>2, Zenon
<1>16. Filling'
  <2>1. /\ n_tables' = n_tables /\ n_mems' = n_mems /\ n_globals' = n_globals
        /\ n_imported("global")' = n_imported("global")
        /\ n_imported("func")' = n_imported("func")
        /\ \A f : func_type(f)' = func_type(f) /\ global_type(f)' = global_type(f)
    BY <1>9, SameModule
  <2>2. ASSUME NEW i \in DOMAIN spaces'.globals PROVE Declares(i)'
    <3>1. CASE i \in DOMAIN spaces.globals
      <4>1. Declares(i)
        BY <1>1, <3>1 DEF Inv, Filling
      <4> QED BY <1>12, <2>1, <3>1, <4>1 DEF Declares
    <3>2. CASE i = Len(spaces.globals) + 1
      BY <1>12, <1>15, <2>1, <3>2 DEF Declares
    <3> QED BY <1>12, <3>1, <3>2
  <2>3. Len(spaces'.globals) \in n_imported("global")'..n_globals'
    BY <1>3, <1>4, <1>5, <1>12, <2>1
  <2>4. \A f \in DOMAIN spaces'.funcs : spaces'.funcs[f].type = func_type(f - 1)'
    BY <1>1, <1>11, <2>1 DEF Inv, Filling
  <2>5. /\ Len(spaces'.tables) = n_tables' /\ Len(spaces'.mems) = n_mems'
        /\ Len(spaces'.funcs) = n_imported("func")'
    BY <1>1, <1>11, <2>1 DEF Inv, Filling
  <2>6. at' = 12
    BY <1>1, <1>9
  <2> QED BY <2>2, <2>3, <2>4, <2>5, <2>6 DEF Filling
<1>17. GlobalsKeepTheirWord'
  BY <1>10, <1>12 DEF Inv, GlobalsKeepTheirWord
<1>18. StartIsNullary'
  BY <1>9 DEF Inv, StartIsNullary
<1> QED BY <1>13, <1>14, <1>16, <1>17, <1>18 DEF Inv

(* A step that only goes on to the next stage.                             *)
LEMMA GoesOn ==
  ASSUME Inv, at > 11, at < 18, at # 13, Leaves, spaces' = spaces, StartIsNullary',
         outcome = "running",
         at = 12 => Len(spaces.globals) = n_globals
  PROVE  Inv'
<1>1. module' = module /\ at' = at + 1 /\ outcome' = outcome /\ at \in 1..18
  BY DEF Leaves, Inv, Typed
<1>2. Typed'
  BY <1>1 DEF Inv, Typed
<1>3. Judged'
  BY <1>1, StillJudged
<1>4. Filling'
  <2>1. /\ n_funcs' = n_funcs /\ n_tables' = n_tables /\ n_mems' = n_mems
        /\ n_globals' = n_globals
        /\ n_imported("global")' = n_imported("global")
        /\ n_imported("func")' = n_imported("func")
        /\ \A f : func_type(f)' = func_type(f) /\ global_type(f)' = global_type(f)
    BY <1>1, SameModule
  <2>2. (at' > 11) /\ (at > 13 <=> at' > 13) /\ (at = 12 \/ at > 12)
    BY <1>1
  <2>3. \A g \in DOMAIN spaces'.globals : Declares(g)'
    BY <2>1 DEF Inv, Filling, Declares
  <2>4. Len(spaces'.globals) = n_globals' /\ Len(spaces'.globals) \in n_imported("global")'..n_globals'
    BY <2>1, <2>2 DEF Inv, Filling
  <2>5. /\ Len(spaces'.tables) = n_tables' /\ Len(spaces'.mems) = n_mems'
        /\ Len(spaces'.funcs) = IF at' > 13 THEN n_funcs' ELSE n_imported("func")'
        /\ \A f \in DOMAIN spaces'.funcs : spaces'.funcs[f].type = func_type(f - 1)'
    BY <2>1, <2>2 DEF Inv, Filling
  <2> QED BY <2>3, <2>4, <2>5 DEF Filling
<1>5. GlobalsKeepTheirWord'
  BY DEF Inv, GlobalsKeepTheirWord
<1> QED BY <1>2, <1>3, <1>4, <1>5 DEF Inv

(* All globals defined, the index space is as long as declared. *)
LEMMA GlobalsDefinedStep ==
  ASSUME Inv, GlobalsDefined
  PROVE  Inv'
<1>1. at = 12 /\ outcome = "running" /\ spaces.globals \in Seq(Cells) /\ module \in Modules
  BY StageAt DEF GlobalsDefined, InStage, Inv, Typed
<1>2. Leaves /\ spaces' = spaces /\ started' = started /\ Filled = Len(module.globals)
  BY DEF GlobalsDefined
<1>3. Len(spaces.globals) = n_globals
  <2>1. /\ n_imported("global") \in Nat /\ Len(module.globals) \in Nat
        /\ n_globals = n_imported("global") + Len(module.globals)
        /\ Len(Imported("global")) = n_imported("global")
        /\ Len(spaces.globals) \in Nat
    BY <1>1, Sizes, PlacesFacts, SMTT(60)
  <2> QED BY <1>2, <2>1 DEF Filled
<1>4. StartIsNullary'
  BY <1>2 DEF Inv, StartIsNullary
<1> QED BY <1>1, <1>2, <1>3, <1>4, GoesOn

(* The functions follow the imported ones, each of the type its index      *)
(* names.                                                                  *)
LEMMA DefineFuncsStep ==
  ASSUME Inv, DefineFuncs
  PROVE  Inv'
<1>1. at = 13 /\ outcome = "running" /\ spaces.funcs \in Seq(FuncObjects)
  BY StageAt DEF DefineFuncs, InStage, Inv, Typed
<1>2. /\ module \in Modules
      /\ SectionVerdict("imports") = "ok" /\ SectionVerdict("functypes") = "ok"
  BY <1>1, Accepted
<1>3. \A k \in DOMAIN module.funcs : module.funcs[k].typeidx < Len(module.types)
  BY <1>2, TypeIndicesInRange
<1>4. /\ Len(module.types) \in Nat /\ module.types \in Seq(FuncTypes)
      /\ Len(module.funcs) \in Nat /\ DOMAIN module.funcs = 1..Len(module.funcs)
      /\ \A k \in DOMAIN module.funcs : module.funcs[k].typeidx \in Nat
  <2>1. module.types \in Seq(FuncTypes) /\ module.funcs \in Seq(Funcs)
    BY <1>2, ModuleFacts
  <2>2. ASSUME NEW k \in DOMAIN module.funcs PROVE module.funcs[k].typeidx \in Nat
    <3>1. module.funcs[k] \in Funcs
      BY <2>1
    <3> QED BY <3>1 DEF Funcs
  <2>3. /\ Len(module.types) \in Nat /\ Len(module.funcs) \in Nat
        /\ DOMAIN module.funcs = 1..Len(module.funcs)
    BY <2>1
  <2> QED BY ONLY <2>1, <2>2, <2>3
<1> DEFINE new == [i \in DOMAIN module.funcs |->
                     [kind |-> "func", type |-> module.types[module.funcs[i].typeidx + 1]]]
<1>5. \A k \in DOMAIN module.funcs : ~(module.funcs[k].typeidx >= Len(module.types))
  BY <1>3, <1>4
<1>6. /\ spaces' = [spaces EXCEPT !.funcs = @ \o new]
      /\ started' = started /\ module' = module /\ at' = 14 /\ outcome' = "running"
  <2>1. spaces' = [spaces EXCEPT !.funcs = @ \o new] /\ UNCHANGED started /\ Leaves
    BY <1>5 DEF DefineFuncs
  <2> QED BY <1>1, <2>1 DEF Leaves
<1>7. ASSUME NEW k \in DOMAIN module.funcs
      PROVE  /\ module.types[module.funcs[k].typeidx + 1] \in FuncTypes
             /\ module.types[module.funcs[k].typeidx + 1]
                  = At(module.types, module.funcs[k].typeidx)
  <2>1. PICK t \in Nat : t = module.funcs[k].typeidx /\ t < Len(module.types)
    BY <1>3, <1>4
  <2>2. t + 1 \in DOMAIN module.types
    BY <1>4, <2>1
  <2> QED BY <1>4, <2>1, <2>2 DEF At
<1>8. /\ DOMAIN new = 1..Len(module.funcs)
      /\ \A k \in DOMAIN module.funcs :
           new[k] \in FuncObjects /\ new[k].type = At(module.types, module.funcs[k].typeidx)
  BY <1>4, <1>7 DEF FuncObjects
<1>9. new \in [1..Len(module.funcs) -> FuncObjects]
  BY <1>4, <1>7 DEF FuncObjects
<1> HIDE DEF new
<1>10. new \in Seq(FuncObjects) /\ Len(new) = Len(module.funcs)
  BY <1>4, <1>8, <1>9
<1>11. /\ spaces'.funcs = spaces.funcs \o new /\ spaces'.globals = spaces.globals
       /\ spaces'.tables = spaces.tables /\ spaces'.mems = spaces.mems
       /\ spaces' \in [funcs : Seq(FuncObjects), tables : Seq(Things), mems : Seq(Things),
                       globals : Seq(Cells)]
  <2>1. spaces \in [funcs : Seq(FuncObjects), tables : Seq(Things), mems : Seq(Things),
                    globals : Seq(Cells)]
    BY DEF Inv, Typed
  <2>2. spaces.funcs \o new \in Seq(FuncObjects)
    BY <1>1, <1>10, ConcatFacts
  <2>3. spaces' = [spaces EXCEPT !.funcs = spaces.funcs \o new]
    BY <1>6, <2>1
  <2> QED BY <2>1, <2>2, <2>3
<1>12. /\ Len(spaces.funcs) = n_imported("func") /\ n_imported("func") \in Nat
       /\ DOMAIN spaces.funcs = 1..n_imported("func")
       /\ n_funcs = n_imported("func") + Len(module.funcs)
  <2>1. Len(spaces.funcs) = n_imported("func")
    BY <1>1 DEF Inv, Filling
  <2> QED BY <1>1, <1>2, <2>1, Sizes, SMTT(60)
<1>13. /\ Len(spaces'.funcs) = n_funcs /\ DOMAIN spaces'.funcs = 1..n_funcs
       /\ \A f \in 1..n_imported("func") : spaces'.funcs[f] = spaces.funcs[f]
       /\ \A k \in 1..Len(module.funcs) : spaces'.funcs[n_imported("func") + k] = new[k]
  <2>1. /\ Len(spaces.funcs \o new) = Len(spaces.funcs) + Len(new)
        /\ DOMAIN (spaces.funcs \o new) = 1..(Len(spaces.funcs) + Len(new))
        /\ \A k \in DOMAIN spaces.funcs : (spaces.funcs \o new)[k] = spaces.funcs[k]
        /\ \A k \in 1..Len(new) : (spaces.funcs \o new)[Len(spaces.funcs) + k] = new[k]
    <3>1. PICK u \in Seq(FuncObjects), v \in Seq(FuncObjects) : u = spaces.funcs /\ v = new
      BY <1>1, <1>10
    <3>2. /\ Len(u \o v) = Len(u) + Len(v) /\ DOMAIN (u \o v) = 1..(Len(u) + Len(v))
          /\ \A k \in DOMAIN u : (u \o v)[k] = u[k]
          /\ \A k \in 1..Len(v) : (u \o v)[Len(u) + k] = v[k]
      BY ConcatFacts
    <3> QED BY ONLY <3>1, <3>2, Zenon
  <2> QED BY ONLY <1>10, <1>11, <1>12, <2>1, Zenon
<1>14. ASSUME NEW f \in 1..n_funcs PROVE spaces'.funcs[f].type = func_type(f - 1)
  <2>1. CASE f \in 1..n_imported("func")
    <3>1. spaces.funcs[f].type = func_type(f - 1)
      BY <1>1, <1>12, <2>1 DEF Inv, Filling
    <3> QED BY <1>13, <2>1, <3>1
  <2>2. ASSUME NEW k \in 1..Len(module.funcs), f = n_imported("func") + k
        PROVE  spaces'.funcs[f].type = func_type(f - 1)
    <3>1. func_type(n_imported("func") + k - 1) = At(module.types, module.funcs[k].typeidx)
      BY <1>2, FuncTypeOf
    <3>2. spaces'.funcs[n_imported("func") + k].type = At(module.types, module.funcs[k].typeidx)
      BY <1>4, <1>8, <1>13
    <3>3. f - 1 = n_imported("func") + k - 1
      BY ONLY <1>12, <2>2
    <3> QED BY ONLY <2>2, <3>1, <3>2, <3>3
  <2>3. f \in 1..n_imported("func") \/ \E k \in 1..Len(module.funcs) : f = n_imported("func") + k
    BY <1>4, <1>12, Split, ZenonT(60)
  <2> QED BY <2>1, <2>2, <2>3
<1>15. Typed'
  BY <1>6, <1>11 DEF Inv, Typed
<1>16. Judged'
  BY <1>1, <1>6, StillJudged
<1>17. Filling'
  <2>1. /\ n_tables' = n_tables /\ n_mems' = n_mems /\ n_globals' = n_globals
        /\ n_funcs' = n_funcs /\ n_imported("global")' = n_imported("global")
        /\ \A f : func_type(f)' = func_type(f) /\ global_type(f)' = global_type(f)
    BY <1>6, SameModule
  <2>2. \A g \in DOMAIN spaces'.globals : Declares(g)'
    BY <1>1, <1>11, <2>1 DEF Inv, Filling, Declares
  <2>3. \A f \in DOMAIN spaces'.funcs : spaces'.funcs[f].type = func_type(f - 1)'
    BY <1>13, <1>14, <2>1
  <2>4. /\ Len(spaces'.tables) = n_tables' /\ Len(spaces'.mems) = n_mems'
        /\ Len(spaces'.globals) = n_globals'
        /\ Len(spaces'.globals) \in n_imported("global")'..n_globals'
    BY <1>1, <1>11, <2>1 DEF Inv, Filling
  <2>5. Len(spaces'.funcs) = n_funcs'
    BY <1>13, <2>1
  <2> QED BY <1>6, <2>2, <2>3, <2>4, <2>5 DEF Filling
<1>18. GlobalsKeepTheirWord'
  BY <1>11 DEF Inv, GlobalsKeepTheirWord
<1>19. StartIsNullary'
  BY <1>6 DEF Inv, StartIsNullary
<1> QED BY <1>15, <1>16, <1>17, <1>18, <1>19 DEF Inv

(* With the index spaces full, what was found in range can be read.        *)
LEMMA SpacesFull ==
  ASSUME Inv, at > 13
  PROVE  /\ Len(spaces.funcs) = n_funcs /\ Len(spaces.tables) = n_tables
         /\ Len(spaces.mems) = n_mems /\ Len(spaces.globals) = n_globals
         /\ \A f \in DOMAIN spaces.funcs : spaces.funcs[f].type = func_type(f - 1)
         /\ \A g \in DOMAIN spaces.globals : Declares(g)
         /\ DOMAIN spaces.funcs = 1..n_funcs /\ DOMAIN spaces.globals = 1..n_globals
<1>1. at > 11 /\ at > 12
  BY DEF Inv, Typed
<1>2. spaces.funcs \in Seq(FuncObjects) /\ spaces.globals \in Seq(Cells)
  BY DEF Inv, Typed
<1> QED BY <1>1, <1>2 DEF Inv, Filling

\* A stage that only reads, and reads nothing past the end.
LEMMA ReadingStep ==
  ASSUME Inv, at > 13, at < 18, NEW stage, Reading(stage, "ok")
  PROVE  Inv'
<1>1. Leaves /\ spaces' = spaces /\ started' = started /\ outcome = "running"
  BY DEF Reading, InStage
<1>2. StartIsNullary'
  BY <1>1 DEF Inv, StartIsNullary
<1>3. at > 11 /\ at # 12 /\ at # 13
  BY DEF Inv, Typed
<1> QED BY <1>1, <1>2, <1>3, GoesOn

(* Every export names an object that exists. *)
LEMMA DefineExportsStep ==
  ASSUME Inv, DefineExports
  PROVE  Inv'
<1>1. at = 14
  BY StageAt DEF DefineExports, Reading, Inv, Typed
<1>2. module \in Modules /\ SectionVerdict("exports") = "ok"
  BY <1>1, Accepted
<1> DEFINE vs == [i \in DOMAIN module.exports |-> ExportRead(module.exports[i])]
<1>3. DOMAIN vs = DOMAIN module.exports
      /\ \A i \in DOMAIN module.exports : vs[i] = ExportRead(module.exports[i])
  OBVIOUS
<1>4. Reading("exports", First(vs))
  BY DEF DefineExports, Each
<1> HIDE DEF vs
<1>5. ASSUME NEW i \in DOMAIN module.exports
      PROVE  ExportRead(module.exports[i]) = "ok"
  <2>1. module.exports[i] \in Exports
    BY <1>2, ModuleFacts
  <2>2. ExportVerdict(i) = "ok"
    BY <1>2, SectionOks
  <2>3. module.exports[i].idx < Size(module.exports[i].kind)
    BY <2>2 DEF ExportVerdict, Require
  <2>4. module.exports[i].kind \in {"func", "table", "memory", "global"}
    BY <2>1 DEF Exports
  <2>5. Len(Space(module.exports[i].kind)) = Size(module.exports[i].kind)
    BY <1>1, <2>4, SpacesFull DEF Space, Size
  <2> QED BY <2>3, <2>5 DEF ExportRead, Exists
<1>6. First(vs) = "ok"
  BY <1>2, <1>3, <1>5, ModuleFacts, FirstOver
<1> QED BY <1>1, <1>4, <1>6, ReadingStep

(* Every element segment finds its table, its offset and its functions. *)
LEMMA WriteElemsStep ==
  ASSUME Inv, WriteElems
  PROVE  Inv'
<1>1. at = 15
  BY StageAt DEF WriteElems, Reading, Inv, Typed
<1>2. module \in Modules /\ SectionVerdict("elems") = "ok"
  BY <1>1, Accepted
<1> DEFINE vs == [i \in DOMAIN module.elems |-> ElemRead(module.elems[i])]
<1>3. DOMAIN vs = DOMAIN module.elems
      /\ \A i \in DOMAIN module.elems : vs[i] = ElemRead(module.elems[i])
  OBVIOUS
<1>4. Reading("elems", First(vs))
  BY DEF WriteElems, Each
<1> HIDE DEF vs
<1>5. ASSUME NEW i \in DOMAIN module.elems
      PROVE  ElemRead(module.elems[i]) = "ok"
  <2> DEFINE seg == module.elems[i]
             rs == [n \in DOMAIN seg.funcidxs |-> Exists(spaces.funcs, seg.funcidxs[n])]
  <2>1. seg \in Segments
    BY <1>2, ModuleFacts
  <2>2. ElemVerdict(seg) = "ok"
    BY <1>2, SectionOks
  <2>3. /\ n_tables > 0 /\ _validate_const_expr(seg.offset, "i32") = "ok"
        /\ \A n \in DOMAIN seg.funcidxs : seg.funcidxs[n] < n_funcs
    BY <1>2, <2>1, <2>2, ElemVerdictIs
  <2>4. seg.offset \in ConstExprs /\ seg.funcidxs \in Seq(Nat)
    BY <2>1 DEF Segments
  <2>5. Exists(spaces.tables, 0) = "ok"
    BY <1>1, <1>2, <2>3, SpacesFull, Sizes, SMTT(60) DEF Exists
  <2>6. ConstVerdict(seg.offset) = "ok"
    BY <1>1, <2>3, <2>4, ConstValue DEF Types
  <2>7. \A n \in DOMAIN seg.funcidxs : rs[n] = "ok"
    BY <1>1, <2>3, SpacesFull DEF Exists
  <2>8. DOMAIN rs = DOMAIN seg.funcidxs
    OBVIOUS
  <2>9. ElemRead(seg) = First(<<Exists(spaces.tables, 0), ConstVerdict(seg.offset), First(rs)>>)
    BY DEF ElemRead
  <2> HIDE DEF rs, seg
  <2>10. First(rs) = "ok"
    BY <2>4, <2>7, <2>8, FirstOver
  <2>11. ElemRead(seg) = "ok"
    BY <2>5, <2>6, <2>9, <2>10, FirstOfThree
  <2> QED BY <2>11 DEF seg
<1>6. First(vs) = "ok"
  BY <1>2, <1>3, <1>5, ModuleFacts, FirstOver
<1> QED BY <1>1, <1>4, <1>6, ReadingStep

(* Every data segment finds its memory and its offset. *)
LEMMA WriteDatasStep ==
  ASSUME Inv, WriteDatas
  PROVE  Inv'
<1>1. at = 16
  BY StageAt DEF WriteDatas, Reading, Inv, Typed
<1>2. module \in Modules /\ SectionVerdict("datas") = "ok"
  BY <1>1, Accepted
<1> DEFINE vs == [i \in DOMAIN module.datas |-> DataRead(module.datas[i])]
<1>3. DOMAIN vs = DOMAIN module.datas
      /\ \A i \in DOMAIN module.datas : vs[i] = DataRead(module.datas[i])
  OBVIOUS
<1>4. Reading("datas", First(vs))
  BY DEF WriteDatas, Each
<1> HIDE DEF vs
<1>5. ASSUME NEW i \in DOMAIN module.datas
      PROVE  DataRead(module.datas[i]) = "ok"
  <2> DEFINE seg == module.datas[i]
  <2>1. seg \in Segments
    BY <1>2, ModuleFacts
  <2>2. DataVerdict(seg) = "ok"
    BY <1>2, SectionOks
  <2> HIDE DEF seg
  <2>3. n_mems > 0 /\ _validate_const_expr(seg.offset, "i32") = "ok"
    BY <1>2, <2>1, <2>2, DataVerdictIs
  <2>4. seg.offset \in ConstExprs
    BY <2>1 DEF Segments
  <2>5. Exists(spaces.mems, 0) = "ok"
    BY <1>1, <1>2, <2>3, SpacesFull, Sizes, SMTT(60) DEF Exists
  <2>6. ConstVerdict(seg.offset) = "ok"
    BY <1>1, <2>3, <2>4, ConstValue DEF Types
  <2>7. DataRead(seg) = "ok"
    BY <2>5, <2>6, FirstOfTwo DEF DataRead
  <2> QED BY <2>7 DEF seg
<1>6. First(vs) = "ok"
  BY <1>2, <1>3, <1>5, ModuleFacts, FirstOver
<1> QED BY <1>1, <1>4, <1>6, ReadingStep

(* The start function exists and takes and returns nothing. *)
LEMMA StartStep ==
  ASSUME Inv, Start
  PROVE  Inv'
<1>1. at = 17 /\ outcome = "running"
  BY StageAt DEF Start, InStage, Inv, Typed
<1>2. /\ module \in Modules /\ SectionVerdict("start") = "ok"
      /\ SectionVerdict("imports") = "ok" /\ SectionVerdict("functypes") = "ok"
  BY <1>1, Accepted
<1>3. CASE module.start = NoStart
  <2>1. Leaves /\ spaces' = spaces /\ started' = started
    BY <1>3 DEF Start
  <2>2. StartIsNullary'
    BY <2>1 DEF Inv, StartIsNullary
  <2> QED BY <1>1, <2>1, <2>2, GoesOn
<1>4. CASE module.start # NoStart
  <2>1. StartVerdict = "ok"
    BY <1>2, EachSection
  <2>2. module.start \in Nat /\ module.start < n_funcs /\ Nullary(func_type(module.start))
    BY <1>2, <1>4, <2>1, StartVerdictIs
  <2>3. PICK s \in Nat : s = module.start
    BY <2>2
  <2>4. n_funcs \in Nat /\ Len(spaces.funcs) = n_funcs
    BY <1>1, <1>2, Sizes, SpacesFull
  <2>5. ~(s >= Len(spaces.funcs)) /\ s + 1 \in 1..n_funcs /\ (s + 1) - 1 = s
    BY <2>2, <2>3, <2>4
  <2>6. spaces.funcs[s + 1].type = func_type(s)
    <3>1. \A f \in 1..n_funcs : spaces.funcs[f].type = func_type(f - 1)
      BY <1>1, SpacesFull
    <3>2. PICK f \in 1..n_funcs : f = s + 1 /\ f - 1 = s
      BY <2>5
    <3> QED BY ONLY <3>1, <3>2, Zenon
  <2>7. started' = <<spaces.funcs[s + 1].type>> /\ spaces' = spaces /\ Leaves
    BY <1>4, <2>3, <2>5 DEF Start
  <2>8. Nullary(spaces.funcs[s + 1].type)
    BY <2>2, <2>3, <2>6
  <2>9. StartIsNullary'
    BY <2>7, <2>8 DEF StartIsNullary
  <2> QED BY <1>1, <2>7, <2>9, GoesOn
<1> QED BY <1>3, <1>4

----------------------------------------------------------------------------
(* What an instruction found valid may rely on.                            *)
LEMMA IndexOk ==
  ASSUME module \in Modules, NEW f, NEW ins \in Instructions, IndexVerdict(f, ins) = "ok"
  PROVE  /\ ins.op = "block" => ins.imm < Len(module.types)
         /\ ins.op = "call" => ins.imm < n_funcs
         /\ ins.op = "call_indirect" => n_tables > 0 /\ ins.imm < Len(module.types)
         /\ ins.op = "local" => ins.imm < Len(At(module.types, f.typeidx).params) + f.locals
         /\ ins.op = "global.get" => ins.imm < n_globals
         /\ ins.op = "global.set" => ins.imm < n_globals /\ global_type(ins.imm).mutable
         /\ ins.op = "memory" => n_mems > 0
         /\ ins.op = "store" => n_mems > 0 /\ ins.align <= 2
<1>1. n_funcs \in Nat /\ n_globals \in Nat
  BY Sizes
<1>2. CASE ins.op \in {"block", "local", "global.get", "memory"}
  BY <1>2 DEF IndexVerdict, Require, Uses
<1>3. CASE ins.op = "call"
  <2>1. ~(ins.imm >= n_funcs)
    BY <1>3 DEF IndexVerdict
  <2> QED BY <1>1, <1>3, <2>1, InstructionIs
<1>4. CASE ins.op = "call_indirect"
  <2>1. First(<<Uses(n_tables), Require(ins.imm < Len(module.types))>>) = "ok"
    BY <1>4 DEF IndexVerdict
  <2>2. Uses(n_tables) = "ok" /\ Require(ins.imm < Len(module.types)) = "ok"
    BY <2>1, FirstOfTwo
  <2> QED BY <1>4, <2>2 DEF Uses, Require
<1>5. CASE ins.op = "global.set"
  <2>1. SetVerdict(ins.imm) = "ok"
    BY <1>5 DEF IndexVerdict
  <2>2. ~(ins.imm >= n_globals) /\ global_type(ins.imm).mutable
    BY <2>1 DEF SetVerdict, Require
  <2> QED BY <1>1, <1>5, <2>2, InstructionIs
<1>6. CASE ins.op = "store"
  <2>1. First(<<Uses(n_mems), Require(ins.align <= 2)>>) = "ok"
    BY <1>6 DEF IndexVerdict
  <2>2. Uses(n_mems) = "ok" /\ Require(ins.align <= 2) = "ok"
    BY <2>1, FirstOfTwo
  <2> QED BY <1>6, <2>2 DEF Uses, Require
<1> QED BY <1>2, <1>3, <1>4, <1>5, <1>6, InstructionIs

(* An instruction of a valid body finds what it names.                     *)
LEMMA ExecOk ==
  ASSUME Inv, at = 18, NEW f, NEW ins \in Instructions, IndexVerdict(f, ins) = "ok"
  PROVE  ExecVerdict(f, ins) = "ok"
<1>1. module \in Modules
  BY DEF Inv, Typed
<1>2. /\ Len(spaces.funcs) = n_funcs /\ Len(spaces.tables) = n_tables
      /\ Len(spaces.mems) = n_mems /\ Len(spaces.globals) = n_globals
  BY SpacesFull
<1>3. n_tables \in Nat /\ n_mems \in Nat
  BY <1>1, Sizes
<1>4. CASE ins.op \in {"block", "call", "local", "global.get", "global.set"}
  BY <1>1, <1>2, <1>4, IndexOk DEF ExecVerdict, Exists
<1>5. CASE ins.op = "call_indirect"
  <2>1. n_tables > 0 /\ ins.imm < Len(module.types)
    BY <1>1, <1>5, IndexOk
  <2>2. Exists(module.types, ins.imm) = "ok" /\ Exists(spaces.tables, 0) = "ok"
    BY <1>2, <1>3, <2>1 DEF Exists
  <2>3. ExecVerdict(f, ins) = First(<<Exists(module.types, ins.imm), Exists(spaces.tables, 0)>>)
    BY <1>5 DEF ExecVerdict
  <2> QED BY <2>2, <2>3, FirstOfTwo
<1>6. CASE ins.op \in {"memory", "store"}
  <2>1. n_mems > 0
    BY <1>1, <1>6, IndexOk
  <2>2. Exists(spaces.mems, 0) = "ok"
    BY <1>2, <1>3, <2>1 DEF Exists
  <2> QED BY <1>6, <2>2 DEF ExecVerdict
<1> QED BY <1>4, <1>5, <1>6, InstructionIs

(* Every instruction of every function finds what its index names. *)
LEMMA CallStep ==
  ASSUME Inv, Call
  PROVE  Inv'
<1>1. PICK i \in DOMAIN module.funcs :
        \E k \in DOMAIN module.funcs[i].body :
          Execute(module.funcs[i], module.funcs[i].body[k])
  BY DEF Call
<1>2. PICK f : f = module.funcs[i]
  OBVIOUS
<1>3. PICK ins : /\ Execute(f, ins)
                 /\ \E k \in DOMAIN f.body : ins = f.body[k]
  BY <1>1, <1>2
<1>4. at = 18 /\ outcome = "running" /\ spaces.globals \in Seq(Cells)
  BY <1>3, StageAt DEF Execute, InStage, Inv, Typed
<1>5. module \in Modules /\ SectionVerdict("bodies") = "ok"
  BY <1>4, Accepted
<1>6. f \in Funcs /\ ins \in Instructions /\ IndexVerdict(f, ins) = "ok"
  <2>1. f \in Funcs
    BY <1>2, <1>5, ModuleFacts
  <2>2. f.body \in Seq(Instructions)
    BY <2>1 DEF Funcs
  <2>3. ins \in Instructions
    BY <1>3, <2>2
  <2>4. BodyVerdict(f) = "ok"
    BY <1>2, <1>5, SectionOks
  <2> QED BY <1>3, <1>5, <2>1, <2>3, <2>4, BodyVerdictIs
<1>7. ExecVerdict(f, ins) = "ok"
  BY <1>4, <1>6, ExecOk
<1>8. CASE ins.op # "global.set"
  <2>1. UNCHANGED <<module, at, spaces, started, outcome>>
    BY <1>3, <1>7, <1>8 DEF Execute
  <2>2. Typed' /\ GlobalsKeepTheirWord' /\ StartIsNullary'
    BY <2>1 DEF Inv, Typed, GlobalsKeepTheirWord, StartIsNullary
  <2>3. Judged'
    BY <1>4, <2>1, StillJudged
  <2>4. Filling'
    BY <2>1, SameModule DEF Inv, Filling, Declares
  <2> QED BY <2>2, <2>3, <2>4 DEF Inv
<1>9. CASE ins.op = "global.set"
  <2>1. ins.imm \in Nat /\ ins.imm < n_globals /\ global_type(ins.imm).mutable
    BY <1>5, <1>6, <1>9, IndexOk, InstructionIs
  <2>2. PICK g \in Nat : g = ins.imm
    BY <2>1
  <2>3. /\ n_globals \in Nat /\ DOMAIN spaces.globals = 1..n_globals
        /\ Declares(g + 1)
    <3>1. n_globals \in Nat /\ DOMAIN spaces.globals = 1..n_globals
      BY <1>4, <1>5, Sizes, SpacesFull
    <3>2. g + 1 \in DOMAIN spaces.globals
      BY <2>1, <2>2, <3>1
    <3> QED BY <1>4, <3>1, <3>2, SpacesFull
  <2>4. PICK n \in DOMAIN spaces.globals : n = g + 1 /\ n - 1 = g
    BY <2>1, <2>2, <2>3
  <2> DEFINE old == spaces.globals[n]
             cell == [old EXCEPT !.value = [type |-> global_type(g).valtype, from |-> "set"]]
  <2>5. old \in Cells /\ old.mutable = TRUE /\ old.valtype = global_type(g).valtype
    <3>1. old \in Cells
      BY <1>4
    <3>2. [valtype |-> old.valtype, mutable |-> old.mutable] = global_type(g)
      BY <2>3, <2>4 DEF Declares
    <3>3. old.mutable \in BOOLEAN
      BY <3>1 DEF Cells
    <3> QED BY <2>1, <2>2, <3>1, <3>2, <3>3
  <2>6. /\ cell \in Cells /\ KeepsItsWord(cell)
        /\ cell.valtype = old.valtype /\ cell.mutable = old.mutable
    <3> HIDE DEF old
    <3>1. [type |-> global_type(g).valtype, from |-> "set"] \in Values
      BY <2>5 DEF Cells, Values
    <3> QED BY <2>5, <3>1 DEF Cells, KeepsItsWord
  <2>7. /\ spaces' = [spaces EXCEPT !.globals[n].value =
                        [type |-> global_type(g).valtype, from |-> "set"]]
        /\ UNCHANGED <<module, at, started, outcome>>
    BY <1>3, <1>7, <1>9, <2>2, <2>4 DEF Execute
  <2>8. spaces \in [funcs : Seq(FuncObjects), tables : Seq(Things), mems : Seq(Things),
                    globals : Seq(Cells)]
    BY DEF Inv, Typed
  <2>9. spaces' = [spaces EXCEPT !.globals = [spaces.globals EXCEPT ![n] = cell]]
    BY <2>7, <2>8
  <2> HIDE DEF cell
  <2>10. [spaces.globals EXCEPT ![n] = cell] \in Seq(Cells)
    BY <1>4, <2>6
  <2>11. /\ spaces'.globals = [spaces.globals EXCEPT ![n] = cell]
         /\ spaces'.funcs = spaces.funcs
         /\ spaces'.tables = spaces.tables /\ spaces'.mems = spaces.mems
         /\ spaces' \in [funcs : Seq(FuncObjects), tables : Seq(Things), mems : Seq(Things),
                         globals : Seq(Cells)]
    BY <2>8, <2>9, <2>10
  <2>12. /\ Len(spaces'.globals) = Len(spaces.globals)
         /\ DOMAIN spaces'.globals = DOMAIN spaces.globals
         /\ spaces'.globals[n] = cell
         /\ \A m \in DOMAIN spaces.globals : m # n => spaces'.globals[m] = spaces.globals[m]
    BY <1>4, <2>6, <2>11
  <2>13. Typed'
    BY <2>7, <2>11 DEF Inv, Typed
  <2>14. Judged'
    BY <1>4, <2>7, StillJudged
  <2>15. Filling'
    <3>1. /\ n_tables' = n_tables /\ n_mems' = n_mems /\ n_globals' = n_globals
          /\ n_funcs' = n_funcs /\ n_imported("global")' = n_imported("global")
          /\ \A h : func_type(h)' = func_type(h) /\ global_type(h)' = global_type(h)
      BY <2>7, SameModule
    <3>2. ASSUME NEW m \in DOMAIN spaces'.globals PROVE Declares(m)'
      <4>1. Declares(m)
        BY <1>4, <2>12, SpacesFull
      <4>2. /\ spaces'.globals[m].valtype = spaces.globals[m].valtype
            /\ spaces'.globals[m].mutable = spaces.globals[m].mutable
        BY <2>6, <2>12
      <4> QED BY <3>1, <4>1, <4>2 DEF Declares
    <3>3. \A h \in DOMAIN spaces'.funcs : spaces'.funcs[h].type = func_type(h - 1)'
      BY <1>4, <2>11, <3>1, SpacesFull
    <3>4. /\ Len(spaces'.tables) = n_tables' /\ Len(spaces'.mems) = n_mems'
          /\ Len(spaces'.globals) = n_globals' /\ Len(spaces'.funcs) = n_funcs'
      BY <1>4, <2>11, <2>12, <3>1, SpacesFull
    <3>5. Len(spaces'.globals) \in n_imported("global")'..n_globals'
      BY <1>4, <2>12, <3>1 DEF Inv, Filling
    <3>6. at' = 18
      BY <1>4, <2>7
    <3> QED BY <3>2, <3>3, <3>4, <3>5, <3>6 DEF Filling
  <2>16. GlobalsKeepTheirWord'
    BY <2>6, <2>12 DEF Inv, GlobalsKeepTheirWord
  <2>17. StartIsNullary'
    BY <2>7 DEF Inv, StartIsNullary
  <2> QED BY <2>13, <2>14, <2>15, <2>16, <2>17 DEF Inv
<1> QED BY <1>8, <1>9

----------------------------------------------------------------------------
(* Two sequences make an empty one only if both are empty.                 *)
LEMMA EmptyConcat ==
  ASSUME NEW S, NEW T, NEW s \in Seq(S), NEW t \in Seq(T)
  PROVE  s \o t \in Seq(S \cup T) /\ (s \o t = <<>> => s = <<>> /\ t = <<>>)
<1>1. s \in Seq(S \cup T) /\ t \in Seq(S \cup T)
  OBVIOUS
<1>2. Len(s \o t) = Len(s) + Len(t) /\ s \o t \in Seq(S \cup T)
  BY ONLY <1>1, ConcatFacts
<1>3. Len(s) \in Nat /\ Len(t) \in Nat
  OBVIOUS
<1>4. s \o t = <<>> => Len(s) = 0 /\ Len(t) = 0
  <2>1. s \o t = <<>> => Len(s \o t) = 0
    OBVIOUS
  <2> QED BY ONLY <1>2, <1>3, <2>1
<1> QED BY <1>2, <1>4

(* The frozen validator.  On its surface there is nothing to import, and   *)
(* the sections it does not have are empty.                                *)
LEMMA FrozenSections ==
  ASSUME module \in Modules, OnFrozenSurface
  PROVE  /\ DOMAIN module.imports = {} /\ DOMAIN module.tables = {}
         /\ DOMAIN module.globals = {} /\ DOMAIN module.elems = {} /\ DOMAIN module.datas = {}
         /\ n_funcs = Len(module.funcs) /\ n_mems = Len(module.mems)
<1>1. module.imports \o module.tables \o module.globals \o module.elems \o module.datas = <<>>
  BY DEF OnFrozenSurface
<1>3. PICK a \in Seq(Imports), b \in Seq(Limits), c \in Seq(Globals), d \in Seq(Segments),
           e \in Seq(Segments) :
        /\ a = module.imports /\ b = module.tables /\ c = module.globals
        /\ d = module.elems /\ e = module.datas
  BY ModuleFacts
<1>4. a = <<>> /\ b = <<>> /\ c = <<>> /\ d = <<>> /\ e = <<>>
  <2>1. PICK ab \in Seq(Imports \cup Limits) : ab = a \o b
    BY EmptyConcat
  <2>2. PICK abc \in Seq(Imports \cup Limits \cup Globals) : abc = ab \o c
    BY EmptyConcat
  <2>3. PICK abcd \in Seq(Imports \cup Limits \cup Globals \cup Segments) : abcd = abc \o d
    BY EmptyConcat
  <2>4. abcd \o e = <<>>
    BY ONLY <1>1, <1>3, <2>1, <2>2, <2>3, Zenon
  <2>5. abcd = <<>> /\ e = <<>>
    BY <2>4, EmptyConcat
  <2>6. abc = <<>> /\ d = <<>>
    BY <2>3, <2>5, EmptyConcat
  <2>7. ab = <<>> /\ c = <<>>
    BY <2>2, <2>6, EmptyConcat
  <2>8. a = <<>> /\ b = <<>>
    BY <2>1, <2>7, EmptyConcat
  <2> QED BY <2>5, <2>6, <2>7, <2>8
<1>5. /\ DOMAIN module.imports = {} /\ DOMAIN module.tables = {}
      /\ DOMAIN module.globals = {} /\ DOMAIN module.elems = {} /\ DOMAIN module.datas = {}
  BY <1>3, <1>4
<1>6. \A kind : n_imported(kind) = 0
  <2>1. \A kind : Places(kind) = {}
    BY <1>5 DEF Places
  <2> QED BY <2>1, FS_EmptySet DEF n_imported
<1>7. n_funcs = Len(module.funcs) /\ n_mems = Len(module.mems)
  <2>1. /\ n_imported("func") = 0 /\ n_imported("memory") = 0
        /\ n_funcs = n_imported("func") + Len(module.funcs)
        /\ n_mems = n_imported("memory") + Len(module.mems)
        /\ Len(module.funcs) \in Nat /\ Len(module.mems) \in Nat
    BY <1>6, Sizes
  <2> QED BY ONLY <2>1
<1> QED BY <1>5, <1>7

(* The frozen validator's check of an instruction's index is the M5 one's, *)
(* on its surface.                                                         *)
LEMMA FrozenInstrAgrees ==
  ASSUME module \in Modules, OnFrozenSurface, NEW f, NEW ins \in Instructions,
         ins.op \in FrozenOps
  PROVE  FrozenInstr(f, ins) <=> IndexVerdict(f, ins) = "ok"
<1>1. n_mems \in Nat /\ (n_mems > 0 <=> module.mems # <<>>)
  <2>1. n_mems = Len(module.mems) /\ module.mems \in Seq(Limits)
    BY FrozenSections, ModuleFacts
  <2> QED BY <2>1
<1>2. CASE ins.op = "local"
  BY <1>2 DEF FrozenInstr, IndexVerdict, Require
<1>3. CASE ins.op = "memory"
  BY <1>1, <1>3 DEF FrozenInstr, IndexVerdict, Require, Uses
<1>4. CASE ins.op = "store"
  <2>1. IndexVerdict(f, ins) = First(<<Uses(n_mems), Require(ins.align <= 2)>>)
    BY <1>4 DEF IndexVerdict
  <2>2. (Uses(n_mems) = "ok" <=> n_mems > 0) /\ (Require(ins.align <= 2) = "ok" <=> ins.align <= 2)
    BY DEF Uses, Require
  <2>3. IndexVerdict(f, ins) = "ok" <=> n_mems > 0 /\ ins.align <= 2
    BY <2>1, <2>2, FirstOfTwo
  <2> QED BY <1>1, <1>4, <2>3 DEF FrozenInstr
<1> QED BY <1>2, <1>3, <1>4 DEF FrozenOps

(* What the frozen validator accepts is what passes every section.         *)
LEMMA FrozenAgrees ==
  ASSUME module \in Modules, OnFrozenSurface
  PROVE  FrozenAccepts <=> \A k \in 1..10 : SectionOk(k)
<1>1. SectionVerdict("functypes") = "ok"
        <=> \A i \in DOMAIN module.funcs : module.funcs[i].typeidx < Len(module.types)
  BY SectionOks DEF TypeIndexVerdict, Require
<1>2. SectionVerdict("mems") = "ok"
        <=> \A i \in DOMAIN module.mems :
              LET lim == module.mems[i]
              IN  lim.min <= MaxPages /\ (lim.max = NoMax \/ lim.max \in lim.min..MaxPages)
  <2>1. ASSUME NEW lim \in Limits
        PROVE  _check_mem_limits(lim) = "ok"
                 <=> lim.min <= MaxPages /\ (lim.max = NoMax \/ lim.max \in lim.min..MaxPages)
    <3>1. lim.min \in Nat /\ lim.max \in Nat \cup {NoMax} /\ MaxPages \in Nat
      BY ModulesAssumption DEF Limits
    <3> QED BY <3>1 DEF _check_mem_limits, Require
  <2>2. \A i \in DOMAIN module.mems : module.mems[i] \in Limits
    BY ModuleFacts
  <2> QED BY <2>1, <2>2, SectionOks
<1>3. SectionVerdict("exports") = "ok"
        <=> /\ _reject_duplicate_export_names
            /\ \A e \in DOMAIN module.exports : module.exports[e].idx < Len(module.funcs)
  <2>1. module.exports \in Seq(Exports)
    BY ModuleFacts
  <2>2. Len(module.exports) \in Nat /\ DOMAIN module.exports = 1..Len(module.exports)
    BY <2>1
  <2>3. \A e \in DOMAIN module.exports : Size(module.exports[e].kind) = Len(module.funcs)
    BY FrozenSections DEF Size, OnFrozenSurface
  <2>4. SectionVerdict("exports") = "ok"
          <=> \A e \in DOMAIN module.exports :
                /\ \A d \in 1..(e - 1) : module.exports[d].name # module.exports[e].name
                /\ module.exports[e].idx < Len(module.funcs)
    BY <2>3, SectionOks DEF ExportVerdict, Require
  <2>5. _reject_duplicate_export_names
          <=> \A e \in DOMAIN module.exports :
                \A d \in 1..(e - 1) : module.exports[d].name # module.exports[e].name
    <3>1. ASSUME NEW e \in DOMAIN module.exports, NEW d \in 1..(e - 1)
          PROVE  d \in DOMAIN module.exports /\ d # e
      BY <2>2
    <3>2. ASSUME NEW e \in DOMAIN module.exports, NEW d \in DOMAIN module.exports, d # e
          PROVE  d \in 1..(e - 1) \/ e \in 1..(d - 1)
      BY <2>2, <3>2
    <3> QED BY <3>1, <3>2 DEF _reject_duplicate_export_names
  <2> QED BY <2>4, <2>5
<1>4. /\ SectionVerdict("imports") = "ok" /\ SectionVerdict("tables") = "ok"
      /\ SectionVerdict("globals") = "ok" /\ SectionVerdict("elems") = "ok"
      /\ SectionVerdict("datas") = "ok" /\ SectionVerdict("start") = "ok"
  <2>1. SectionVerdict("start") = "ok"
    BY EachSection DEF OnFrozenSurface, StartVerdict
  <2> QED BY <2>1, FrozenSections, SectionOks
<1>5. ASSUME SectionVerdict("functypes") = "ok"
      PROVE  SectionVerdict("bodies") = "ok"
               <=> \A i \in DOMAIN module.funcs :
                     \A k \in DOMAIN module.funcs[i].body :
                       FrozenInstr(module.funcs[i], module.funcs[i].body[k])
  <2>1. ASSUME NEW i \in DOMAIN module.funcs
        PROVE  BodyVerdict(module.funcs[i]) = "ok"
                 <=> \A k \in DOMAIN module.funcs[i].body :
                       FrozenInstr(module.funcs[i], module.funcs[i].body[k])
    <3>1. PICK f \in Funcs : f = module.funcs[i]
      BY ModuleFacts
    <3>2. f.body \in Seq(Instructions)
      BY DEF Funcs
    <3>3. \A k \in DOMAIN f.body : f.body[k].op \in FrozenOps
      BY <3>1 DEF OnFrozenSurface
    <3>4. ASSUME NEW k \in DOMAIN f.body
          PROVE  FrozenInstr(f, f.body[k]) <=> IndexVerdict(f, f.body[k]) = "ok"
      <4>1. f.body[k] \in Instructions
        BY <3>2
      <4> QED BY <3>3, <4>1, FrozenInstrAgrees
    <3>5. f.typeidx < Len(module.types)
      BY <1>1, <1>5, <3>1
    <3> QED BY <3>1, <3>4, <3>5, BodyVerdictIs
  <2> QED BY <2>1, SectionOks
<1>6. Len(module.mems) <= 1
  BY ModuleFacts
<1>7. (\A k \in 1..10 : SectionOk(k))
        <=> /\ SectionVerdict("functypes") = "ok" /\ SectionVerdict("mems") = "ok"
            /\ SectionVerdict("bodies") = "ok" /\ SectionVerdict("exports") = "ok"
  <2>1. \A k \in 1..10 : k \in {1, 2, 3, 4, 5, 6, 7, 8, 9, 10}
    OBVIOUS
  <2>2. \A k \in {1, 2, 3, 4, 5, 6, 7, 8, 9, 10} : k \in 1..10
    OBVIOUS
  <2> QED BY <1>4, <2>1, <2>2, SectionsAre DEF SectionOk
<1>8. FrozenAccepts
        <=> /\ SectionVerdict("functypes") = "ok" /\ SectionVerdict("mems") = "ok"
            /\ SectionVerdict("bodies") = "ok" /\ SectionVerdict("exports") = "ok"
  BY <1>1, <1>2, <1>3, <1>5, <1>6 DEF FrozenAccepts
<1> QED BY <1>7, <1>8

----------------------------------------------------------------------------
(* A module not yet looked at satisfies the invariant. *)
LEMMA InitInv ==
  ASSUME Init
  PROVE  Inv
<1>1. spaces \in [funcs : Seq(FuncObjects), tables : Seq(Things), mems : Seq(Things),
                  globals : Seq(Cells)]
  BY DEF Init
<1>2. Typed /\ Judged /\ Filling
  BY <1>1 DEF Init, Typed, Judged, Filling
<1>3. GlobalsKeepTheirWord /\ StartIsNullary
  BY DEF Init, GlobalsKeepTheirWord, StartIsNullary
<1> QED BY <1>2, <1>3 DEF Inv

(* Standing still keeps the invariant. *)
LEMMA Stutter ==
  ASSUME Inv, UNCHANGED vars
  PROVE  Inv'
<1>1. module' = module /\ at' = at /\ spaces' = spaces /\ started' = started
      /\ outcome' = outcome
  BY DEF vars
<1>2. Typed' /\ GlobalsKeepTheirWord' /\ StartIsNullary'
  BY <1>1 DEF Inv, Typed, GlobalsKeepTheirWord, StartIsNullary
<1>3. Judged'
  BY <1>1, SameVerdicts DEF Inv, Judged
<1>4. Filling'
  BY <1>1, SameModule DEF Inv, Filling, Declares
<1> QED BY <1>2, <1>3, <1>4 DEF Inv

(* What holds of the module, the stage and the index spaces throughout:    *)
(* the sections passed were found valid, and the spaces hold what the      *)
(* stages passed put there.                                                *)
THEOREM Invariance == Spec => []Inv
<1>1. Init => Inv
  BY InitInv
<1>2. Inv /\ [Next]_vars => Inv'
  BY ValidateStep, ResolveImportsStep, DefineGlobalStep, GlobalsDefinedStep, DefineFuncsStep,
     DefineExportsStep, WriteElemsStep, WriteDatasStep, StartStep, CallStep, Stutter DEF Next
<1> QED BY <1>1, <1>2, PTL DEF Spec

(* Neither the validator nor instantiate nor any instruction of an         *)
(* accepted module reads a list past its end.                              *)
THEOREM NoIndexErrorHolds == Spec => []NoIndexError
<1>1. Inv => NoIndexError
  BY DEF Inv, Typed, NoIndexError
<1> QED BY <1>1, Invariance, PTL

(* The types the validator gave the indices are the types of what the      *)
(* instance holds there.                                                   *)
THEOREM IndexSpacesHolds == Spec => []IndexSpaces
<1>1. ASSUME Inv PROVE IndexSpaces
  <2>1. TypeOK
    <3>1. at \in 1..(Len(Sections) + Len(Stages))
      BY <1>1, SectionsAre DEF Inv, Typed
    <3>2. spaces.globals \in Seq(Cells)
      BY <1>1 DEF Inv, Typed
    <3>3. \A i \in DOMAIN spaces.globals : spaces.globals[i] \in Cells
      BY <3>2
    <3> QED BY <1>1, <3>1, <3>3 DEF Inv, Typed, TypeOK, Cells
  <2>2. /\ Past("imports") => at > 11
        /\ Past("funcs") => at > 13
    <3>1. \A k \in 1..(at - 10 - 1) : k \in {1, 2, 3, 4, 5, 6, 7} /\ at > 10 + k
      BY <1>1 DEF Inv, Typed
    <3>2. ASSUME NEW stage, Past(stage)
          PROVE  \E k \in {1, 2, 3, 4, 5, 6, 7} : at > 10 + k /\ Stages[k] = stage
      BY <3>1, <3>2, SectionsAre DEF Past
    <3> QED BY <1>1, <3>2, SectionsAre DEF Inv, Typed
  <2>3. spaces.globals \in Seq(Cells) /\ spaces.funcs \in Seq(FuncObjects)
    BY <1>1 DEF Inv, Typed
  <2>4. ASSUME at > 11
        PROVE  \A g \in 1..Len(spaces.globals) :
                 [valtype |-> spaces.globals[g].valtype, mutable |-> spaces.globals[g].mutable]
                   = global_type(g - 1)
    <3>1. \A g \in DOMAIN spaces.globals : Declares(g)
      BY <1>1, <2>4 DEF Inv, Filling
    <3>2. DOMAIN spaces.globals = 1..Len(spaces.globals)
      BY <2>3
    <3> QED BY <3>1, <3>2 DEF Declares
  <2>5. ASSUME at > 13
        PROVE  /\ Len(spaces.funcs) = n_funcs
               /\ \A f \in 1..n_funcs : spaces.funcs[f].type = func_type(f - 1)
    BY <1>1, <2>5, SpacesFull
  <2>6. SpacesAsDeclared
    BY <2>2, <2>4, <2>5 DEF SpacesAsDeclared
  <2> QED BY <1>1, <2>1, <2>6 DEF Inv, IndexSpaces
<1> QED BY <1>1, Invariance, PTL

(* A global always holds a value of its type, and an immutable one the     *)
(* value it was initialised with.                                          *)
THEOREM GlobalsKeepTheirWordHolds == Spec => []GlobalsKeepTheirWord
<1>1. Inv => GlobalsKeepTheirWord
  BY DEF Inv
<1> QED BY <1>1, Invariance, PTL

(* The frozen and the M5 validator accept the same modules of the frozen   *)
(* surface.                                                                *)
THEOREM FrozenSameVerdictHolds == Spec => []FrozenSameVerdict
<1>1. ASSUME Inv PROVE FrozenSameVerdict
  <2>1. module \in Modules /\ (Valid => at > 10)
    BY <1>1, SectionsAre DEF Inv, Typed, Valid
  <2>2. Valid => \A k \in 1..10 : SectionOk(k)
    BY <1>1, <2>1, Accepted
  <2>3. outcome = "invalid" => \E k \in 1..10 : ~SectionOk(k)
    BY <1>1 DEF Inv, Judged
  <2> QED BY <2>1, <2>2, <2>3, FrozenAgrees DEF FrozenSameVerdict
<1> QED BY <1>1, Invariance, PTL

=============================================================================
