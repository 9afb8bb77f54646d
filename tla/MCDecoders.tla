------------------------------ MODULE MCDecoders ------------------------------
(***************************************************************************)
(* Both decoders over the same files: first the M5 decoder, then the       *)
(* frozen one.  The files are the encodings of a few modules, every file   *)
(* one byte away from one of them, and every short run of sections.  A file*)
(* too short to be a module is also read as an integer by every integer    *)
(* reader, from every position up to every limit.                          *)
(***************************************************************************)
EXTENDS Decoder5, LebMeaning

CONSTANTS Modules,     \* the modules that are encoded
          Spliced,     \* the sections that are put in a row, and how many
          SpliceLen,
          Noise,       \* the bytes an edit may write
          IntBytes,    \* the bytes of the files that are read as integers,
          IntLen       \* and how many

VARIABLES fp, flast, fm, fverdict
fvars == <<fp, flast, fm, fverdict>>

Old == INSTANCE Decoder1 WITH p <- fp, last_id <- flast, m <- fm, verdict <- fverdict

PairInit == /\ Init /\ fp = 0 /\ flast = 0 /\ fm = Old!EmptyModule /\ fverdict = ""
            /\ ints = Unread

NewStep == Next /\ UNCHANGED <<fvars, ints>>
OldStep == /\ verdict # "" /\ Old!Next
           /\ UNCHANGED <<p, lastOrder, m, verdict, layout, ints>>

ReadInts == /\ fverdict # "" /\ ~ints.read /\ Len(file) <= IntLen
            /\ ReadInt(file) /\ UNCHANGED <<vars, fvars>>

PairNext == NewStep \/ OldStep \/ ReadInts
PairSpec == PairInit /\ [][PairNext]_<<vars, fvars, ints>>

----------------------------------------------------------------------------
(***************************************************************************)
(* The binary format, as the bytes of a module's sections: written from    *)
(* the module, where the decoder reads.  Every integer fits its first byte.*)
(***************************************************************************)
EncVec(s, Enc(_)) == <<Len(s)>> \o FlattenSeq([i \in DOMAIN s |-> Enc(s[i])])
EncByte(b)   == <<b>>
EncBytes(s)  == EncVec(s, EncByte)
EncLimits(l) == IF l[2] = NoMax THEN <<0, l[1]>> ELSE <<1, l[1], l[2]>>

EncImm(kind, i) ==
  CASE kind \in {"s32", "s64"}       -> <<i[1] % 128>>
    [] kind = "blocktype" -> IF i[1] = "type" THEN <<i[2]>>
                             ELSE IF i[2] = <<>> THEN <<64>> ELSE i[2]
    [] kind = "brtable"   -> EncBytes(i[1]) \o <<i[2]>>
    [] kind = "memidx"    -> <<0>>
    [] kind = "callind"   -> <<i[1], 0>>
    [] OTHER              -> i

EncInstr(x) == <<x[1]>> \o (IF x[1] = Prefix THEN x[2] ELSE EncImm(OPCODES[x[1]], x[2]))
EncBody(body) == FlattenSeq([i \in DOMAIN body |-> EncInstr(body[i])])
EncConst(body) == EncBody(body) \o <<End>>

EncType(t)   == <<96>> \o EncBytes(t[1]) \o EncBytes(t[2])
EncTable(l)  == <<112>> \o EncLimits(l)
EncImport(im) ==
  EncBytes(im.module) \o EncBytes(im.field) \o <<im.kind>> \o
  (CASE im.kind = 0 -> <<im.desc>>           [] im.kind = 1 -> EncTable(im.desc)
     [] im.kind = 2 -> EncLimits(im.desc)    [] im.kind = 3 -> im.desc)
EncGlobal(g) == g[1] \o EncConst(g[2])
EncExport(e) == EncBytes(e[1]) \o <<e[2], e[3]>>
EncElem(e)   == <<0>> \o EncConst(e[1]) \o EncBytes(e[2])
EncData(d)   == <<0>> \o EncConst(d[1]) \o EncBytes(d[2])
EncCode(f)   == LET locals == <<Len(f[1])>> \o FlattenSeq([i \in DOMAIN f[1] |-> <<1, f[1][i]>>])
                    bytes  == locals \o EncBody(f[2])
                IN <<Len(bytes)>> \o bytes

SectionIds == <<1, 2, 3, 4, 5, 6, 7, 8, 9, 12, 10, 11>>     \* in file order

Payload(id, mod) ==
  CASE id = 1  -> EncVec(mod.types, EncType)
    [] id = 2  -> EncVec(mod.imports, EncImport)
    [] id = 3  -> EncBytes(mod.func_typeidx)
    [] id = 4  -> EncVec(mod.tables, EncTable)
    [] id = 5  -> EncVec(mod.mems, EncLimits)
    [] id = 6  -> EncVec(mod.globals, EncGlobal)
    [] id = 7  -> EncVec(mod.exports, EncExport)
    [] id = 8  -> <<mod.start>>
    [] id = 9  -> EncVec(mod.elems, EncElem)
    [] id = 12 -> <<mod.datacount>>
    [] id = 10 -> EncVec(mod.funcs, EncCode)
    [] id = 11 -> EncVec(mod.datas, EncData)

\* A section is written when there is something in it.
Written(id, mod) == Payload(id, mod) \notin {<<0>>, <<None>>}
EncSection(id, mod) ==
  IF Written(id, mod) THEN <<id, Len(Payload(id, mod))>> \o Payload(id, mod) ELSE <<>>
Encoding(mod) ==
  Magic \o Version \o FlattenSeq([i \in 1..12 |-> EncSection(SectionIds[i], mod)])

\* A file with one byte replaced, removed or added.
Edits(f) ==
  {[f EXCEPT ![i] = b] : i \in 1..Len(f), b \in Noise}
  \cup {RemoveAt(f, i) : i \in 1..Len(f)}
  \cup {InsertAt(f, i, b) : i \in 1..Len(f), b \in Noise}

Runs == UNION {[1..n -> Spliced] : n \in 0..SpliceLen}

AllFiles == {Encoding(mod) : mod \in Modules}
            \cup UNION {Edits(Encoding(mod)) : mod \in Modules}
            \cup {Magic \o Version \o FlattenSeq(s) : s \in Runs}
            \cup UNION {[1..n -> IntBytes] : n \in 0..IntLen}

----------------------------------------------------------------------------
\* The types of the two decoders' states.
TypeOK == /\ p \in 0..Len(file) /\ lastOrder \in 0..12
          /\ m.start >= None /\ m.datacount >= None
          /\ DOMAIN m = DOMAIN EmptyModule
          /\ fp \in 0..Len(file)

\* Every module on the surface, written out, is accepted and read back whole:
\* decode() inverts the format.
DecodesEveryModule ==
  \A mod \in Modules : file = Encoding(mod) /\ verdict # "" =>
    verdict = "ok" /\ m = mod

\* The bytes of a code entry say this function, whatever runs its locals are in.
Says(bytes, f) ==
  LET k    == bytes[1]
      run  == [i \in 1..k |-> [j \in 1..bytes[2 * i] |-> bytes[2 * i + 1]]]
  IN /\ FlattenSeq(run) = f[1]
     /\ SubSeq(bytes, 2 + 2 * k, Len(bytes)) = EncBody(f[2])

EntriesSay(bytes, fs) ==
  LET at == FoldLeft(LAMBDA a, i : Append(a, a[i] + 1 + bytes[a[i]]),
                     <<2>>, [i \in DOMAIN fs |-> i])
  IN /\ bytes[1] = Len(fs) /\ at[Len(fs) + 1] = Len(bytes) + 1
     /\ \A i \in DOMAIN fs : Says(SubSeq(bytes, at[i] + 1, at[i + 1] - 1), fs[i])

OneByteInts == \A i \in DOMAIN file : file[i] < 128 \/ file[i] = Prefix

\* Nothing in an accepted file is skipped, read twice or left over: its sections
\* tile it, each at most once and in the order of the format, custom ones apart,
\* and each says exactly what the module holds (integers of one byte).
AcceptedSaysTheModule ==
  verdict = "ok" =>
    LET known == SelectSeq(layout, LAMBDA s : s.id # 0)
        Pos(id) == CHOOSE i \in 1..12 : SectionIds[i] = id
        here(id) == \E i \in DOMAIN known : known[i].id = id
    IN /\ \A i \in DOMAIN layout :
            /\ layout[i].at = IF i = 1 THEN 8 ELSE layout[i - 1].to
            /\ layout[i].at < layout[i].from /\ layout[i].from <= layout[i].to
       /\ Len(file) = IF layout = <<>> THEN 8 ELSE Last(layout).to
       /\ \A i, j \in DOMAIN known : i < j => Pos(known[i].id) < Pos(known[j].id)
       /\ \A i \in 1..12 : Written(SectionIds[i], m) => here(SectionIds[i])
       /\ OneByteInts => \A i \in DOMAIN known :
            LET s == known[i]
                bytes == SubSeq(file, s.from + 1, s.to)
            IN IF s.id = 10 THEN EntriesSay(bytes, m.funcs)
                            ELSE bytes = Payload(s.id, m)

\* Decoding is the inverse of writing out, both ways.
DecodesExactly == TypeOK /\ DecodesEveryModule /\ AcceptedSaysTheModule

\* No accepted module has two tables or two memories, however they are split
\* between imports and definitions; an import-only module is no way around it.
SingleTableAndMemory ==
  verdict = "ok" => /\ Len(Imported(m, 1)) + Len(m.tables) <= 1
                    /\ Len(Imported(m, 2)) + Len(m.mems) <= 1

Depth(body) ==
  FoldLeft(LAMBDA d, x : CASE x[1] \in {Block, Loop, If} -> d + 1
                           [] x[1] = End -> d - 1
                           [] OTHER -> d, 0, body)

\* The validator and the machine start from bodies that close: in every accepted
\* function some prefix closes one block more than it opens, and no constant
\* expression does.
BodiesClose ==
  verdict = "ok" =>
    /\ \A i \in DOMAIN m.funcs :
         \E n \in 0..Len(m.funcs[i][2]) : Depth(SubSeq(m.funcs[i][2], 1, n)) = -1
    /\ \A g \in Range(m.globals) : \A n \in 0..Len(g[2]) : Depth(SubSeq(g[2], 1, n)) >= 0

\* What the validator and the machine take for granted of a decoded module.
WellFormed == SingleTableAndMemory /\ BodiesClose

\* What each decoder says of a function and of the exports.
FuncExports(es) ==
  {<<es[i][1], es[i][3]>> : i \in {k \in DOMAIN es :
      \A j \in DOMAIN es : j > k => es[j][1] # es[k][1]}}

\* The M5 decoder never reads a frozen-scope binary differently: what the frozen
\* decoder accepts it accepts as the same module, or rejects for one of the
\* checks the frozen decoder does not make; what it accepts the frozen decoder
\* accepts, calls unsupported, or rejects for a type index.
FrozenScopeReadsTheSame ==
  fverdict # "" =>
    /\ fverdict = "ok" =>
         /\ verdict \in {"ok", TooLarge, TooLong, TooManyLocals, EndExpected}
         /\ verdict = "ok" =>
              /\ m.types = fm.types /\ m.func_typeidx = fm.func_typeidx
              /\ m.mems = fm.mems /\ m.funcs = fm.funcs
              /\ FuncExports(m.exports) = fm.exports
    /\ verdict = "ok" => fverdict \in {"ok", Beyond, "typeidx out of range"}

----------------------------------------------------------------------------
\* The instances: modules between them have every section and every immediate.
I32 == 127   I64 == 126   F64 == 124
i32const(n) == <<65, <<n>>>>

FrozenModule ==
  [EmptyModule EXCEPT
     !.types = << <<<<I32, I64>>, <<I32>>>> >>, !.func_typeidx = <<0>>,
     !.exports = << <<<<5>>, 0, 0>>, <<<<5>>, 0, 1>> >>,
     !.funcs = << << <<I64>>, << i32const(-3), <<15, <<>>>>, <<11, <<>>>> >> >> >>]

FrozenBlocks ==
  [EmptyModule EXCEPT
     !.types = << <<<<>>, <<>>>> >>, !.func_typeidx = <<0>>, !.mems = << <<1, 2>> >>,
     !.funcs = << << <<>>,
        << <<2, <<"val", <<I32>>>>>>, <<14, <<<<0, 1>>, 1>>>>, <<11, <<>>>>,
           <<54, <<2, 4>>>>, <<63, <<>>>>, <<11, <<>>>> >> >> >>]

ImportModule ==
  [EmptyModule EXCEPT
   !.imports = << [module |-> <<5>>, field |-> <<>>, kind |-> 0, desc |-> 0],
                  [module |-> <<>>, field |-> <<6>>, kind |-> 1, desc |-> <<0, NoMax>>],
                  [module |-> <<>>, field |-> <<>>, kind |-> 2, desc |-> <<1, 1>>],
                  [module |-> <<>>, field |-> <<7>>, kind |-> 3, desc |-> <<I32, 0>>] >>,
   !.globals = << << <<I32, 1>>, <<i32const(7)>> >>, << <<I64, 0>>, << <<66, <<-1>>>> >> >> >>,
   !.exports = << <<<<7>>, 3, 1>> >>, !.start = 1]

CodeModule ==
  [EmptyModule EXCEPT
   !.func_typeidx = <<0, 0>>,
   !.funcs = << << <<>>, << <<4, <<"type", 0>>>>, <<17, <<0>>>>,
                            <<11, <<>>>>, <<11, <<>>>> >> >>,
                << <<I32, I32>>, << <<67, <<0, 0, 1, 63>>>>, <<Prefix, <<3>>>>,
                                    <<64, <<>>>>, <<11, <<>>>> >> >> >>,
   !.datas = << << <<i32const(2)>>, <<1, 2, 3>> >> >>, !.datacount = 1]

TableModule ==
  [EmptyModule EXCEPT
     !.imports = << [module |-> <<5>>, field |-> <<>>, kind |-> 2, desc |-> <<1, NoMax>>] >>,
     !.tables = << <<1, 2>> >>,
     !.elems = << << << <<35, <<0>>>> >>, <<>> >> >>]

TheModules == {EmptyModule, FrozenModule, FrozenBlocks, ImportModule, CodeModule,
                 TableModule}
TheNoise   == {0, 1, 2, 3, 4, 11, 64, 65, 96, 111, 112, 127, 128}

\* Payloads on both sides of what ten bits leave of a second byte, and of a sign.
TheIntBytes == LET payloads == {0, 3, 4, 7, 8, 63, 64, 123, 124}
               IN payloads \cup {n + 128 : n \in payloads}

TheSpliced ==
  {EncSection(id, FrozenModule) : id \in {1, 3, 10}}
  \cup {EncSection(id, CodeModule) : id \in {11, 12}}
  \cup {EncSection(id, ImportModule) : id \in {2, 8}}
  \cup {EncSection(id, TableModule) : id \in {2, 4, 9}}
  \cup {<<0, 2, 1, 5>>, <<0, 2, 1, 200>>, <<0, 1, 3>>, <<5, 3, 1, 0, 1>>, <<3, 1, 0>>,
        <<10, 1, 0>>, <<13, 0>>, <<6, 2, 0>>,
        <<2, 13, 2, 0, 0, 2, 0, 1, 0, 0, 1, 112, 0, 1, 0>>,
        <<2, 11, 2, 0, 0, 1, 112, 0, 1, 0, 0, 1, 112, 0, 1>>}
=============================================================================
