------------------------------- MODULE Decoder5 -------------------------------
(***************************************************************************)
(* interp5/decoder.py: the M5 decoder.  The state is that of decode(): the *)
(* outer reader's position p, the order of the last section, the Module m  *)
(* built so far, and the verdict -- "" while it runs, "ok", or the text of *)
(* the exception.  A section is decoded in one step, by a sub-reader that  *)
(* ends where the section says it ends; layout is history, the sections    *)
(* passed so far and where their contents lie.                             *)
(*                                                                         *)
(* Bytes are the real ones.  Integer widths and the bound on locals are    *)
(* scaled: W32, W33, W64 for 32, 33 and 64 bits, MaxLocals for 1_000_000.  *)
(* An instruction keeps its opcode byte in place of the mnemonic.          *)
(***************************************************************************)
EXTENDS ByteReader, FiniteSets

CONSTANTS W32, W33, W64, MaxLocals, Files

ASSUME DecoderAssumption == Group = 7 /\ W32 % 7 # 0 /\ W33 % 7 # 0 /\ W64 % 7 # 0

VARIABLES file, p, lastOrder, m, verdict, layout
vars == <<file, p, lastOrder, m, verdict, layout>>

None == -1

EmptyModule ==
  [types |-> <<>>, imports |-> <<>>, func_typeidx |-> <<>>, tables |-> <<>>,
   mems |-> <<>>, globals |-> <<>>, exports |-> <<>>, start |-> None,
   elems |-> <<>>, funcs |-> <<>>, datas |-> <<>>, datacount |-> None]

Imported(mod, kind) == SelectSeq(mod.imports, LAMBDA im : im.kind = kind)

MagicError     == "magic header not detected"
VersionError   == "unknown binary version"
SectionId      == "malformed section id"
LengthOob      == "length out of bounds"
OutOfOrder     == "section out of order"
SizeMismatch   == "section size mismatch"
EndExpected    == "END opcode expected"
TooManyLocals  == "too many locals"
FuncCode       == "function and code section have inconsistent lengths"
DataCountError == "data count and data section have inconsistent lengths"

Order(id) == CASE id <= 9 -> id [] id = 12 -> 10 [] id = 10 -> 11 [] id = 11 -> 12

U32(r) == Uleb(r, W32)
Vec(r, Item(_)) == LET n == U32(r) IN Items(n, n.v, Item)

----------------------------------------------------------------------------
(* Value types, limits, block types *)

ValTypes == {124, 125, 126, 127}           \* f64, f32, i64, i32
RefTypes == {111, 112}                     \* externref, funcref

Valtype(r) ==
  LET b == Byte(r)
  IN Check(Check(b, b.v \notin RefTypes, Beyond), b.v \in ValTypes,
           "malformed value type")

NoMax == None
Limits(r) ==
  LET flags == Byte(r)
      mn    == U32(flags)
      mx    == U32(mn)
  IN CASE ~Ok(flags)               -> flags
       [] Ok(flags) /\ flags.v = 0 -> Return(mn, <<mn.v, NoMax>>)
       [] Ok(flags) /\ flags.v = 1 -> Return(mx, <<mn.v, mx.v>>)
       [] Ok(flags) /\ flags.v \in {3, 4, 5} -> Raise(flags, Beyond)
       [] OTHER -> Raise(flags, "malformed limits flags")

Blocktype(r) ==
  LET b   == Byte(r)
      idx == Sleb(r, W33)
  IN CASE ~Ok(b)                     -> b
       [] Ok(b) /\ b.v = 64          -> Return(b, <<"val", <<>>>>)
       [] Ok(b) /\ b.v \in ValTypes  -> Return(b, <<"val", <<b.v>>>>)
       [] Ok(b) /\ b.v \in RefTypes  -> Raise(r, Beyond)
       [] OTHER -> Return(Check(idx, idx.v >= 0, "malformed block type"),
                          <<"type", idx.v>>)

----------------------------------------------------------------------------
(* Instructions *)

\* Opcodes that nest.
Block == 2
Loop == 3
If == 4
End == 11

OPCODES ==
  [b \in {0, 1, 5, 11, 15, 26, 27} \cup 69..196 |-> "none"]
  @@ [b \in {12, 13, 16} \cup 32..36 |-> "u32"]
  @@ (65 :> "s32" @@ 66 :> "s64" @@ 67 :> "f32" @@ 68 :> "f64")
  @@ [b \in {Block, Loop, If} |-> "blocktype"]
  @@ (14 :> "brtable" @@ 17 :> "callind")
  @@ [b \in 40..62 |-> "memarg"]
  @@ [b \in {63, 64} |-> "memidx"]

Prefix   == 252                \* 0xFC
TruncSat == 0..7               \* _FC_SUBOPS

\* The immediates of an opcode of each kind, in the order they are read.
Alone(i) == Return(i, <<i.v>>)
Immediate(b, kind) ==
  LET x == U32(b)
      z == Byte(b)
      w == Byte(x)
  IN CASE kind = "none"      -> Return(b, <<>>)
       [] kind = "u32"       -> Alone(x)
       [] kind = "s32"       -> Alone(Sleb(b, W32))
       [] kind = "s64"       -> Alone(Sleb(b, W64))
       [] kind = "f32"       -> Bytes(b, 4)
       [] kind = "f64"       -> Bytes(b, 8)
       [] kind = "blocktype" -> Blocktype(b)
       [] kind = "brtable"   -> Pair(b, LAMBDA t : Vec(t, U32), U32)
       [] kind = "memarg"    -> Pair(b, U32, U32)
       [] kind = "memidx"    -> Return(Check(z, z.v = 0, Beyond), <<>>)
       [] kind = "callind"   -> Return(Check(w, w.v = 0, Beyond), <<x.v>>)

Instr(r) ==
  LET b   == Byte(r)
      sub == U32(b)
      With(imm) == Return(imm, <<b.v, imm.v>>)
  IN CASE ~Ok(b) -> b
       [] Ok(b) /\ b.v = Prefix ->
            Return(Check(sub, sub.v \in TruncSat, Beyond), <<Prefix, <<sub.v>>>>)
       [] Ok(b) /\ b.v # Prefix /\ b.v \notin DOMAIN OPCODES -> Raise(b, Beyond)
       [] OTHER -> With(Immediate(b, OPCODES[b.v]))

\* One turn of the two instruction loops, with the instruction x that it read;
\* depth and closed are their locals.  _const_expr returns at the end of depth 0,
\* _decode_instrs runs on.
Took(s, x, ReturnsAtEnd) ==
  LET op   == x.v[1]
      last == op = End /\ s.v.depth = 0
  IN Return(x,
       [body   |-> IF last /\ ReturnsAtEnd THEN s.v.body ELSE Append(s.v.body, x.v),
        depth  |-> CASE op \in {Block, Loop, If} -> s.v.depth + 1
                     [] op = End /\ s.v.depth > 0 -> s.v.depth - 1
                     [] OTHER -> s.v.depth,
        closed |-> s.v.closed \/ last,
        done   |-> last /\ ReturnsAtEnd])

Turn(s, ReturnsAtEnd) == Took(s, Instr(s), ReturnsAtEnd)

Unopened == [body |-> <<>>, depth |-> 0, closed |-> FALSE, done |-> FALSE]

TheBody(s) == Return(s, s.v.body)
ConstExpr(r) ==
  TheBody(Repeat(Return(r, Unopened), r.limit - r.p + 1, LAMBDA t : Turn(t, TRUE)))

\* Mutant: a body may run out before its end.
DecodeInstrs_open(r, end) ==
  LET Read(s) == TheBody(Check(s, s.p = end, SizeMismatch))
  IN Read(Repeat(Return(r, Unopened), r.limit - r.p + 1,
                 LAMBDA t : IF t.p < end THEN Turn(t, FALSE) ELSE t))

DecodeInstrs(r, end) ==
  LET Read(s) == Check(Check(s, s.p = end, SizeMismatch), s.v.closed, EndExpected)
  IN TheBody(Read(Repeat(Return(r, Unopened), r.limit - r.p + 1,
                         LAMBDA t : IF t.p < end THEN Turn(t, FALSE) ELSE t)))

----------------------------------------------------------------------------
(* The entry of each section; an import's and an export's name is its bytes *)

NameU32(r) == Name(r, W32)

FuncTypeEntry(r) ==
  LET form == LET b == Byte(r) IN Check(b, b.v = 96, Beyond)
      Valtypes(s) == Vec(s, Valtype)
  IN Pair(form, Valtypes, Valtypes)

TableType(r) ==
  LET et == Byte(r) IN Limits(Check(et, et.v = 112, Beyond))

GlobalType(r) ==
  LET Mutability(s) == LET b == Byte(s) IN Check(b, b.v <= 1, "malformed mutability")
  IN Pair(r, Valtype, Mutability)

ImportEntry(r) ==
  LET Desc(kind) ==
        CASE ~Ok(kind)                -> kind
          [] Ok(kind) /\ kind.v = 0   -> U32(kind)
          [] Ok(kind) /\ kind.v = 1   -> TableType(kind)
          [] Ok(kind) /\ kind.v = 2   -> Limits(kind)
          [] Ok(kind) /\ kind.v = 3   -> GlobalType(kind)
          [] OTHER -> Raise(kind, "malformed import kind")
      With(names, im) == Return(im, [module |-> names[1], field |-> names[2],
                                     kind |-> im.v[1], desc |-> im.v[2]])
      Rest(names) == With(names.v, Pair(names, Byte, Desc))
  IN Rest(Pair(r, NameU32, NameU32))

WithImports(mod, s) ==
  LET with == [mod EXCEPT !.imports = s.v]
      Few(kind) == Len(Imported(with, kind)) <= 1
  IN Return(Check(Check(s, Few(1), Beyond), Few(2), Beyond), with)
ImportSection(r, mod) == WithImports(mod, Vec(r, ImportEntry))

\* Tables and memories: at most one, imports included, checked before any entry.
AtMostOne(r, mod, kind, Entry(_)) ==
  LET n == U32(r)
  IN Items(Check(n, n.v + Len(Imported(mod, kind)) <= 1, Beyond), n.v, Entry)

GlobalEntry(r) ==
  Pair(r, GlobalType, ConstExpr)

ExportEntry(r) ==
  LET name == NameU32(r)
      kind == LET k == Byte(name) IN Check(k, k.v <= 3, "malformed export kind")
      idx  == U32(kind)
  IN Return(idx, <<name.v, kind.v, idx.v>>)

Active(r) == LET flags == U32(r) IN Check(flags, flags.v = 0, Beyond)

ElemEntry(r) == Pair(Active(r), ConstExpr, LAMBDA s : Vec(s, U32))

DataEntry(r) == Pair(Active(r), ConstExpr, LAMBDA s : Counted(U32(s)))

\* One run of n equal locals; s carries the list built by the runs before.
LocalRun(s) ==
  LET n  == U32(s)
      fits == Check(n, n.v + Len(s.v) <= MaxLocals, TooManyLocals)
      vt == Valtype(fits)
  IN Return(vt, s.v \o [i \in 1..n.v |-> vt.v])

Locals(r) ==
  LET runs == U32(r)
  IN IF ~Ok(runs) THEN runs
     ELSE Looped(Return(runs, <<>>), runs.v, LAMBDA s : IF Ok(s) THEN LocalRun(s) ELSE s)

EntryOf(size) ==
  LET end == size.p + size.v
  IN Pair(Check(size, end <= size.limit, LengthOob), Locals, LAMBDA s : DecodeInstrs(s, end))
CodeEntry(r) == EntryOf(U32(r))

----------------------------------------------------------------------------
Init == /\ file \in Files
        /\ p = 0 /\ lastOrder = 0 /\ m = EmptyModule /\ verdict = ""
        /\ layout = <<>>

Magic   == <<0, 97, 115, 109>>
Version == <<1, 0, 0, 0>>

Preamble ==
  /\ verdict = "" /\ p = 0
  /\ LET magic   == Bytes(Reader(file, 0, Len(file)), 4)
         good    == Check(magic, magic.v = Magic, MagicError)
         version == Bytes(good, 4)
         r       == Check(version, version.v = Version, VersionError)
     IN /\ verdict' = r.err
        /\ p' = IF Ok(r) THEN r.p ELSE p
  /\ UNCHANGED <<file, lastOrder, m, layout>>

\* The section's header: its id and the reader of its contents.
Header == LET id  == Byte(Reader(file, p, Len(file)))
              known == Check(id, id.v <= 12, SectionId)
              n   == U32(known)
              r   == Check(n, n.p + n.v <= Len(file), LengthOob)
          IN [id |-> id.v, r |-> [r EXCEPT !.limit = IF Ok(r) THEN r.p + r.v ELSE r.p]]

InSections == verdict = "" /\ p > 0 /\ p < Len(file)

Passed(h) == Append(layout, [id |-> h.id, at |-> p, from |-> h.r.p, to |-> h.r.limit])

BadHeader ==
  /\ InSections /\ ~Ok(Header.r)
  /\ verdict' = Header.r.err
  /\ UNCHANGED <<file, p, lastOrder, m, layout>>

\* A custom section: its name is read, its contents are skipped.
CustomSection ==
  /\ InSections
  /\ LET h == Header
         r == NameU32(h.r)
     IN /\ Ok(h.r) /\ h.id = 0
        /\ verdict' = r.err
        /\ p' = IF Ok(r) THEN h.r.limit ELSE p
        /\ layout' = IF Ok(r) THEN Passed(h) ELSE layout
  /\ UNCHANGED <<file, lastOrder, m>>

\* The module after the section of this id.
Decoded(id, r) ==
  LET Field(f, s) == Return(s, [m EXCEPT ![f] = s.v])
  IN CASE id = 1  -> Field("types", Vec(r, FuncTypeEntry))
       [] id = 2  -> ImportSection(r, m)
       [] id = 3  -> Field("func_typeidx", Vec(r, U32))
       [] id = 4  -> Field("tables", AtMostOne(r, m, 1, TableType))
       [] id = 5  -> Field("mems", AtMostOne(r, m, 2, Limits))
       [] id = 6  -> Field("globals", Vec(r, GlobalEntry))
       [] id = 7  -> Field("exports", Vec(r, ExportEntry))
       [] id = 8  -> Field("start", U32(r))
       [] id = 9  -> Field("elems", Vec(r, ElemEntry))
       [] id = 10 -> Field("funcs", Vec(r, CodeEntry))
       [] id = 11 -> Field("datas", Vec(r, DataEntry))
       [] id = 12 -> Field("datacount", U32(r))

\* Mutant: a section may say more than its contents need.
Whole_slack(r, end) == r

Whole(r, end) == Check(r, r.p = end, SizeMismatch)

Ends(h, r) ==
  /\ verdict' = r.err
  /\ IF Ok(r) THEN p' = h.r.limit /\ m' = r.v /\ layout' = Passed(h)
              ELSE UNCHANGED <<p, m, layout>>

KnownSection ==
  /\ InSections
  /\ LET h == Header
         inOrder == Check(h.r, Order(h.id) > lastOrder, OutOfOrder)
     IN /\ Ok(h.r) /\ h.id # 0
        /\ IF Ok(inOrder) THEN lastOrder' = Order(h.id) ELSE UNCHANGED lastOrder
        /\ Ends(h, Whole(Decoded(h.id, inOrder), h.r.limit))
  /\ UNCHANGED file

\* The checks that span sections, once the file is read to its end.  The final
\* loop hands every function its type index, unchecked here.
Finish ==
  /\ verdict = "" /\ p > 0 /\ p >= Len(file)
  /\ verdict' = CASE Len(m.func_typeidx) # Len(m.funcs) -> FuncCode
                  [] /\ Len(m.func_typeidx) = Len(m.funcs)
                     /\ m.datacount \notin {None, Len(m.datas)} -> DataCountError
                  [] OTHER -> "ok"
  /\ UNCHANGED <<file, p, lastOrder, m, layout>>

Next == Preamble \/ BadHeader \/ CustomSection \/ KnownSection \/ Finish

Spec == Init /\ [][Next]_vars /\ WF_vars(Next)
=============================================================================
