------------------------------- MODULE Decoder1 -------------------------------
(***************************************************************************)
(* interp/decoder.py: the frozen decoder of M1-M3.  One reader for the     *)
(* whole file: a section's length is compared with what was read only      *)
(* after the section, and a code entry's size only after its body.         *)
(* Same conventions as Decoder5.  "crash" is an exception that is neither  *)
(* DecodeError nor Unsupported (a name that is not UTF-8).                 *)
(***************************************************************************)
EXTENDS ByteReader

CONSTANT Files

VARIABLES file, p, last_id, m, verdict
vars == <<file, p, last_id, m, verdict>>

NoMax == -1

EmptyModule == [types |-> <<>>, func_typeidx |-> <<>>, mems |-> <<>>,
                exports |-> {}, funcs |-> <<>>]

Vec(r, Item(_)) == LET n == FrozenUleb(r) IN Items(n, n.v, Item)

VALTYPES == {126, 127}                           \* i64, i32
SECTIONS == {1, 3, 5, 7, 10}

Valtype(r) == LET b == Byte(r) IN Check(b, b.v \in VALTYPES, Beyond)

Blocktype(r) ==
  LET b == Byte(r)
  IN Return(Check(b, b.v = 64 \/ b.v \in VALTYPES, Beyond),
            <<"val", IF b.v = 64 THEN <<>> ELSE <<b.v>>>>)

FuncTypeEntry(r) ==
  LET form == LET b == Byte(r) IN Check(b, b.v = 96, Beyond)
      Valtypes(s) == Vec(s, Valtype)
  IN Pair(form, Valtypes, Valtypes)

Limits(r) ==
  LET flags == LET b == Byte(r) IN Check(b, b.v \in {0, 1}, Beyond)
      mn    == FrozenUleb(flags)
      mx    == FrozenUleb(mn)
  IN IF ~Ok(flags) THEN flags
     ELSE IF flags.v = 0 THEN Return(mn, <<mn.v, NoMax>>)
     ELSE Return(mx, <<mn.v, mx.v>>)

MemorySection(r) ==
  LET n == FrozenUleb(r) IN Items(Check(n, n.v <= 1, Beyond), n.v, Limits)

\* An entry of the export map: the last entry of a name wins.
ExportEntry(s) ==
  LET Named(raw) == Check(raw, Utf8(raw.v), "crash")
      Index(kind) == LET i == FrozenUleb(kind) IN Check(i, kind.v = 0, Beyond)
  IN Pair(s, LAMBDA r : Named(Counted(FrozenUleb(r))), LAMBDA r : Index(Byte(r)))

Overwritten(entries) ==
  SelectSeq([i \in DOMAIN entries |-> <<i, entries[i]>>],
            LAMBDA x : \A j \in DOMAIN entries :
                         j > x[1] => entries[j][1] # x[2][1])

ExportMap(s) == LET live == Overwritten(s.v) IN Return(s, {live[i][2] : i \in DOMAIN live})
ExportSection(r) == ExportMap(Vec(r, ExportEntry))

OPCODES ==
  [b \in {1, 5, 11, 15, 26} \cup 69..90 \cup 103..138 \cup {167, 172, 173}
         \cup 192..196 |-> "none"]
  @@ [b \in {12, 13, 32, 33} |-> "u32"]
  @@ (65 :> "s32" @@ 66 :> "s64" @@ 14 :> "brtable" @@ 54 :> "memarg")
  @@ [b \in {2, 3, 4} |-> "blocktype"]
  @@ [b \in {63, 64} |-> "memidx"]

CONSTANTS W32, W64

Alone(i) == Return(i, <<i.v>>)
Immediate(b, kind) ==
  CASE kind = "none"      -> Return(b, <<>>)
    [] kind = "u32"       -> Alone(FrozenUleb(b))
    [] kind = "s32"       -> Alone(FrozenSleb(b, W32))
    [] kind = "s64"       -> Alone(FrozenSleb(b, W64))
    [] kind = "blocktype" -> Blocktype(b)
    [] kind = "brtable"   -> Pair(b, LAMBDA t : Vec(t, FrozenUleb), FrozenUleb)
    [] kind = "memarg"    -> Pair(b, FrozenUleb, FrozenUleb)
    [] kind = "memidx"    -> LET z == Byte(b) IN Return(Check(z, z.v = 0, Beyond), <<>>)

Instr(r) ==
  LET b == Byte(r)
      known == Check(b, b.v \in DOMAIN OPCODES, Beyond)
      With(imm) == Return(imm, <<b.v, imm.v>>)
  IN IF ~Ok(known) THEN known ELSE With(Immediate(b, OPCODES[b.v]))

Overran == "instruction stream overran code-entry boundary"

Took(s, x) == Return(x, Append(s.v, x.v))
NotOverrun(s, end) == Check(s, s.p = end, Overran)

DecodeInstrs(r, end) ==
  IF ~Ok(r) THEN r
  ELSE NotOverrun(Looped(Return(r, <<>>), r.limit - r.p + 1,
                       LAMBDA t : IF Ok(t) /\ t.p < end THEN Took(t, Instr(t)) ELSE t), end)

LocalRun(s) == LET n  == FrozenUleb(s)
                   vt == Valtype(n)
               IN Return(vt, s.v \o [i \in 1..n.v |-> vt.v])

Locals(r) ==
  LET runs == FrozenUleb(r)
  IN IF ~Ok(runs) THEN runs
     ELSE Looped(Return(runs, <<>>), runs.v, LAMBDA s : IF Ok(s) THEN LocalRun(s) ELSE s)

EntryOf(size) == Pair(size, Locals, LAMBDA s : DecodeInstrs(s, size.p + size.v))
CodeEntry(r) == EntryOf(FrozenUleb(r))

----------------------------------------------------------------------------
Init == /\ file \in Files
        /\ p = 0 /\ last_id = 0 /\ m = EmptyModule /\ verdict = ""

Preamble ==
  /\ verdict = "" /\ p = 0
  /\ LET magic   == Bytes(Reader(file, 0, Len(file)), 4)
         version == Bytes(Check(magic, magic.v = <<0, 97, 115, 109>>, "bad magic"), 4)
         r       == Check(version, version.v = <<1, 0, 0, 0>>, Beyond)
     IN /\ verdict' = r.err
        /\ p' = IF Ok(r) THEN r.p ELSE p
  /\ UNCHANGED <<file, last_id, m>>

Decoded(id, r) ==
  LET Field(f, s) == Return(s, [m EXCEPT ![f] = s.v])
  IN CASE id = 1  -> Field("types", Vec(r, FuncTypeEntry))
       [] id = 3  -> Field("func_typeidx", Vec(r, FrozenUleb))
       [] id = 5  -> Field("mems", MemorySection(r))
       [] id = 7  -> Field("exports", ExportSection(r))
       [] id = 10 -> Field("funcs", Vec(r, CodeEntry))

\* Mutant: the reader skips to the declared end whatever was read.
Whole_skips(r, end) == IF Ok(r) THEN [r EXCEPT !.p = end] ELSE r

Whole(r, end) == Check(r, r.p = end, "length mismatch")

Ends(r) ==
  /\ verdict' = r.err
  /\ IF Ok(r) THEN p' = r.p /\ m' = r.v ELSE UNCHANGED <<p, m>>

Section ==
  /\ verdict = "" /\ p > 0 /\ p < Len(file)
  /\ LET id  == Byte(Reader(file, p, Len(file)))
         n   == FrozenUleb(id)
         in  == Check(n, id.v \in SECTIONS, Beyond)
         up  == Check(in, id.v > last_id, "out of order")
     IN /\ IF Ok(up) THEN last_id' = id.v ELSE UNCHANGED last_id
        /\ Ends(Whole(IF Ok(up) THEN Decoded(id.v, up) ELSE up, n.p + n.v))
  /\ UNCHANGED file

Finish ==
  /\ verdict = "" /\ p > 0 /\ p >= Len(file)
  /\ verdict' = CASE Len(m.func_typeidx) # Len(m.funcs) -> "count mismatch"
                  [] /\ Len(m.func_typeidx) = Len(m.funcs)
                     /\ \E i \in DOMAIN m.funcs : m.func_typeidx[i] >= Len(m.types)
                       -> "typeidx out of range"
                  [] OTHER -> "ok"
  /\ UNCHANGED <<file, p, last_id, m>>

Next == Preamble \/ Section \/ Finish

Spec == Init /\ [][Next]_vars /\ WF_vars(Next)
=============================================================================
