------------------------------ MODULE ByteReader ------------------------------
(***************************************************************************)
(* The readers of the two decoders (interp5/decoder.py and the frozen      *)
(* interp/decoder.py): a cursor over the bytes of a file, and the LEB128   *)
(* integers.  A Python exception is a reader whose err is set: every       *)
(* operator hands such a reader on unchanged, so a LET chain reads in the  *)
(* order of the code and stops where the code raises.                      *)
(*                                                                         *)
(* Offsets are those of the code: byte p of the file is d[p + 1].          *)
(***************************************************************************)
EXTENDS Integers, Sequences, SequencesExt

CONSTANT Group          \* payload bits of a LEB128 byte: 7 in the code

ASSUME GroupAssumption == Group \in Nat \ {0}

Continue == 2^Group     \* the continuation bit: 0x80
Byte8    == 0..(2 * Continue - 1)

UnexpectedEnd == "unexpected end"
TooLarge      == "integer too large"
TooLong       == "integer representation too long"
MalformedUtf8 == "malformed UTF-8 encoding"
Beyond        == "unsupported"              \* any Unsupported(...)

Reader(d, p, limit) == [d |-> d, p |-> p, limit |-> limit, err |-> "", v |-> 0]

Ok(r)      == r.err = ""
Raise(r, e) == IF Ok(r) THEN [r EXCEPT !.err = e, !.v = 0] ELSE r
Return(r, v) == IF Ok(r) THEN [r EXCEPT !.v = v] ELSE r
Check(r, good, e) == IF Ok(r) /\ ~good THEN [r EXCEPT !.err = e, !.v = 0] ELSE r

\* Mutant: the section's limit is not consulted, only the end of the file.
Byte_no_limit(r) ==
  IF ~Ok(r) THEN r
  ELSE IF r.p >= Len(r.d) THEN Raise(r, UnexpectedEnd)
  ELSE [r EXCEPT !.v = r.d[r.p + 1], !.p = @ + 1]

Byte(r) ==
  IF ~Ok(r) THEN r
  ELSE IF r.p >= r.limit THEN Raise(r, UnexpectedEnd)
  ELSE [r EXCEPT !.v = r.d[r.p + 1], !.p = @ + 1]

Bytes(r, n) ==
  IF ~Ok(r) THEN r
  ELSE IF r.p + n > r.limit THEN Raise(r, UnexpectedEnd)
  ELSE [r EXCEPT !.v = SubSeq(r.d, r.p + 1, r.p + n), !.p = @ + n]

Eof(r) == r.p >= r.limit

----------------------------------------------------------------------------
\* The turns of a loop over range(n) whose body reads a byte or raises: no more
\* of them than bytes are left, and one, are ever run.
Turns(r, n) == IF n <= r.limit - r.p THEN n ELSE r.limit - r.p + 1

Looped(r, n, Turn(_)) ==
  LET After[i \in 0..Turns(r, n)] ==
        IF i = 0 THEN r ELSE LET s == After[i - 1] IN Turn(s)
  IN  After[Turns(r, n)]

(***************************************************************************)
(* A loop that reads at least one byte per iteration.  v carries its       *)
(* locals; done is the return inside the loop.                             *)
(***************************************************************************)
Repeat(r, n, Turn(_)) ==
  Looped(r, n, LAMBDA s : IF Ok(s) /\ ~s.v.done THEN Turn(s) ELSE s)

\* n items in a row, as a sequence of their values.
Items(r, n, Item(_)) ==
  IF ~Ok(r) THEN r
  ELSE Looped(Return(r, <<>>), n,
            LAMBDA s : LET x == Item(s) IN Return(x, Append(s.v, x.v)))

\* One item and then another, as the pair of their values.
Pair(r, First(_), Second(_)) ==
  LET a == First(r)
      b == Second(a)
  IN Return(b, <<a.v, b.v>>)

MaxBytes(bits) == (bits + Group - 1) \div Group

\* (b & 0x7F) << shift, or-ed into bits that are still zero
OrIn(acc, b, shift) == acc + (b % Continue) * 2^shift

LebStart == [acc |-> 0, shift |-> 0, done |-> FALSE]

LebMore(c, s, acc) ==
  Return(c, [acc |-> acc, shift |-> s.v.shift + Group, done |-> FALSE])

LebDone(c, acc) == Return(c, [acc |-> acc, shift |-> 0, done |-> TRUE])

LebResult(r) == IF ~Ok(r) THEN r
                ELSE IF r.v.done THEN Return(r, r.v.acc) ELSE Raise(r, TooLong)

\* One turn, with the byte c it reads.
UlebTurn(s, c, bits) ==
  LET acc   == OrIn(s.v.acc, c.v, s.v.shift)
      extra == /\ s.v.shift + Group > bits
               /\ c.v \div 2^(bits - s.v.shift) # 0
  IN IF ~Ok(c) THEN c
     ELSE IF c.v >= Continue THEN LebMore(c, s, acc)
     ELSE Check(LebDone(c, acc), ~extra, TooLarge)

Uleb(r, bits) ==
  LebResult(Repeat(Return(r, LebStart), MaxBytes(bits),
                   LAMBDA s : UlebTurn(s, Byte(s), bits)))

\* Mutant: the sign is extended only where the byte is not the last possible one.
SlebTurn_full(s, c, bits) ==
  LET acc   == OrIn(s.v.acc, c.v, s.v.shift)
      shift == s.v.shift + Group
      neg   == c.v % Continue >= Continue \div 2
  IN IF ~Ok(c) THEN c
     ELSE IF c.v >= Continue THEN LebMore(c, s, acc)
     ELSE IF shift < bits THEN LebDone(c, IF neg THEN acc - 2^shift ELSE acc)
     ELSE Check(LebDone(c, acc), acc < 2^(bits - 1), TooLarge)

SlebTurn(s, c, bits) ==
  LET acc    == OrIn(s.v.acc, c.v, s.v.shift)
      shift  == s.v.shift + Group
      neg    == c.v % Continue >= Continue \div 2          \* b & 0x40
      signed == IF neg THEN acc - 2^shift ELSE acc         \* acc | (~0 << shift)
      lo     == -(2^(bits - 1))
      hi     == 2^(bits - 1) - 1
  IN IF ~Ok(c) THEN c
     ELSE IF c.v >= Continue THEN LebMore(c, s, acc)
     ELSE IF shift < bits THEN LebDone(c, signed)
     ELSE IF shift > bits
       THEN Check(LebDone(c, signed), lo <= signed /\ signed <= hi, TooLarge)
     ELSE LebDone(c, acc)

Sleb(r, bits) ==
  LebResult(Repeat(Return(r, LebStart), MaxBytes(bits),
                   LAMBDA s : SlebTurn(s, Byte(s), bits)))

\* A name's bytes above 0x7F are not valid UTF-8 here: the instances use none
\* that could start or complete a sequence.
Utf8(bs) == \A i \in DOMAIN bs : bs[i] < Continue

Counted(n) == Bytes(n, n.v)
Decode(raw) == Check(raw, Utf8(raw.v), MalformedUtf8)
Name(r, bits) == Decode(Counted(Uleb(r, bits)))

----------------------------------------------------------------------------
(***************************************************************************)
(* The frozen reader: no limit but the end of the file, and integers of    *)
(* any length and any size.                                                *)
(***************************************************************************)
\* Mutant: the sign is never extended.
FrozenTurn_unsigned(s, c, bits) ==
  LET acc == OrIn(s.v.acc, c.v, s.v.shift)
  IN IF ~Ok(c) THEN c
     ELSE IF c.v >= Continue THEN LebMore(c, s, acc) ELSE LebDone(c, acc)

FrozenTurn(s, c, bits) ==
  LET acc   == OrIn(s.v.acc, c.v, s.v.shift)
      shift == s.v.shift + Group
      neg   == c.v % Continue >= Continue \div 2
  IN IF ~Ok(c) THEN c
     ELSE IF c.v >= Continue THEN LebMore(c, s, acc)
     ELSE LebDone(c, IF shift < bits /\ neg THEN acc - 2^shift ELSE acc)

\* The loop ends at the first byte without a continuation bit, or runs out.
FrozenTurns(r) ==
  LET left  == r.limit - r.p
      lasts == {k \in 1..left : r.d[r.p + k] < Continue}
  IN CHOOSE k \in 1..(left + 1) : /\ k \in lasts \/ k = left + 1
                                  /\ \A j \in lasts : k <= j

FrozenLeb(r, bits) ==
  LebResult(Repeat(Return(r, LebStart), FrozenTurns(r),
                   LAMBDA s : FrozenTurn(s, Byte(s), bits)))

FrozenUleb(r) == FrozenLeb(r, 0)
FrozenSleb(r, bits) == FrozenLeb(r, bits)
=============================================================================
