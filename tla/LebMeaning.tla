------------------------------ MODULE LebMeaning ------------------------------
(* LEB128, from the integers to their bytes: the readers go the other way. *)
EXTENDS ByteReader

CONSTANT Width          \* bits of the integers

(* 32, 33 and 64 bits leave bits of their last byte unused.                *)
ASSUME LebAssumption == Width \in Nat \ {0} /\ Width % Group # 0

VARIABLE ints           \* what the integer readers made of some bytes of a file

Unread == [read |-> FALSE]

\* Every integer reader at a position of a file.  The strict ones may not pass the
\* limit, the end of a section; the frozen ones know the end of the file only.
ReadAt(bytes, at, limit) ==
  LET strict == Reader(bytes, at, limit)
      whole  == Reader(bytes, at, Len(bytes))
  IN [read |-> TRUE, at |-> at, window |-> SubSeq(bytes, at + 1, limit),
      u |-> Uleb(strict, Width), s |-> Sleb(strict, Width),
      fu |-> FrozenUleb(whole), fs |-> FrozenSleb(whole, Width)]

ReadInt(bytes) ==
  \E limit \in 0..Len(bytes) : \E at \in 0..limit : ints' = ReadAt(bytes, at, limit)

LebInit == ints = Unread
LebNext == \E bytes \in Seq(Byte8) : ReadInt(bytes)
LebSpec == LebInit /\ [][LebNext]_ints

----------------------------------------------------------------------------
Longest  == (Width - 1) \div Group + 1      \* bytes that Width bits may take
UnsignedInts == 0..(2^Width - 1)
SignedInts   == -(2^(Width - 1))..(2^(Width - 1) - 1)

\* Digit k of an integer to the base of the continuation bit, of a negative one too.
Digit(v, k) == (v \div 2^(Group * (k - 1))) % Continue

\* The n-byte form of an integer: its digits, the continuation bit on all but the
\* last.
Form(v, n) == [k \in 1..n |-> Digit(v, k) + IF k < n THEN Continue ELSE 0]

\* Every form of every integer with what it stands for; padded forms included.
UPairs == {x \in UnsignedInts \X (1..Longest) : x[1] < 2^(Group * x[2])}
SPairs == {x \in SignedInts \X (1..Longest) :
             -(2^(Group * x[2] - 1)) <= x[1] /\ x[1] < 2^(Group * x[2] - 1)}
UMeanings == {<<Form(x[1], x[2]), x[1]>> : x \in UPairs}
SMeanings == {<<Form(x[1], x[2]), x[1]>> : x \in SPairs}
UForms == {x[1] : x \in UMeanings}
SForms == {x[1] : x \in SMeanings}

Starts == {SubSeq(ints.window, 1, n) : n \in 0..Len(ints.window)}

Exact(got, meanings, forms) ==
  /\ \A b \in Starts : b \in forms => Ok(got) /\ got.p = ints.at + Len(b)
  /\ Ok(got) => <<SubSeq(ints.window, 1, got.p - ints.at), got.v>> \in meanings

\* decoder.py's uleb accepts exactly the encodings of the integers that fit in
\* the width, padded ones included, returns the integer and stops at its last
\* byte: the unused bits of the last byte and a byte too many are rejected.
UlebExact == ints.read => Exact(ints.u, UMeanings, UForms)

\* The same of sleb, whose unused bits must repeat the sign.
SlebExact == ints.read => Exact(ints.s, SMeanings, SForms)

\* A reader that fails says why: "unexpected end" exactly when the bytes ran out
\* within an integer that could still have been complete.
EndIsTheEnd ==
  ints.read => \A got \in {ints.u, ints.s} :
    got.err = UnexpectedEnd <=>
      /\ Len(ints.window) < Longest
      /\ \A i \in DOMAIN ints.window : ints.window[i] >= Continue

\* Both strict readers, on every window of bytes: the integers in range, in all
\* their forms, and nothing else.
LebExact == UlebExact /\ SlebExact /\ EndIsTheEnd

\* The frozen readers check neither length nor range nor a section's limit, and
\* the signed one does not extend the sign of an integer that fills its last byte;
\* on every integer the strict readers accept they stop at the same byte with the
\* same value in the low bits, which are all the frozen machine keeps of a constant.
FrozenReadsTheSame ==
  ints.read => /\ Ok(ints.u) => /\ Ok(ints.fu) /\ ints.fu.p = ints.u.p
                                /\ ints.fu.v = ints.u.v
               /\ Ok(ints.s) => /\ Ok(ints.fs) /\ ints.fs.p = ints.s.p
                                /\ (ints.fs.v - ints.s.v) % 2^Width = 0
=============================================================================
