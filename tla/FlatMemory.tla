----------------------------- MODULE FlatMemory ------------------------------
(***************************************************************************)
(* A linear memory as one flat array of bytes: the Memory of the frozen    *)
(* engine (interp/machine.py), with the loads that only interp5 decodes.   *)
(* One step per operation; "answer" is the last one with what it returned,  *)
(* so that a change of the memory is always the change the caller asked for.*)
(***************************************************************************)
EXTENDS Integers

CONSTANTS PageSize,    \* PAGE_SIZE
          MaxPages,    \* MAX_PAGES, the cap of a memory without a maximum
          MinPages,    \* declared minimum
          Declared,    \* declared maximum, or NoMax
          NoMax,
          Byte,        \* byte values, 0 among them
          Address,     \* bound: effective addresses used
          Lengths,     \* bound: lengths of the accesses used
          Deltas,      \* bound: page counts asked of grow
          HostCanFail  \* whether the host may refuse an allocation

Cap == IF Declared = NoMax THEN MaxPages ELSE Declared

VARIABLES size,   \* Memory.pages: current size in pages
          data,   \* Memory.data
          answer  \* the last operation and what it returned

flatVars == <<size, data, answer>>

Bytes(n) == [0..(n - 1) -> Byte]
Zeros(n) == [i \in 0..(n - 1) |-> 0]
ByteSize(p) == p * PageSize

\* An operation with its arguments, and what it returned: a page count,
\* bytes, nothing, or a trap.
Request(op, at, n, bytes) == [op |-> op, at |-> at, n |-> n, data |-> bytes]
Answer(req, tag, pages, bytes) ==
  [req |-> req, tag |-> tag, pages |-> pages, bytes |-> bytes]

NoRequest == Request("none", 0, 0, Zeros(0))
GrowOf(d) == Request("grow", d, 0, Zeros(0))
WriteOf(ea, n, bytes) == Request("write", ea, n, bytes)
ReadOf(ea, n) == Request("read", ea, n, Zeros(0))

Returned(req) == Answer(req, "returned", 0, Zeros(0))
Trapped(req) == Answer(req, "trapped", 0, Zeros(0))
Refused(req) == Answer(req, "grown", -1, Zeros(0))
Grown(req, p) == Answer(req, "grown", p, Zeros(0))
Read(req, b) == Answer(req, "read", 0, b)

FlatInit ==
  /\ size = MinPages
  /\ data = Zeros(ByteSize(MinPages))
  /\ answer = Returned(NoRequest)

(* memory.grow: the previous size, or -1 beyond the cap or when the host   *)
(* has no room; the new pages are zero, a refusal changes nothing.         *)
FlatGrow(d) ==
  \/ /\ size + d <= Cap
     /\ size' = size + d
     /\ data' = [a \in 0..(ByteSize(size + d) - 1) |->
                   IF a < ByteSize(size) THEN data[a] ELSE 0]
     /\ answer' = Grown(GrowOf(d), size)
  \/ /\ size + d > Cap \/ HostCanFail
     /\ answer' = Refused(GrowOf(d))
     /\ UNCHANGED <<size, data>>

(* A store: traps, and stores nothing, when any of its bytes is out of     *)
(* bounds.                                                                 *)
FlatWrite(ea, n, bytes) ==
  IF ea + n > ByteSize(size)
  THEN answer' = Trapped(WriteOf(ea, n, bytes)) /\ UNCHANGED <<size, data>>
  ELSE /\ data' = [a \in 0..(ByteSize(size) - 1) |->
                     IF ea <= a /\ a < ea + n THEN bytes[a - ea] ELSE data[a]]
       /\ answer' = Returned(WriteOf(ea, n, bytes))
       /\ UNCHANGED size

(* A load.                                                                 *)
FlatRead(ea, n) ==
  /\ answer' = IF ea + n > ByteSize(size) THEN Trapped(ReadOf(ea, n))
               ELSE Read(ReadOf(ea, n), [i \in 0..(n - 1) |-> data[ea + i]])
  /\ UNCHANGED <<size, data>>

FlatNext ==
  \/ \E d \in Deltas : FlatGrow(d)
  \/ \E ea \in Address, n \in Lengths : \E bytes \in Bytes(n) :
       FlatWrite(ea, n, bytes)
  \/ \E ea \in Address, n \in Lengths : FlatRead(ea, n)

FlatSpec == FlatInit /\ [][FlatNext]_flatVars
=============================================================================
