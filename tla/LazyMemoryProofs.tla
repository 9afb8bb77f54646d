-------------------------- MODULE LazyMemoryProofs --------------------------
(***************************************************************************)
(* Proofs about interp5's Memory (module LazyMemory) for every page size,  *)
(* cap and set of byte values, and every address and length of an access.  *)
(***************************************************************************)
EXTENDS LazyMemory, TLAPS

USE MemoryAssumption

----------------------------------------------------------------------------
(* Pages and offsets: what divmod(a, PAGE_SIZE) is.                        *)
LEMMA DivMod ==
  ASSUME NEW a \in Nat
  PROVE  /\ a \div PageSize \in Nat
         /\ a % PageSize \in 0..(PageSize - 1)
         /\ a = PageSize * (a \div PageSize) + (a % PageSize)
<1> a \in Int /\ PageSize \in Int /\ PageSize > 0
  OBVIOUS
<1>1. a \div PageSize \in Int /\ a \div PageSize >= 0
  OBVIOUS
<1>2. a % PageSize \in 0..(PageSize - 1)
  OBVIOUS
<1>3. a = PageSize * (a \div PageSize) + (a % PageSize)
  OBVIOUS
<1>4. QED BY <1>1, <1>2, <1>3

(* A quotient and a remainder in range are those of divmod. *)
LEMMA DivUnique ==
  ASSUME NEW a \in Nat, NEW q \in Nat, NEW r \in 0..(PageSize - 1),
         a = PageSize * q + r
  PROVE  a \div PageSize = q /\ a % PageSize = r
OBVIOUS

(* A page ends before any later one begins. *)
LEMMA PageOrder ==
  ASSUME NEW p \in Nat, NEW q \in Nat, p < q
  PROVE  PageSize * p + PageSize <= PageSize * q
OBVIOUS

(* An address is inside the memory exactly when its page is.               *)
LEMMA PageInBounds ==
  ASSUME NEW a \in Nat, NEW p \in Nat
  PROVE  a < p * PageSize <=> a \div PageSize < p
<1> DEFINE q == a \div PageSize
           r == a % PageSize
<1>1. q \in Nat /\ r \in 0..(PageSize - 1) /\ a = PageSize * q + r
  BY DivMod
<1> HIDE DEF q, r
<1>2. CASE q < p
  <2>1. PageSize * q + PageSize <= PageSize * p
    BY <1>1, <1>2, PageOrder
  <2>2. PageSize * q \in Nat /\ PageSize * p \in Nat
    BY <1>1
  <2>3. a < PageSize * p
    BY <1>1, <2>1, <2>2
  <2>4. QED BY <1>2, <2>3 DEF q
<1>3. CASE ~(q < p)
  <2>1. PageSize * p <= PageSize * q
    <3>1. CASE p = q BY <3>1, <1>1
    <3>2. CASE p < q
      <4>1. PageSize * p + PageSize <= PageSize * q
        BY <1>1, <3>2, PageOrder
      <4>2. PageSize * q \in Nat /\ PageSize * p \in Nat
        BY <1>1
      <4>3. QED BY <4>1, <4>2
    <3>3. QED BY <1>1, <1>3, <3>1, <3>2
  <2>2. PageSize * q \in Nat /\ PageSize * p \in Nat
    BY <1>1
  <2>3. ~(a < PageSize * p)
    BY <1>1, <2>1, <2>2
  <2>4. QED BY <1>3, <2>3 DEF q
<1>4. QED BY <1>2, <1>3

(* One turn of a loop covers at least one byte, stays in one page, and     *)
(* touches exactly the offsets po..po+take-1 of page pi.                   *)
LEMMA ChunkGeometry ==
  ASSUME TypeOK, call.pos < call.n
  PROVE  /\ pi \in Nat /\ po \in 0..(PageSize - 1)
         /\ take \in Nat /\ take > 0
         /\ take <= call.n - call.pos /\ po + take <= PageSize
         /\ call.ea + call.pos = PageSize * pi + po
<1>1. call.ea \in Nat /\ call.n \in Nat /\ call.pos \in Nat
  BY DEF TypeOK
<1>2. /\ pi \in Nat /\ po \in 0..(PageSize - 1)
      /\ call.ea + call.pos = PageSize * pi + po
  <2>1. call.ea + call.pos \in Nat
    BY <1>1
  <2>2. QED BY <2>1, DivMod DEF pi, po
<1>3. take \in Nat /\ take > 0 /\ take <= call.n - call.pos
      /\ po + take <= PageSize
  BY <1>1, <1>2 DEF take
<1>4. QED BY <1>2, <1>3

(* The bytes of the chunk at hand are those of one page, at consecutive    *)
(* offsets.                                                                *)
LEMMA InChunk ==
  ASSUME TypeOK, call.pos < call.n, NEW a \in Nat
  PROVE  /\ (call.ea + call.pos <= a /\ a < call.ea + call.pos + take) =>
              /\ a \div PageSize = pi
              /\ a % PageSize = po + (a - (call.ea + call.pos))
         /\ a \div PageSize = pi =>
              ((call.ea + call.pos <= a /\ a < call.ea + call.pos + take)
               <=> (po <= a % PageSize /\ a % PageSize < po + take))
<1> DEFINE s == call.ea + call.pos
           b == PageSize * pi
<1>1. /\ pi \in Nat /\ po \in 0..(PageSize - 1) /\ take \in Nat
      /\ po + take <= PageSize /\ s = b + po
  BY ChunkGeometry
<1>2. s \in Nat /\ b \in Nat
  BY <1>1 DEF TypeOK
<1>3. ASSUME s <= a, a < s + take
      PROVE  /\ a \div PageSize = pi /\ a % PageSize = po + (a - s)
  <2> DEFINE r == po + (a - s)
  <2> HIDE DEF s, b
  <2>1. r \in 0..(PageSize - 1) /\ a = b + r
    BY <1>1, <1>2, <1>3
  <2> HIDE DEF r
  <2>2. a = PageSize * pi + r
    BY <2>1 DEF b
  <2>3. a \div PageSize = pi /\ a % PageSize = r
    BY <1>1, <2>1, <2>2, DivUnique
  <2>4. QED BY <2>3 DEF r
<1>4. ASSUME a \div PageSize = pi
      PROVE  (s <= a /\ a < s + take)
             <=> (po <= a % PageSize /\ a % PageSize < po + take)
  <2> DEFINE r == a % PageSize
  <2>1. r \in 0..(PageSize - 1) /\ a = b + r
    BY <1>4, DivMod
  <2> HIDE DEF r, s, b
  <2>2. (s <= a /\ a < s + take) <=> (po <= r /\ r < po + take)
    BY <1>1, <1>2, <2>1
  <2>3. QED BY <2>2 DEF r
<1>5. QED BY <1>3, <1>4

----------------------------------------------------------------------------
(* Consistent is inductive.                                                *)
LEMMA InitInv == Init => Consistent
BY DEF Init, Consistent, TypeOK, InBounds, ReadSoFar, NoCall, Idle, Flat!Zeros,
       Flat!Bytes, byte_size

(* Growing keeps the invariant: no page exists beyond the old size. *)
LEMMA GrowInv == ASSUME Consistent, NEW d \in Deltas, Grow(d) PROVE Consistent'
<1>1. d \in Nat /\ n_pages \in Nat /\ n_pages' \in Nat /\ n_pages <= n_pages'
      /\ n_pages' <= Cap
  BY DEF Grow, Consistent, TypeOK, InBounds
<1>2. UNCHANGED <<pages, call, out>> /\ Idle
  BY DEF Grow
<1>3. QED BY <1>1, <1>2 DEF Consistent, TypeOK, InBounds, ReadSoFar, Idle

(* A read that passes the bounds check fits; one that does not leaves no   *)
(* call.                                                                   *)
LEMMA BeginReadInv ==
  ASSUME Consistent, NEW ea \in Address, NEW n \in Lengths, BeginRead(ea, n)
  PROVE  Consistent'
<1>1. ea \in Nat /\ n \in Nat /\ UNCHANGED <<pages, n_pages>> /\ Idle
  BY DEF BeginRead
<1>2. CASE ea + n > byte_size
  BY <1>1, <1>2 DEF BeginRead, Consistent, TypeOK, InBounds, ReadSoFar, Idle,
                    byte_size, ByteAt
<1>3. CASE ~(ea + n > byte_size)
  <2>1. /\ call' = [op |-> "read", ea |-> ea, n |-> n,
                    data |-> Flat!Zeros(0), pos |-> 0]
        /\ out' = Flat!Zeros(n)
    BY <1>3 DEF BeginRead
  <2>2. TypeOK'
    BY <1>1, <2>1 DEF Consistent, TypeOK, Idle, Flat!Zeros, Flat!Bytes
  <2>3. InBounds'
    <3>1. byte_size \in Nat
      BY DEF Consistent, TypeOK, byte_size
    <3>2. ea + n <= byte_size
      BY <1>1, <1>3, <3>1
    <3>3. QED BY <1>1, <2>1, <3>2 DEF Consistent, InBounds, byte_size
  <2>4. ReadSoFar'
    BY <2>1 DEF ReadSoFar
  <2>5. QED BY <2>2, <2>3, <2>4 DEF Consistent
<1>4. QED BY <1>2, <1>3

(* So does a write. *)
LEMMA BeginWriteInv ==
  ASSUME Consistent, NEW ea \in Address, NEW n \in Lengths, NEW data \in Flat!Bytes(n),
         BeginWrite(ea, n, data)
  PROVE  Consistent'
<1>1. ea \in Nat /\ n \in Nat /\ UNCHANGED <<pages, n_pages, out>> /\ Idle
  BY DEF BeginWrite
<1>2. CASE ea + n > byte_size
  BY <1>1, <1>2 DEF BeginWrite, Consistent, TypeOK, InBounds, ReadSoFar, Idle,
                    byte_size, ByteAt
<1>3. CASE ~(ea + n > byte_size)
  <2>1. call' = [op |-> "write", ea |-> ea, n |-> n, data |-> data, pos |-> 0]
    BY <1>3 DEF BeginWrite
  <2>2. TypeOK'
    BY <1>1, <2>1 DEF Consistent, TypeOK, Idle
  <2>3. InBounds'
    <3>1. byte_size \in Nat
      BY DEF Consistent, TypeOK, byte_size
    <3>2. ea + n <= byte_size
      BY <1>1, <1>3, <3>1
    <3>3. QED BY <1>1, <2>1, <3>2 DEF Consistent, InBounds, byte_size
  <2>4. ReadSoFar'
    BY <2>1 DEF ReadSoFar
  <2>5. QED BY <2>2, <2>3, <2>4 DEF Consistent
<1>4. QED BY <1>2, <1>3

(* A chunk moves the position of the call under way, and nothing else of   *)
(* it.                                                                     *)
LEMMA CallStep ==
  ASSUME TypeOK, call.pos < call.n, call' = [call EXCEPT !.pos = @ + take]
  PROVE  /\ call'.op = call.op /\ call'.ea = call.ea /\ call'.n = call.n
         /\ call'.data = call.data /\ call'.pos = call.pos + take
         /\ call' = [op |-> call'.op, ea |-> call'.ea, n |-> call'.n,
                     data |-> call'.data, pos |-> call'.pos]
         /\ call'.pos \in 0..call'.n
<1>1. call = [op |-> call.op, ea |-> call.ea, n |-> call.n,
              data |-> call.data, pos |-> call.pos]
  BY DEF TypeOK
<1>2. /\ call'.op = call.op /\ call'.ea = call.ea /\ call'.n = call.n
      /\ call'.data = call.data /\ call'.pos = call.pos + take
      /\ call' = [op |-> call'.op, ea |-> call'.ea, n |-> call'.n,
                  data |-> call'.data, pos |-> call'.pos]
  BY <1>1
<1>3. call.pos + take \in 0..call.n
  BY ChunkGeometry DEF TypeOK
<1>4. QED BY <1>2, <1>3

(* A chunk read keeps the invariant: the buffer holds the bytes up to the  *)
(* new position.                                                           *)
LEMMA ReadChunkInv == ASSUME Consistent, ReadChunk PROVE Consistent'
<1>1. /\ call.op = "read" /\ call.pos < call.n
      /\ call' = [call EXCEPT !.pos = @ + take]
      /\ UNCHANGED <<pages, n_pages, answer>>
      /\ TypeOK
  BY DEF ReadChunk, Consistent
<1>2. /\ pi \in Nat /\ po \in 0..(PageSize - 1) /\ take \in Nat
      /\ take <= call.n - call.pos /\ po + take <= PageSize
  BY <1>1, ChunkGeometry
<1>3. /\ call'.op = "read" /\ call'.ea = call.ea /\ call'.n = call.n
      /\ call'.data = call.data /\ call'.pos = call.pos + take
      /\ call' = [op |-> call'.op, ea |-> call'.ea, n |-> call'.n,
                  data |-> call'.data, pos |-> call'.pos]
      /\ call'.pos \in 0..call'.n
  BY <1>1, CallStep
<1>4. call.ea \in Nat /\ call.n \in Nat /\ call.pos \in Nat
  BY <1>1 DEF TypeOK
<1>5. ASSUME NEW i \in 0..(call.n - 1), call.pos <= i, i < call.pos + take
      PROVE  /\ out'[i] = ByteAt(call.ea + i)
             /\ out'[i] \in Byte
  <2>1. call.ea + i \in Nat
    BY <1>4
  <2>2. (call.ea + i) \div PageSize = pi
        /\ (call.ea + i) % PageSize = po + (i - call.pos)
    <3>1. /\ call.ea + call.pos <= call.ea + i
          /\ call.ea + i < call.ea + call.pos + take
          /\ (call.ea + i) - (call.ea + call.pos) = i - call.pos
      BY <1>2, <1>4, <1>5
    <3>2. QED BY <1>1, <2>1, <3>1, InChunk
  <2>3. out'[i] = IF pi \in DOMAIN pages THEN pages[pi][po + (i - call.pos)]
                  ELSE 0
    BY <1>5 DEF ReadChunk
  <2>4. po + (i - call.pos) \in 0..(PageSize - 1)
    BY <1>2, <1>4, <1>5
  <2>5. pi \in DOMAIN pages => pages[pi][po + (i - call.pos)] \in Byte
    BY <1>1, <2>4 DEF TypeOK, Page
  <2>6. QED BY <2>2, <2>3, <2>5 DEF ByteAt
<1>6. ASSUME NEW i \in 0..(call.n - 1), ~(call.pos <= i /\ i < call.pos + take)
      PROVE  out'[i] = out[i]
  BY <1>6 DEF ReadChunk
<1>7. TypeOK'
  <2>1. out \in Flat!Bytes(call.n)
    BY <1>1 DEF TypeOK
  <2>2. \A i \in 0..(call.n - 1) : out'[i] \in Byte
    BY <1>5, <1>6, <2>1 DEF Flat!Bytes
  <2>3. out' = [i \in 0..(call.n - 1) |-> out'[i]]
    BY DEF ReadChunk
  <2>4. out' \in Flat!Bytes(call.n)
    BY <2>2, <2>3 DEF Flat!Bytes
  <2>5. QED BY <1>1, <1>3, <2>4 DEF TypeOK, Idle
<1>8. InBounds'
  BY <1>1, <1>3 DEF Consistent, InBounds, Idle, byte_size
<1>9. ReadSoFar'
  <2>1. ASSUME NEW i \in 0..(call.pos + take - 1)
        PROVE  out'[i] = ByteAt(call.ea + i)
    <3>1. i \in 0..(call.n - 1)
      BY <1>2, <1>4
    <3>2. CASE call.pos <= i
      BY <1>2, <1>4, <1>5, <3>1, <3>2
    <3>3. CASE ~(call.pos <= i)
      <4>1. i \in 0..(call.pos - 1)
        BY <1>4, <3>3
      <4>2. out[i] = ByteAt(call.ea + i)
        BY <1>1, <4>1 DEF Consistent, ReadSoFar
      <4>3. QED BY <1>6, <3>1, <3>3, <4>2
    <3>4. QED BY <3>2, <3>3
  <2>2. ASSUME NEW i, i \in 0..(call'.pos - 1)
        PROVE  (out[i] = ByteAt(call.ea + i))'
    <3>1. i \in 0..(call.pos + take - 1)
      <4>1. call'.pos = call.pos + take
        BY <1>3
      <4>2. QED BY <1>2, <1>4, <2>2, <4>1
    <3>2. ByteAt(call.ea + i)' = ByteAt(call.ea + i)
      BY <1>1, <1>3 DEF ByteAt, ReadChunk
    <3>3. out'[i] = ByteAt(call.ea + i)
      BY <2>1, <3>1
    <3>4. QED BY <3>2, <3>3
  <2>3. QED BY <2>2 DEF ReadSoFar
<1>10. QED BY <1>7, <1>8, <1>9 DEF Consistent

(* A chunk written keeps the invariant; the page it creates lies below the *)
(* size.                                                                   *)
LEMMA WriteChunkInv == ASSUME Consistent, WriteChunk PROVE Consistent'
<1> DEFINE page == IF pi \in DOMAIN pages THEN pages[pi] ELSE ZeroPage
           written == [o \in 0..(PageSize - 1) |->
                         IF po <= o /\ o < po + take
                         THEN call.data[call.pos + (o - po)] ELSE page[o]]
<1>1. /\ call.op = "write" /\ call.pos < call.n
      /\ call' = [call EXCEPT !.pos = @ + take]
      /\ UNCHANGED <<n_pages, out, answer>>
      /\ pages' = [p \in DOMAIN pages \cup {pi} |->
                     IF p = pi THEN written ELSE pages[p]]
      /\ TypeOK
  BY DEF WriteChunk, Consistent
<1>2. /\ pi \in Nat /\ po \in 0..(PageSize - 1) /\ take \in Nat /\ take > 0
      /\ take <= call.n - call.pos /\ po + take <= PageSize
  BY <1>1, ChunkGeometry
<1>3. /\ call'.op = "write" /\ call'.ea = call.ea /\ call'.n = call.n
      /\ call'.data = call.data /\ call'.pos = call.pos + take
      /\ call' = [op |-> call'.op, ea |-> call'.ea, n |-> call'.n,
                  data |-> call'.data, pos |-> call'.pos]
      /\ call'.pos \in 0..call'.n
  BY <1>1, CallStep
<1>4. /\ call.ea \in Nat /\ call.n \in Nat /\ call.pos \in Nat
      /\ call.data \in Flat!Bytes(call.n)
  BY <1>1 DEF TypeOK
<1>5. page \in Page
  BY <1>1 DEF TypeOK, Page, ZeroPage
<1>6. written \in Page
  <2>1. ASSUME NEW o \in 0..(PageSize - 1), po <= o, o < po + take
        PROVE  call.data[call.pos + (o - po)] \in Byte
    <3>1. call.pos + (o - po) \in 0..(call.n - 1)
      BY <1>2, <1>4, <2>1
    <3>2. QED BY <1>4, <3>1 DEF Flat!Bytes
  <2> HIDE DEF page
  <2>2. QED BY <1>5, <2>1 DEF Page
<1> HIDE DEF written
<1>7. TypeOK'
  <2>1. DOMAIN pages' = DOMAIN pages \cup {pi}
    BY <1>1
  <2>2. \A p \in DOMAIN pages' : pages'[p] \in Page
    BY <1>1, <1>6, <2>1 DEF TypeOK
  <2>3. QED BY <1>1, <1>2, <1>3, <2>1, <2>2 DEF TypeOK, Idle
<1>8. InBounds'
  <2>1. call.ea + call.pos < n_pages * PageSize
    <3>1. call.ea + call.n <= n_pages * PageSize
      BY <1>1 DEF Consistent, InBounds, Idle, byte_size
    <3>2. n_pages * PageSize \in Nat
      BY <1>1 DEF TypeOK
    <3>3. QED BY <1>1, <1>4, <3>1, <3>2
  <2>2. pi < n_pages
    <3>1. call.ea + call.pos \in Nat /\ n_pages \in Nat
      BY <1>1, <1>4 DEF TypeOK
    <3>2. QED BY <2>1, <3>1, PageInBounds DEF pi
  <2>3. pi \in 0..(n_pages - 1)
    BY <1>1, <1>2, <2>2 DEF TypeOK
  <2>4. DOMAIN pages' \subseteq 0..(n_pages - 1)
    BY <1>1, <2>3 DEF Consistent, InBounds
  <2>5. QED BY <1>1, <1>3, <2>4 DEF Consistent, InBounds, Idle, byte_size
<1>9. ReadSoFar'
  BY <1>3 DEF ReadSoFar
<1>10. QED BY <1>7, <1>8, <1>9 DEF Consistent

(* Answering keeps the invariant. *)
LEMMA ReturnInv == ASSUME Consistent, Return PROVE Consistent'
BY DEF Return, Consistent, TypeOK, InBounds, ReadSoFar, NoCall, Idle, Flat!Zeros,
       Flat!Bytes

(* Every step keeps the invariant. *)
LEMMA NextInv == Consistent /\ [Next]_vars => Consistent'
<1> SUFFICES ASSUME Consistent, [Next]_vars PROVE Consistent'
  OBVIOUS
<1>1. ASSUME NEW d \in Deltas, Grow(d) PROVE Consistent'
  BY <1>1, GrowInv
<1>2. ASSUME NEW ea \in Address, NEW n \in Lengths, BeginRead(ea, n)
      PROVE  Consistent'
  BY <1>2, BeginReadInv
<1>3. ASSUME NEW ea \in Address, NEW n \in Lengths,
             NEW data \in Flat!Bytes(n), BeginWrite(ea, n, data)
      PROVE  Consistent'
  BY <1>3, BeginWriteInv
<1>4. CASE Step
  BY <1>4, ReadChunkInv, WriteChunkInv, ReturnInv DEF Step
<1>5. CASE UNCHANGED vars
  BY <1>5 DEF vars, Consistent, TypeOK, InBounds, ReadSoFar, Idle, byte_size, ByteAt
<1>6. QED BY <1>1, <1>2, <1>3, <1>4, <1>5 DEF Next

(* Types, bounds and the loop of read, for every run.                      *)
THEOREM Invariance == Spec => []Consistent
<1>1. Init => Consistent BY InitInv
<1>2. Consistent /\ [Next]_vars => Consistent' BY NextInv
<1>3. QED BY <1>1, <1>2, PTL DEF Spec

(* Pages, sizes, the call under way and its buffer have their types: in    *)
(* particular no page holds anything but bytes.                            *)
THEOREM TypeCorrect == Spec => []TypeOK
BY Invariance, PTL DEF Consistent

(* No page exists beyond the current size and no access leaves the memory. *)
THEOREM InBoundsHolds == Spec => []InBounds
BY Invariance, PTL DEF Consistent

(* read never returns a byte the memory does not hold at that address.     *)
THEOREM ReadSoFarHolds == Spec => []ReadSoFar
BY Invariance, PTL DEF Consistent

----------------------------------------------------------------------------
(* The refinement.  As long as no write is under way the view is what the  *)
(* pages hold.                                                             *)
LEMMA ViewIdle ==
  ASSUME call.op # "write"
  PROVE  /\ View = [a \in 0..(n_pages * PageSize - 1) |-> ByteAt(a)]
         /\ AbsAnswer = answer
BY DEF View, Pending, AbsAnswer

(* An empty lazy memory is a flat array of zeroes. *)
LEMMA InitRefines == Init => Flat!FlatInit
<1> SUFFICES ASSUME Init PROVE Flat!FlatInit
  OBVIOUS
<1>1. \A a : ByteAt(a) = 0
  BY DEF Init, ByteAt
<1>2. View = [a \in 0..(n_pages * PageSize - 1) |-> 0] /\ AbsAnswer = answer
  BY <1>1, ViewIdle DEF Init, NoCall
<1>3. QED BY <1>2 DEF Init, Flat!FlatInit, Flat!Zeros, Flat!ByteSize

\* The pages that grow adds read as zero, since none of them exists.
LEMMA GrowRefines ==
  ASSUME Consistent, NEW d \in Deltas, Grow(d)
  PROVE  Flat!FlatGrow(d)
<1>1. Idle /\ UNCHANGED <<pages, call, out>> /\ d \in Nat /\ n_pages \in Nat
  BY DEF Grow, Consistent, TypeOK
<1>2. AbsAnswer = answer /\ AbsAnswer' = answer'
  BY <1>1 DEF AbsAnswer, Idle
<1>3. View = [a \in 0..(n_pages * PageSize - 1) |-> ByteAt(a)]
  BY <1>1, ViewIdle DEF Idle
<1>4. View' = [a \in 0..(n_pages' * PageSize - 1) |-> ByteAt(a)]
  BY <1>1 DEF View, Pending, Idle, ByteAt
<1>5. CASE n_pages + d > Cap
  <2>1. answer' = Flat!Refused(Flat!GrowOf(d)) /\ UNCHANGED n_pages
    BY <1>5 DEF Grow
  <2>2. View' = View
    BY <1>3, <1>4, <2>1
  <2>3. QED BY <1>2, <1>5, <2>1, <2>2 DEF Flat!FlatGrow, Flat!Cap, Cap
<1>6. CASE ~(n_pages + d > Cap)
  <2>1. /\ n_pages' = n_pages + d
        /\ answer' = Flat!Grown(Flat!GrowOf(d), n_pages)
    BY <1>6 DEF Grow
  <2>2. n_pages + d <= Cap
    BY <1>1, <1>6
  <2>3. ASSUME NEW a \in 0..((n_pages + d) * PageSize - 1)
        PROVE  ByteAt(a) = IF a < n_pages * PageSize THEN View[a] ELSE 0
    <3>1. a \in Nat /\ n_pages * PageSize \in Nat
      BY <1>1
    <3>2. CASE a < n_pages * PageSize
      BY <1>3, <3>1, <3>2
    <3>3. CASE ~(a < n_pages * PageSize)
      <4>1. ~(a \div PageSize < n_pages)
        BY <1>1, <3>1, <3>3, PageInBounds
      <4>2. a \div PageSize \notin DOMAIN pages
        BY <1>1, <4>1 DEF Consistent, InBounds
      <4>3. QED BY <3>3, <4>2 DEF ByteAt
    <3>4. QED BY <3>2, <3>3
  <2>4. View' = [a \in 0..((n_pages + d) * PageSize - 1) |->
                   IF a < n_pages * PageSize THEN View[a] ELSE 0]
    BY <1>4, <2>1, <2>3
  <2>5. QED BY <1>2, <2>1, <2>2, <2>4
            DEF Flat!FlatGrow, Flat!Cap, Cap, Flat!ByteSize
<1>7. QED BY <1>5, <1>6

(* A read that does not fit is refused by the flat memory too; one that    *)
(* fits is a stutter.                                                      *)
LEMMA BeginReadRefines ==
  ASSUME Consistent, NEW ea \in Address, NEW n \in Lengths, BeginRead(ea, n)
  PROVE  [Flat!FlatNext]_(Flat!flatVars)
<1>1. Idle /\ UNCHANGED <<pages, n_pages>>
  BY DEF BeginRead
<1>2. call'.op # "write"
  BY <1>1 DEF BeginRead, Idle
<1>3. View' = View
  BY <1>1, <1>2 DEF View, Pending, Idle, ByteAt
<1>4. AbsAnswer = answer /\ AbsAnswer' = answer'
  BY <1>1, <1>2 DEF AbsAnswer, Idle
<1>5. CASE ea + n > byte_size
  <2>1. Flat!FlatRead(ea, n)
    BY <1>1, <1>3, <1>4, <1>5
       DEF BeginRead, Flat!FlatRead, Flat!ByteSize, byte_size
  <2>2. QED BY <2>1 DEF Flat!FlatNext
<1>6. CASE ~(ea + n > byte_size)
  BY <1>1, <1>3, <1>4, <1>6 DEF BeginRead, Flat!flatVars
<1>7. QED BY <1>5, <1>6

\* The write takes effect when its bounds check passes.
LEMMA BeginWriteRefines ==
  ASSUME Consistent, NEW ea \in Address, NEW n \in Lengths,
         NEW bytes \in Flat!Bytes(n), BeginWrite(ea, n, bytes)
  PROVE  Flat!FlatWrite(ea, n, bytes)
<1>1. Idle /\ UNCHANGED <<pages, n_pages>> /\ ea \in Nat /\ n \in Nat
  BY DEF BeginWrite
<1>2. View = [a \in 0..(n_pages * PageSize - 1) |-> ByteAt(a)]
  BY <1>1, ViewIdle DEF Idle
<1>3. CASE ea + n > byte_size
  <2>1. answer' = Flat!Trapped(Flat!WriteOf(ea, n, bytes)) /\ UNCHANGED call
    BY <1>3 DEF BeginWrite
  <2>2. View' = View /\ AbsAnswer' = answer'
    BY <1>1, <2>1 DEF View, Pending, Idle, ByteAt, AbsAnswer
  <2>3. QED BY <1>1, <1>3, <2>1, <2>2
            DEF Flat!FlatWrite, Flat!ByteSize, byte_size
<1>4. CASE ~(ea + n > byte_size)
  <2>1. call' = [op |-> "write", ea |-> ea, n |-> n, data |-> bytes, pos |-> 0]
    BY <1>4 DEF BeginWrite
  <2>2. AbsAnswer' = Flat!Returned(Flat!WriteOf(ea, n, bytes))
    BY <2>1 DEF AbsAnswer, Done, Flat!Returned, Flat!WriteOf, Flat!Request,
                Flat!Answer, Flat!Zeros
  <2>3. \A a : Pending(a)' <=> ea <= a /\ a < ea + n
    BY <1>1, <2>1 DEF Pending
  <2>4. View' = [a \in 0..(n_pages * PageSize - 1) |->
                   IF ea <= a /\ a < ea + n THEN bytes[a - ea] ELSE ByteAt(a)]
    BY <1>1, <2>1, <2>3 DEF View, ByteAt
  <2>5. View' = [a \in 0..(n_pages * PageSize - 1) |->
                   IF ea <= a /\ a < ea + n THEN bytes[a - ea] ELSE View[a]]
    BY <1>2, <2>4
  <2>6. QED BY <1>1, <1>4, <2>2, <2>5
            DEF Flat!FlatWrite, Flat!ByteSize, byte_size
<1>5. QED BY <1>3, <1>4

(* Reading a chunk is a stutter. *)
LEMMA ReadChunkRefines ==
  ASSUME Consistent, ReadChunk
  PROVE  UNCHANGED Flat!flatVars
<1>1. call.op = "read" /\ call'.op = "read"
      /\ UNCHANGED <<pages, n_pages, answer>>
  BY CallStep DEF ReadChunk, Consistent
<1>2. QED BY <1>1 DEF View, Pending, ByteAt, AbsAnswer, Flat!flatVars

\* A turn of write's loop moves bytes from the pending write to the pages.
LEMMA WriteChunkRefines ==
  ASSUME Consistent, WriteChunk
  PROVE  UNCHANGED Flat!flatVars
<1> DEFINE page == IF pi \in DOMAIN pages THEN pages[pi] ELSE ZeroPage
           written == [o \in 0..(PageSize - 1) |->
                         IF po <= o /\ o < po + take
                         THEN call.data[call.pos + (o - po)] ELSE page[o]]
<1>1. /\ call.op = "write" /\ call.pos < call.n
      /\ UNCHANGED <<n_pages, out, answer>>
      /\ pages' = [p \in DOMAIN pages \cup {pi} |->
                     IF p = pi THEN written ELSE pages[p]]
      /\ TypeOK
  BY DEF WriteChunk, Consistent
<1>2. /\ call'.op = call.op /\ call'.ea = call.ea /\ call'.n = call.n
      /\ call'.data = call.data /\ call'.pos = call.pos + take
  BY CallStep DEF WriteChunk, Consistent
<1>3. /\ take \in Nat /\ call.pos + take <= call.n
      /\ call.ea \in Nat /\ call.n \in Nat /\ call.pos \in Nat
      /\ n_pages * PageSize \in Nat /\ po \in Nat
  <2>1. call.ea \in Nat /\ call.n \in Nat /\ call.pos \in Nat /\ n_pages \in Nat
    BY <1>1 DEF TypeOK
  <2>2. take \in Nat /\ po \in 0..(PageSize - 1) /\ take <= call.n - call.pos
    BY <1>1, ChunkGeometry
  <2>3. PageSize \in Nat
    BY MemoryAssumption
  <2>4. n_pages * PageSize \in Nat
    BY <2>1, <2>3
  <2>5. QED BY <2>1, <2>2, <2>3, <2>4
<1>4. ASSUME NEW a \in 0..(n_pages * PageSize - 1)
      PROVE  View'[a] = View[a]
  <2> DEFINE inChunk == /\ call.ea + call.pos <= a
                        /\ a < call.ea + call.pos + take
             q == a \div PageSize
             r == a % PageSize
  <2>1. a \in Nat
    BY <1>3
  <2>2. View[a] = IF Pending(a) THEN call.data[a - call.ea] ELSE ByteAt(a)
    BY DEF View
  <2>3. View'[a] = IF Pending(a)' THEN call.data[a - call.ea] ELSE ByteAt(a)'
    BY <1>1, <1>2 DEF View
  <2>4. Pending(a) <=> inChunk \/ Pending(a)'
    BY <1>1, <1>2, <1>3, <2>1, SMTT(60) DEF Pending
  <2>5. inChunk => ~Pending(a)'
    BY <1>1, <1>2, <1>3, <2>1 DEF Pending
  <2>6. r \in 0..(PageSize - 1)
    BY <2>1, DivMod
  <2>7. CASE inChunk
    <3>1. q = pi /\ r = po + (a - (call.ea + call.pos))
      BY <1>1, <2>1, <2>7, InChunk
    <3>2. po <= r /\ r < po + take
      BY <1>1, <2>1, <2>7, <3>1, InChunk
    <3>3. ByteAt(a)' = written[r]
      BY <1>1, <3>1 DEF ByteAt
    <3>4. written[r] = call.data[call.pos + (r - po)]
      BY <2>6, <3>2
    <3>5. call.pos + (r - po) = a - call.ea
      BY <1>3, <2>1, <3>1
    <3>6. QED BY <2>2, <2>3, <2>4, <2>5, <2>7, <3>3, <3>4, <3>5
  <2>8. CASE ~inChunk
    <3>1. ByteAt(a)' = ByteAt(a)
      <4>1. CASE q # pi
        BY <1>1, <4>1 DEF ByteAt
      <4>2. CASE q = pi
        <5>1. ~(po <= r /\ r < po + take)
          BY <1>1, <2>1, <2>8, <4>2, InChunk
        <5>2. ByteAt(a)' = written[r]
          BY <1>1, <4>2 DEF ByteAt
        <5>3. written[r] = page[r]
          BY <2>6, <5>1
        <5>4. page[r] = ByteAt(a)
          BY <2>6, <4>2 DEF ByteAt, ZeroPage
        <5>5. QED BY <5>2, <5>3, <5>4
      <4>3. QED BY <4>1, <4>2
    <3>2. QED BY <2>2, <2>3, <2>4, <2>8, <3>1
  <2>9. QED BY <2>7, <2>8
<1>5. View' = View
  <2>1. /\ View = [a \in 0..(n_pages * PageSize - 1) |-> View[a]]
        /\ View' = [a \in 0..(n_pages * PageSize - 1) |-> View'[a]]
    BY <1>1 DEF View
  <2>2. QED BY <1>4, <2>1
<1>6. AbsAnswer' = AbsAnswer
  BY <1>1, <1>2 DEF AbsAnswer, Done
<1>7. QED BY <1>1, <1>5, <1>6 DEF Flat!flatVars

(* The answer to a read is what the flat memory holds; that to a write     *)
(* changes nothing.                                                        *)
LEMMA ReturnRefines ==
  ASSUME Consistent, Return
  PROVE  [Flat!FlatNext]_(Flat!flatVars)
<1>1. /\ UNCHANGED <<pages, n_pages>> /\ call' = NoCall /\ call'.op = "none"
      /\ call.pos = call.n /\ TypeOK /\ InBounds /\ ReadSoFar /\ ~Idle
  BY DEF Return, Consistent, TypeOK, NoCall
<1>2. /\ View' = [a \in 0..(n_pages * PageSize - 1) |-> ByteAt(a)]
      /\ AbsAnswer' = answer'
  BY <1>1 DEF View, Pending, ByteAt, AbsAnswer
<1>3. CASE call.op = "read"
  <2>1. View = [a \in 0..(n_pages * PageSize - 1) |-> ByteAt(a)]
    BY <1>3, ViewIdle
  <2>2. call.ea \in Address /\ call.n \in Lengths /\ call.ea \in Nat
        /\ call.n \in Nat /\ n_pages * PageSize \in Nat
    BY <1>1 DEF TypeOK
  <2>3. call.ea + call.n <= n_pages * PageSize
    BY <1>1 DEF InBounds, byte_size
  <2>4. \A i \in 0..(call.n - 1) : out[i] = View[call.ea + i]
    <3>1. ASSUME NEW i \in 0..(call.n - 1) PROVE out[i] = View[call.ea + i]
      <4>1. call.ea + i \in 0..(n_pages * PageSize - 1)
        BY <2>2, <2>3
      <4>2. out[i] = ByteAt(call.ea + i)
        BY <1>1, <1>3 DEF ReadSoFar
      <4>3. QED BY <2>1, <4>1, <4>2
    <3>2. QED BY <3>1
  <2>5. out = [i \in 0..(call.n - 1) |-> View[call.ea + i]]
    <3>1. out \in Flat!Bytes(call.n)
      BY <1>1, <1>3 DEF TypeOK
    <3>2. QED BY <2>4, <3>1 DEF Flat!Bytes
  <2>6. answer' = Flat!Read(Flat!ReadOf(call.ea, call.n), out)
    BY <1>3 DEF Return
  <2>7. ~(call.ea + call.n > n_pages * PageSize)
    BY <2>2, <2>3
  <2>8. Flat!FlatRead(call.ea, call.n)
    BY <1>1, <1>2, <2>1, <2>5, <2>6, <2>7 DEF Flat!FlatRead, Flat!ByteSize
  <2>9. QED BY <2>2, <2>8 DEF Flat!FlatNext
<1>4. CASE call.op = "write"
  <2>1. \A a \in 0..(n_pages * PageSize - 1) : ~Pending(a)
    BY <1>1 DEF Pending, TypeOK
  <2>2. View' = View
    BY <1>2, <2>1 DEF View
  <2>3. answer' = AbsAnswer
    BY <1>4 DEF Return, AbsAnswer, Done, Flat!Returned, Flat!WriteOf,
                Flat!Request, Flat!Answer, Flat!Zeros
  <2>4. QED BY <1>1, <1>2, <2>2, <2>3 DEF Flat!flatVars
<1>5. QED BY <1>1, <1>3, <1>4 DEF TypeOK, Idle

(* Every step is a step of the flat memory, or a stutter. *)
LEMMA NextRefines == Consistent /\ [Next]_vars => [Flat!FlatNext]_(Flat!flatVars)
<1> SUFFICES ASSUME Consistent, [Next]_vars PROVE [Flat!FlatNext]_(Flat!flatVars)
  OBVIOUS
<1>1. ASSUME NEW d \in Deltas, Grow(d) PROVE Flat!FlatNext
  BY <1>1, GrowRefines DEF Flat!FlatNext
<1>2. ASSUME NEW ea \in Address, NEW n \in Lengths, BeginRead(ea, n)
      PROVE  [Flat!FlatNext]_(Flat!flatVars)
  BY <1>2, BeginReadRefines
<1>3. ASSUME NEW ea \in Address, NEW n \in Lengths,
             NEW bytes \in Flat!Bytes(n), BeginWrite(ea, n, bytes)
      PROVE  Flat!FlatNext
  BY <1>3, BeginWriteRefines DEF Flat!FlatNext
<1>4. CASE Step
  BY <1>4, ReadChunkRefines, WriteChunkRefines, ReturnRefines DEF Step
<1>5. CASE UNCHANGED vars
  BY <1>5 DEF vars, View, Pending, ByteAt, AbsAnswer, Done, Flat!flatVars
<1>6. QED BY <1>1, <1>2, <1>3, <1>4, <1>5 DEF Next

(* The lazily paged memory implements the flat one, for every page size:   *)
(* a straddling access reads and writes what one flat array would, an      *)
(* access out of bounds changes nothing, and a page grow adds is zero.     *)
THEOREM LazyImplementsFlat == Spec => ImplementsFlat
<1>1. Init => Flat!FlatInit BY InitRefines
<1>2. Consistent /\ [Next]_vars => [Flat!FlatNext]_(Flat!flatVars) BY NextRefines
<1>3. Spec => []Consistent BY Invariance
<1>4. QED BY <1>1, <1>2, <1>3, PTL DEF Spec, ImplementsFlat, Flat!FlatSpec
=============================================================================
