----------------------------- MODULE LazyMemory ------------------------------
(***************************************************************************)
(* interp5/machine.py, class Memory: pages come into existence when they   *)
(* are first written, absent pages read as zero, and an access that        *)
(* straddles pages is done in a loop, one page at a time.  Each turn of    *)
(* the loops is a step here; FlatMemory says what the whole operation is.  *)
(***************************************************************************)
EXTENDS Integers

CONSTANTS PageSize, MaxPages, MinPages, Declared, NoMax, Byte,
          Address, Lengths, Deltas

VARIABLES pages,    \* Memory.pages: page index -> page, materialised ones only
          n_pages,  \* Memory.n_pages
          call,     \* the read or write under way, and how far its loop is
          out,      \* read's result buffer
          answer    \* the last finished operation and what it returned

vars == <<pages, n_pages, call, out, answer>>

(* The flat memory this one implements.  The bytes a write has not reached *)
(* yet are laid over the pages: the write takes effect, in the abstract,   *)
(* when its bounds check passes, and the loop only carries it out.         *)
ByteAt(a) == IF a \div PageSize \in DOMAIN pages
             THEN pages[a \div PageSize][a % PageSize] ELSE 0
Pending(a) == /\ call.op = "write"
              /\ call.ea + call.pos <= a /\ a < call.ea + call.n
View == [a \in 0..(n_pages * PageSize - 1) |->
           IF Pending(a) THEN call.data[a - call.ea] ELSE ByteAt(a)]

Done == [req |-> [op |-> "write", at |-> call.ea, n |-> call.n,
                  data |-> call.data],
         tag |-> "returned", pages |-> 0, bytes |-> [i \in 0..(0 - 1) |-> 0]]
AbsAnswer == IF call.op = "write" THEN Done ELSE answer

Flat == INSTANCE FlatMemory WITH
          size <- n_pages, data <- View, answer <- AbsAnswer,
          HostCanFail <- FALSE

Cap == IF Declared = NoMax THEN MaxPages ELSE Declared
byte_size == n_pages * PageSize

ASSUME MemoryAssumption ==
  /\ PageSize \in Nat \ {0} /\ MaxPages \in Nat /\ MinPages \in Nat
  /\ Cap \in Nat /\ MinPages <= Cap
  /\ 0 \in Byte
  /\ Address \subseteq Nat /\ Lengths \subseteq Nat /\ Deltas \subseteq Nat

Page == [0..(PageSize - 1) -> Byte]
ZeroPage == [o \in 0..(PageSize - 1) |-> 0]

NoCall == [op |-> "none", ea |-> 0, n |-> 0, data |-> Flat!Zeros(0), pos |-> 0]
Idle == call.op = "none"

Init ==
  /\ pages = [p \in {} |-> ZeroPage]
  /\ n_pages = MinPages
  /\ call = NoCall /\ out = Flat!Zeros(0) /\ answer = Flat!Returned(Flat!NoRequest)

\* Mutant: the cap is compared with the size before the growth.
Grow_unchecked(d) ==
  /\ Idle
  /\ IF n_pages > Cap
     THEN answer' = Flat!Refused(Flat!GrowOf(d)) /\ UNCHANGED n_pages
     ELSE n_pages' = n_pages + d /\ answer' = Flat!Grown(Flat!GrowOf(d), n_pages)
  /\ UNCHANGED <<pages, call, out>>

(* Memory.grow: no allocation, so only the cap can refuse.                 *)
Grow(d) ==
  /\ Idle
  /\ IF n_pages + d > Cap
     THEN answer' = Flat!Refused(Flat!GrowOf(d)) /\ UNCHANGED n_pages
     ELSE n_pages' = n_pages + d /\ answer' = Flat!Grown(Flat!GrowOf(d), n_pages)
  /\ UNCHANGED <<pages, call, out>>

(* Memory.read and Memory.write, up to the loop: the bounds check on the   *)
(* whole access, before anything is touched.                               *)
BeginRead(ea, n) ==
  /\ Idle
  /\ IF ea + n > byte_size
     THEN answer' = Flat!Trapped(Flat!ReadOf(ea, n)) /\ UNCHANGED <<call, out>>
     ELSE /\ call' = [op |-> "read", ea |-> ea, n |-> n,
                      data |-> Flat!Zeros(0), pos |-> 0]
          /\ out' = Flat!Zeros(n) /\ UNCHANGED answer
  /\ UNCHANGED <<pages, n_pages>>

BeginWrite(ea, n, data) ==
  /\ Idle
  /\ IF ea + n > byte_size
     THEN answer' = Flat!Trapped(Flat!WriteOf(ea, n, data)) /\ UNCHANGED call
     ELSE /\ call' = [op |-> "write", ea |-> ea, n |-> n,
                      data |-> data, pos |-> 0]
          /\ UNCHANGED answer
  /\ UNCHANGED <<pages, n_pages, out>>

(* One turn of either loop: divmod of the address reached, and as many     *)
(* bytes as are left of the access or of the page.                         *)
pi == (call.ea + call.pos) \div PageSize
po == (call.ea + call.pos) % PageSize
\* Mutant: stops one byte short of the page's end.
take_short == IF call.n - call.pos < PageSize - po THEN call.n - call.pos
              ELSE PageSize - po - 1
take == IF call.n - call.pos < PageSize - po THEN call.n - call.pos
        ELSE PageSize - po

ReadChunk ==
  /\ call.op = "read" /\ call.pos < call.n
  /\ out' = [i \in 0..(call.n - 1) |->
               IF call.pos <= i /\ i < call.pos + take
               THEN IF pi \in DOMAIN pages THEN pages[pi][po + (i - call.pos)]
                    ELSE 0
               ELSE out[i]]
  /\ call' = [call EXCEPT !.pos = @ + take]
  /\ UNCHANGED <<pages, n_pages, answer>>

\* Mutant: takes a new page even where there is one.
WriteChunk_new_page ==
  /\ call.op = "write" /\ call.pos < call.n
  /\ LET written == [o \in 0..(PageSize - 1) |->
                       IF po <= o /\ o < po + take
                       THEN call.data[call.pos + (o - po)] ELSE 0]
     IN  pages' = [p \in DOMAIN pages \cup {pi} |->
                     IF p = pi THEN written ELSE pages[p]]
  /\ call' = [call EXCEPT !.pos = @ + take]
  /\ UNCHANGED <<n_pages, out, answer>>

WriteChunk ==
  /\ call.op = "write" /\ call.pos < call.n
  /\ LET page == IF pi \in DOMAIN pages THEN pages[pi] ELSE ZeroPage
         written == [o \in 0..(PageSize - 1) |->
                       IF po <= o /\ o < po + take
                       THEN call.data[call.pos + (o - po)] ELSE page[o]]
     IN  pages' = [p \in DOMAIN pages \cup {pi} |->
                     IF p = pi THEN written ELSE pages[p]]
  /\ call' = [call EXCEPT !.pos = @ + take]
  /\ UNCHANGED <<n_pages, out, answer>>

Return ==
  /\ ~Idle /\ call.pos >= call.n
  /\ answer' = IF call.op = "read"
               THEN Flat!Read(Flat!ReadOf(call.ea, call.n), out)
               ELSE Flat!Returned(Flat!WriteOf(call.ea, call.n, call.data))
  /\ call' = NoCall /\ out' = Flat!Zeros(0)
  /\ UNCHANGED <<pages, n_pages>>

Step == ReadChunk \/ WriteChunk \/ Return

Next ==
  \/ \E d \in Deltas : Grow(d)
  \/ \E ea \in Address, n \in Lengths : BeginRead(ea, n)
  \/ \E ea \in Address, n \in Lengths : \E data \in Flat!Bytes(n) :
       BeginWrite(ea, n, data)
  \/ Step

Spec == Init /\ [][Next]_vars
FairSpec == Spec /\ WF_vars(Step)

----------------------------------------------------------------------------
TypeOK ==
  /\ n_pages \in Nat
  /\ DOMAIN pages \subseteq Nat
  /\ \A p \in DOMAIN pages : pages[p] \in Page
  /\ call = [op |-> call.op, ea |-> call.ea, n |-> call.n,
             data |-> call.data, pos |-> call.pos]
  /\ call.op \in {"none", "read", "write"}
  /\ call.ea \in Nat /\ call.n \in Nat /\ call.pos \in 0..call.n
  /\ ~Idle => call.ea \in Address /\ call.n \in Lengths
  /\ call.op = "write" => call.data \in Flat!Bytes(call.n)
  /\ call.op = "read" => out \in Flat!Bytes(call.n)

(* The memory never outgrows its cap, an access under way stays inside the *)
(* memory, and no page exists beyond the current size: a page that grow    *)
(* adds has not been written before, so it reads as zero.                  *)
InBounds ==
  /\ n_pages <= Cap
  /\ DOMAIN pages \subseteq 0..(n_pages - 1)
  /\ ~Idle => call.ea + call.n <= byte_size

(* What read has copied so far is what the flat memory holds there.        *)
ReadSoFar ==
  call.op = "read" =>
    \A i \in 0..(call.pos - 1) : out[i] = ByteAt(call.ea + i)

(* The memory between two turns of its loops, whole: its types, its bounds *)
(* and what the read under way has copied.  It is inductive.               *)
Consistent == TypeOK /\ InBounds /\ ReadSoFar

(* The lazy memory implements the flat one: same answers, same contents,   *)
(* whatever the order of grows and straddling accesses.                    *)
ImplementsFlat == Flat!FlatSpec

(* Every access under way ends: each turn of a loop makes progress.        *)
CallsReturn == (call.op # "none") ~> (call.op = "none")
=============================================================================
