----------------------------- MODULE NumericProofs -----------------------------
(***************************************************************************)
(* The integer instructions of module IntMeaning are exact, and the two    *)
(* machines agree on them, for every width of an i32 that the sign         *)
(* extensions can halve twice: 32 bits and 64 are one case.  The integers  *)
(* of a file (module LebMeaning) are read exactly, too, for every width    *)
(* and every size of a byte's payload.                                     *)
(*                                                                         *)
(* The formulas are divisions by powers of two, so the facts about them    *)
(* rest on induction over the naturals, here by the least member of a set; *)
(* a statement about every number below 2^n becomes one about its bits.    *)
(*                                                                         *)
(* The floats of module FMeaning have the special values they should, in   *)
(* every two formats that FormatAssumption allows; how they round is       *)
(* proved in FloatProofs.                                                  *)
(***************************************************************************)
EXTENDS Numeric, LebMeaning, FiniteSetTheorems, WellFoundedInduction, TLAPS

(* A set of natural numbers that is not empty has a least member.          *)
LEMMA Least ==
  ASSUME NEW S \in SUBSET Nat, S # {}
  PROVE  \E n \in S : \A m \in S : ~(m < n)
<1>1. PICK n \in S : \A m \in S : ~(<<m, n>> \in OpToRel(<, Nat))
  BY NatLessThanWellFounded, WFMin, Zenon
<1>2. \A m \in S : ~(m < n)
  BY <1>1 DEF OpToRel
<1> QED BY <1>2

(* Induction over the naturals, on the set of those that have the          *)
(* property.                                                               *)
LEMMA Induction ==
  ASSUME NEW S \in SUBSET Nat, 0 \in S, \A n \in S : n + 1 \in S
  PROVE  \A n \in Nat : n \in S
<1> SUFFICES ASSUME Nat \ S # {} PROVE FALSE
  OBVIOUS
<1>1. PICK n \in Nat \ S : \A m \in Nat \ S : ~(m < n)
  BY Least
<1>2. n # 0 /\ n - 1 \in Nat
  OBVIOUS
<1>3. n - 1 \in S
  BY <1>1, <1>2
<1>4. (n - 1) + 1 \in S
  BY <1>3
<1> QED BY <1>4

----------------------------------------------------------------------------
(* Numbers and powers of two.                                              *)

(* Quotient and remainder, as TLA+ defines them.                           *)
LEMMA DivMod ==
  ASSUME NEW a \in Int, NEW b \in Nat \ {0}
  PROVE  /\ a \div b \in Int
         /\ a % b \in 0..(b - 1)
         /\ a = (b * (a \div b)) + (a % b)
OBVIOUS

(* No other quotient and remainder give the same number.                   *)
LEMMA Unique ==
  ASSUME NEW b \in Nat \ {0}, NEW q \in Int, NEW p \in Int,
         NEW s \in 0..(b - 1), NEW t \in 0..(b - 1), b * q + s = b * p + t
  PROVE  q = p /\ s = t
<1>1. \A d \in Int : d >= 1 => b * d >= b OBVIOUS
<1>2. b * (q - p) = t - s OBVIOUS
<1>3. b * (p - q) = s - t OBVIOUS
<1>4. ~(q - p >= 1) BY <1>1, <1>2
<1>5. ~(p - q >= 1) BY <1>1, <1>3
<1> QED BY <1>4, <1>5

(* A power of two counts the subsets of a set, so it is a natural number,  *)
(* and not zero.                                                           *)
LEMMA PowIsNat == \A n \in Nat : 2^n \in Nat \ {0}
<1> SUFFICES ASSUME NEW n \in Nat PROVE 2^n \in Nat /\ 2^n # 0 OBVIOUS
<1>1. IsFiniteSet(1..n) /\ Cardinality(1..n) = n BY FS_Interval
<1>2. IsFiniteSet(SUBSET (1..n)) /\ Cardinality(SUBSET (1..n)) = 2^n BY <1>1, FS_SUBSET
<1>3. 2^n \in Nat BY <1>2, FS_CardinalityType
<1>4. Cardinality(SUBSET (1..n)) # 0 BY <1>2, FS_EmptySet
<1> QED BY <1>2, <1>3, <1>4

(* The subsets of 1..n+1 are those of 1..n, without and with n + 1.        *)
LEMMA PowNext == \A n \in Nat : 2^(n + 1) = 2 * 2^n
<1> SUFFICES ASSUME NEW n \in Nat PROVE 2^(n + 1) = 2 * 2^n
  OBVIOUS
<1> DEFINE A == SUBSET (1..n)
           With(s) == s \cup {n + 1}
           B == {With(s) : s \in A}
           f == [s \in A |-> With(s)]
<1>1. IsFiniteSet(A) /\ Cardinality(A) = 2^n
  <2>1. IsFiniteSet(1..n) /\ Cardinality(1..n) = n
    BY FS_Interval
  <2> QED BY <2>1, FS_SUBSET
<1>2. Cardinality(SUBSET (1..(n + 1))) = 2^(n + 1)
  <2>1. IsFiniteSet(1..(n + 1)) /\ Cardinality(1..(n + 1)) = n + 1
    BY FS_Interval
  <2> QED BY <2>1, FS_SUBSET
<1>3. \A s \in A : n + 1 \notin s
  OBVIOUS
<1>4. f \in Bijection(A, B)
  <2>1. f \in [A -> B]
    OBVIOUS
  <2>2. ASSUME NEW s \in A, NEW t \in A, With(s) = With(t) PROVE s = t
    BY <2>2, <1>3
  <2>3. f \in Injection(A, B)
    BY <2>1, <2>2 DEF Injection, IsInjective
  <2>4. f \in Surjection(A, B)
    BY <2>1 DEF Surjection
  <2> QED BY <2>3, <2>4 DEF Bijection
<1>5. IsFiniteSet(B) /\ Cardinality(B) = Cardinality(A)
  BY <1>1, <1>4, FS_Bijection DEF ExistsBijection
<1>6. SUBSET (1..(n + 1)) = A \cup B
  <2>1. ASSUME NEW s \in SUBSET (1..(n + 1)) PROVE s \in A \cup B
    <3>1. CASE n + 1 \in s
      <4>1. s \ {n + 1} \in A
        OBVIOUS
      <4>2. s = With(s \ {n + 1})
        BY <3>1
      <4> QED BY <4>1, <4>2
    <3>2. CASE n + 1 \notin s
      BY <3>2
    <3> QED BY <3>1, <3>2
  <2>2. ASSUME NEW s \in A PROVE s \in SUBSET (1..(n + 1)) /\ With(s) \in SUBSET (1..(n + 1))
    OBVIOUS
  <2>3. SUBSET (1..(n + 1)) \subseteq A \cup B
    BY <2>1
  <2>4. A \subseteq SUBSET (1..(n + 1))
    BY <2>2
  <2>5. B \subseteq SUBSET (1..(n + 1))
    <3> SUFFICES ASSUME NEW t \in B PROVE t \in SUBSET (1..(n + 1))
      OBVIOUS
    <3>1. PICK s \in A : t = With(s)
      OBVIOUS
    <3> QED BY <2>2, <3>1
  <2> QED BY <2>3, <2>4, <2>5
<1>7. A \cap B = {}
  BY <1>3
<1>8. Cardinality(A \cup B) = Cardinality(A) + Cardinality(B) - Cardinality(A \cap B)
  BY <1>1, <1>5, FS_Union
<1>9. Cardinality(A \cap B) = 0
  BY <1>7, FS_EmptySet
<1>10. 2^(n + 1) = Cardinality(A \cup B)
  BY <1>2, <1>6
<1> HIDE DEF A, B
<1> QED BY <1>1, <1>5, <1>8, <1>9, <1>10, PowIsNat

(* Exponents add.                                                          *)
LEMMA PowSum == \A m, n \in Nat : 2^(m + n) = 2^m * 2^n
<1> SUFFICES ASSUME NEW m \in Nat PROVE \A n \in Nat : 2^(m + n) = 2^m * 2^n
  OBVIOUS
<1> DEFINE S == {n \in Nat : 2^(m + n) = 2^m * 2^n}
<1>0. S \in SUBSET Nat
  OBVIOUS
<1>1. 0 \in S
  BY PowIsNat
<1>2. ASSUME NEW n \in S PROVE n + 1 \in S
  <2>1. 2^(m + n) = 2^m * 2^n
    OBVIOUS
  <2>2. 2^(n + 1) = 2 * 2^n /\ 2^((m + n) + 1) = 2 * 2^(m + n)
    BY PowNext
  <2>3. 2^m * (2 * 2^n) = 2 * (2^m * 2^n)
    BY PowIsNat
  <2>4. m + (n + 1) = (m + n) + 1
    OBVIOUS
  <2> QED BY <2>1, <2>2, <2>3, <2>4
<1>3. \A n \in Nat : n \in S
  <2> HIDE DEF S
  <2> QED BY <1>1, <1>2, <1>0, Induction
<1> QED BY <1>3

(* A power of two is above its exponent.                                   *)
LEMMA PowAbove == \A n \in Nat : n < 2^n
<1> DEFINE S == {n \in Nat : n < 2^n}
<1>0. S \in SUBSET Nat
  OBVIOUS
<1>1. 0 \in S
  OBVIOUS
<1>2. ASSUME NEW n \in S PROVE n + 1 \in S
  BY PowNext, PowIsNat
<1>3. \A n \in Nat : n \in S
  <2> HIDE DEF S
  <2> QED BY <1>1, <1>2, <1>0, Induction
<1> QED BY <1>3

(* Powers of two grow with the exponent.                                   *)
LEMMA PowMonotone == \A m, n \in Nat : m <= n => 2^m <= 2^n
<1> SUFFICES ASSUME NEW m \in Nat, NEW n \in Nat, m <= n PROVE 2^m <= 2^n
  OBVIOUS
<1> DEFINE d == n - m
<1>1. d \in Nat /\ m + d = n
  OBVIOUS
<1> HIDE DEF d
<1>2. 2^n = 2^m * 2^d
  BY <1>1, PowSum
<1>3. \A x, y \in Nat \ {0} : x <= x * y
  OBVIOUS
<1> QED BY <1>1, <1>2, <1>3, PowIsNat

(* A quotient is recognized by its remainder.                              *)
LEMMA QuotientIs ==
  ASSUME NEW a \in Int, NEW b \in Nat \ {0}, NEW q \in Int, NEW s \in 0..(b - 1), a = b * q + s
  PROVE  a \div b = q /\ a % b = s
  BY DivMod, Unique

(* Two divisions are one, by the product: two shifts add their counts.     *)
LEMMA QuotientAgain ==
  ASSUME NEW a \in Int, NEW b \in Nat \ {0}, NEW c \in Nat \ {0}
  PROVE  (a \div b) \div c = a \div (b * c)
<1> DEFINE q == a \div b
           s == a % b
           p == q \div c
           t == q % c
<1>1. q \in Int /\ s \in 0..(b - 1) /\ a = (b * q) + s
  BY DivMod
<1>2. p \in Int /\ t \in 0..(c - 1) /\ q = (c * p) + t
  BY <1>1, DivMod
<1> HIDE DEF q, s, p, t
<1>3. b * c \in Nat \ {0}
  OBVIOUS
<1>4. a = ((b * c) * p) + (b * t + s)
  BY <1>1, <1>2
<1>5. b * t + s \in 0..((b * c) - 1)
  <2>1. b * t \in Int /\ b * t >= 0
    BY <1>2
  <2>2. b * t <= b * (c - 1)
    BY <1>2
  <2> QED BY <1>1, <2>1, <2>2
<1>6. a \div (b * c) = p
  BY <1>3, <1>4, <1>5, <1>2, QuotientIs
<1> QED BY <1>6 DEF q, p

----------------------------------------------------------------------------
(* Numbers and their bits.                                                 *)

(* A function defined by recursion on a number up to n exists.             *)
LEMMA RecursionOn ==
  ASSUME NEW c, NEW n \in Nat
  PROVE  \E f : f = [k \in 0..n |-> IF k = 0 THEN 0 ELSE f[k - 1] + c[k - 1]]
<1> DEFINE Fcn(f, k) == f = [i \in 0..k |-> IF i = 0 THEN 0 ELSE f[i - 1] + c[i - 1]]
           S == {k \in Nat : \E f : Fcn(f, k)}
<1>0. S \in SUBSET Nat
  OBVIOUS
<1>1. 0 \in S
  <2> DEFINE f == [i \in 0..0 |-> 0]
  <2>1. Fcn(f, 0)
    OBVIOUS
  <2> QED BY <2>1
<1>2. ASSUME NEW k \in S PROVE k + 1 \in S
  <2>1. PICK f : Fcn(f, k)
    OBVIOUS
  <2> DEFINE g == [i \in 0..(k + 1) |-> IF i = k + 1 THEN f[k] + c[k] ELSE f[i]]
  <2>2. \A i \in 0..k : g[i] = f[i]
    OBVIOUS
  <2>3. \A i \in 0..k : f[i] = IF i = 0 THEN 0 ELSE f[i - 1] + c[i - 1]
    BY <2>1
  <2>4. ASSUME NEW i \in 0..(k + 1) PROVE g[i] = IF i = 0 THEN 0 ELSE g[i - 1] + c[i - 1]
    <3>1. CASE i = k + 1
      BY <3>1
    <3>2. CASE i \in 0..k
      BY <3>2, <2>2, <2>3
    <3> QED BY <3>1, <3>2
  <2>5. g = [i \in 0..(k + 1) |-> IF i = 0 THEN 0 ELSE g[i - 1] + c[i - 1]]
    BY <2>4
  <2>6. Fcn(g, k + 1)
    BY <2>5
  <2> HIDE DEF g, Fcn
  <2> QED BY <2>6
<1>3. n \in S
  <2> HIDE DEF S
  <2> QED BY <1>0, <1>1, <1>2, Induction
<1> QED BY <1>3

(* A bit is zero or one.                                                   *)
LEMMA BitType == \A v \in Int, i \in Nat : Bit(v, i) \in {0, 1}
<1> SUFFICES ASSUME NEW v \in Int, NEW i \in Nat PROVE Bit(v, i) \in {0, 1}
  OBVIOUS
<1>1. v \div 2^i \in Int
  BY PowIsNat, DivMod
<1> QED BY <1>1 DEF Bit

(* A number is its bits from i on, and what is below.                      *)
Cut(v, i, q, s) == v \in Int /\ i \in Nat /\ q \in Int /\ s \in 0..(2^i - 1) /\ v = 2^i * q + s

(* Bit i is the lowest of the bits from i on.                              *)
LEMMA BitFromHalves ==
  ASSUME NEW i, NEW v, NEW q, NEW s, Cut(v, i, q, s)
  PROVE  Bit(v, i) = q % 2
<1>1. v \div 2^i = q
  BY PowIsNat, QuotientIs DEF Cut
<1> QED BY <1>1 DEF Bit

(* Dividing by a power of two moves the bits down.                         *)
LEMMA BitOfQuotient ==
  ASSUME NEW v \in Int, NEW k \in Nat, NEW i \in Nat
  PROVE  Bit(v \div 2^k, i) = Bit(v, i + k)
<1>1. (v \div 2^k) \div 2^i = v \div (2^k * 2^i)
  BY PowIsNat, QuotientAgain
<1>2. 2^(i + k) = 2^k * 2^i
  BY PowSum, PowIsNat
<1> QED BY <1>1, <1>2 DEF Bit

(* A number below 2^n has no bit from n on.                                *)
LEMMA BitAbove ==
  ASSUME NEW n \in Nat, NEW v \in 0..(2^n - 1), NEW i \in Nat, i >= n
  PROVE  Bit(v, i) = 0
<1>1. v \in 0..(2^i - 1)
  <2>1. 2^n <= 2^i
    BY PowMonotone
  <2> QED BY <2>1, PowIsNat
<1>2. Cut(v, i, 0, v)
  BY <1>1, PowIsNat DEF Cut
<1> QED BY <1>2, BitFromHalves

(* The highest of n bits tells which half a number is in.                  *)
LEMMA TopBit ==
  ASSUME NEW n \in Nat \ {0}, NEW v \in 0..(2^n - 1)
  PROVE  Bit(v, n - 1) = IF v >= 2^(n - 1) THEN 1 ELSE 0
<1>1. n - 1 \in Nat /\ 2^n = 2 * 2^(n - 1)
  BY PowNext
<1>2. CASE v >= 2^(n - 1)
  <2>1. v = 2^(n - 1) * 1 + (v - 2^(n - 1))
    BY <1>1, PowIsNat
  <2>2. v - 2^(n - 1) \in 0..(2^(n - 1) - 1)
    BY <1>1, <1>2, PowIsNat
  <2>3. Cut(v, n - 1, 1, v - 2^(n - 1))
    BY <1>1, <2>1, <2>2 DEF Cut
  <2>4. Bit(v, n - 1) = 1 % 2
    BY <2>3, BitFromHalves
  <2> QED BY <1>2, <2>4
<1>3. CASE v < 2^(n - 1)
  <2>1. v \in 0..(2^(n - 1) - 1)
    BY <1>1, <1>3, PowIsNat
  <2> QED BY <1>1, <1>3, <2>1, BitAbove
<1> QED BY <1>1, <1>2, <1>3, PowIsNat

(* A mask keeps the bits below it.                                         *)
LEMMA BitOfMask ==
  ASSUME NEW v \in Int, NEW n \in Nat, NEW i \in Nat, i < n
  PROVE  Bit(v % 2^n, i) = Bit(v, i)
<1> DEFINE q == v \div 2^n
           s == v % 2^n
           h == s \div 2^i
           t == s % 2^i
           c == 2^(n - 1 - i)
<1>0. 2^n \in Nat \ {0}
  BY PowIsNat
<1>1. q \in Int /\ s \in Int /\ v = 2^n * q + s
  <2> DEFINE M == 2^n
  <2>1. v \div M \in Int /\ v % M \in 0..(M - 1) /\ v = (M * (v \div M)) + (v % M)
    <3> HIDE DEF M
    <3> QED BY <1>0, DivMod DEF M
  <2> QED BY <2>1, <1>0
<1>2. h \in Int /\ t \in 0..(2^i - 1) /\ s = 2^i * h + t
  BY <1>1, DivMod, PowIsNat
<1>3. c \in Nat /\ 2^n = 2^i * (2 * c)
  <2>1. n - 1 - i \in Nat /\ (i + 1) + (n - 1 - i) = n
    OBVIOUS
  <2>2. 2^n = 2^(i + 1) * c /\ 2^(i + 1) = 2 * 2^i
    BY <2>1, PowSum, PowNext
  <2>3. c \in Nat /\ 2^i \in Nat
    BY <2>1, PowIsNat
  <2> HIDE DEF c
  <2> QED BY <2>2, <2>3
<1>4. 2^i \in Nat
  BY PowIsNat
<1> HIDE DEF q, h, t, c
<1>5. Bit(s, i) = h % 2
  <2>1. Cut(s, i, h, t)
    BY <1>1, <1>2 DEF Cut
  <2> QED BY <2>1, BitFromHalves
<1>6. v = 2^i * (2 * (c * q) + h) + t
  BY <1>1, <1>2, <1>3, <1>4
<1>7. Bit(v, i) = (2 * (c * q) + h) % 2
  <2>1. Cut(v, i, 2 * (c * q) + h, t)
    <3>1. 2 * (c * q) + h \in Int
      BY <1>1, <1>2, <1>3
    <3> QED BY <3>1, <1>2, <1>6 DEF Cut
  <2> QED BY <2>1, BitFromHalves
<1>8. \A x, y \in Int : (2 * x + y) % 2 = y % 2
  OBVIOUS
<1>9. c * q \in Int
  BY <1>1, <1>3
<1> QED BY <1>2, <1>5, <1>7, <1>8, <1>9

(* A number moved up by k bits.                                            *)
Shifted(v, k) == v * 2^k

(* Multiplying by a power of two moves the bits up, and fills with zeros.  *)
LEMMA BitOfShift ==
  ASSUME NEW v \in Int, NEW k \in Nat, NEW i \in Nat
  PROVE  Bit(Shifted(v, k), i) = IF i < k THEN 0 ELSE Bit(v, i - k)
<1>1. CASE i < k
  <2> DEFINE c == 2^(k - 1 - i)
  <2>1. c \in Nat /\ 2^k = 2^i * (2 * c)
    <3>1. k - 1 - i \in Nat /\ (i + 1) + (k - 1 - i) = k
      BY <1>1
    <3>2. 2^k = 2^(i + 1) * c /\ 2^(i + 1) = 2 * 2^i
      BY <3>1, PowSum, PowNext
    <3>3. c \in Nat /\ 2^i \in Nat
      BY <3>1, PowIsNat
    <3> HIDE DEF c
    <3> QED BY <3>2, <3>3
  <2> HIDE DEF c
  <2>2. v * 2^k = 2^i * (2 * (c * v)) + 0 /\ 2^i \in Nat \ {0} /\ c * v \in Int
    BY <2>1, PowIsNat
  <2>3. Bit(v * 2^k, i) = (2 * (c * v)) % 2
    <3>1. Cut(v * 2^k, i, 2 * (c * v), 0)
      BY <2>1, <2>2, PowIsNat DEF Cut
    <3> QED BY <3>1, BitFromHalves
  <2>4. \A x \in Int : (2 * x) % 2 = 0
    OBVIOUS
  <2> QED BY <1>1, <2>2, <2>3, <2>4 DEF Shifted
<1>2. CASE i >= k
  <2>1. (v * 2^k) \div 2^k = v
    <3>1. v * 2^k = 2^k * v + 0 /\ v * 2^k \in Int
      BY PowIsNat
    <3> QED BY <3>1, PowIsNat, QuotientIs
  <2>2. Bit((v * 2^k) \div 2^k, i - k) = Bit(v * 2^k, (i - k) + k)
    <3>1. v * 2^k \in Int /\ i - k \in Nat
      BY <1>2, PowIsNat
    <3> QED BY <3>1, BitOfQuotient
  <2>3. (i - k) + k = i /\ ~(i < k)
    BY <1>2
  <2> QED BY <2>1, <2>2, <2>3 DEF Shifted
<1> QED BY <1>1, <1>2

(* A number whose bits from n on are zero is below 2^n.                    *)
LEMMA ClearAbove ==
  ASSUME NEW n \in Nat, NEW m \in Nat, NEW v \in 0..(2^(n + m) - 1),
         \A i \in n..(n + m - 1) : Bit(v, i) = 0
  PROVE  v < 2^n
<1> DEFINE S == {k \in Nat : k <= m => v < 2^(n + m - k)}
<1>0. S \in SUBSET Nat
  OBVIOUS
<1>1. 0 \in S
  BY PowIsNat
<1>2. ASSUME NEW k \in S PROVE k + 1 \in S
  <2> SUFFICES ASSUME k + 1 <= m PROVE v < 2^(n + m - (k + 1))
    OBVIOUS
  <2> DEFINE l == n + m - k
  <2>1. l \in Nat \ {0} /\ v < 2^l /\ l - 1 = n + m - (k + 1) /\ l - 1 \in n..(n + m - 1)
    OBVIOUS
  <2>2. v \in 0..(2^l - 1)
    BY <2>1, PowIsNat
  <2>3. Bit(v, l - 1) = 0
    BY <2>1
  <2> HIDE DEF l
  <2>4. v < 2^(l - 1)
    BY <2>1, <2>2, <2>3, TopBit, PowIsNat
  <2> QED BY <2>1, <2>4
<1>3. m \in S
  <2> HIDE DEF S
  <2> QED BY <1>0, <1>1, <1>2, Induction
<1> QED BY <1>3

(* Python's &, | and ^ work bit by bit, and stay within the width.         *)
LEMMA CombinedFacts ==
  ASSUME NEW ones,
         NEW n \in Nat, NEW a \in Int, NEW b \in Int
  PROVE  /\ Combined(n, ones, a, b) \in 0..(2^n - 1)
         /\ \A i \in 0..(n - 1) : Bit(Combined(n, ones, a, b), i) = Flag(Bit(a, i) + Bit(b, i) \in ones)
<1> DEFINE kept(i) == Flag(Bit(a, i) + Bit(b, i) \in ones)
           c == [k \in 0..n |-> 2^k * kept(k)]
           low == CHOOSE f : f = [k \in 0..n |-> IF k = 0 THEN 0 ELSE f[k - 1] + 2^(k - 1) * kept(k - 1)]
<1>1. Combined(n, ones, a, b) = low[n]
  BY DEF Combined
<1>2. \A k \in 0..n : low[k] = IF k = 0 THEN 0 ELSE low[k - 1] + 2^(k - 1) * kept(k - 1)
  <2> HIDE DEF kept
  <2>1. PICK f : f = [k \in 0..n |-> IF k = 0 THEN 0 ELSE f[k - 1] + c[k - 1]]
    <3> HIDE DEF c
    <3> QED BY RecursionOn
  <2>2. \A k \in 0..n : k # 0 => c[k - 1] = 2^(k - 1) * kept(k - 1)
    OBVIOUS
  <2>3. f = [k \in 0..n |-> IF k = 0 THEN 0 ELSE f[k - 1] + 2^(k - 1) * kept(k - 1)]
    <3> HIDE DEF c
    <3> QED BY <2>1, <2>2
  <2>4. low = [k \in 0..n |-> IF k = 0 THEN 0 ELSE low[k - 1] + 2^(k - 1) * kept(k - 1)]
    BY <2>3
  <2> HIDE DEF low
  <2> QED BY <2>4
<1>3. \A i \in Nat : kept(i) \in {0, 1}
  BY DEF Flag
<1> DEFINE Right(k) == /\ low[k] \in 0..(2^k - 1)
                       /\ \A i \in 0..(k - 1) : Bit(low[k], i) = kept(i)
           S == {k \in Nat : k <= n => Right(k)}
<1>4. S \in SUBSET Nat
  OBVIOUS
<1>5. 0 \in S
  <2>1. low[0] = 0
    BY <1>2
  <2> HIDE DEF low
  <2> QED BY <2>1
<1>6. ASSUME NEW k \in S PROVE k + 1 \in S
  <2> SUFFICES ASSUME k + 1 <= n PROVE Right(k + 1)
    OBVIOUS
  <2>1. Right(k) /\ k \in Nat
    OBVIOUS
  <2>2. low[k + 1] = low[k] + 2^k * kept(k)
    <3>1. (k + 1) - 1 = k /\ k + 1 \in 0..n /\ k + 1 # 0
      OBVIOUS
    <3> HIDE DEF low, kept
    <3> QED BY <1>2, <3>1
  <2> HIDE DEF low, kept
  <2>3. 2^k \in Nat \ {0} /\ 2^(k + 1) = 2 * 2^k /\ kept(k) \in {0, 1} /\ low[k] \in 0..(2^k - 1)
    BY <2>1, <1>3, PowIsNat, PowNext
  <2>4. low[k + 1] \in 0..(2^(k + 1) - 1)
    BY <2>2, <2>3
  <2>5. low[k + 1] \in Int /\ low[k] \in Int
    BY <2>3, <2>4
  <2>6. low[k + 1] % 2^k = low[k]
    <3>1. low[k + 1] = 2^k * kept(k) + low[k]
      BY <2>2, <2>3
    <3> QED BY <3>1, <2>3, <2>5, QuotientIs
  <2>7. ASSUME NEW i \in 0..k PROVE Bit(low[k + 1], i) = kept(i)
    <3>1. CASE i < k
      <4>1. Bit(low[k + 1] % 2^k, i) = Bit(low[k + 1], i)
        BY <2>1, <2>5, <3>1, BitOfMask
      <4>2. i \in 0..(k - 1)
        BY <3>1, <2>1
      <4> QED BY <2>1, <2>6, <4>1, <4>2
    <3>2. CASE i = k
      <4>1. Cut(low[k + 1], k, kept(k), low[k])
        BY <2>1, <2>2, <2>3, <2>5 DEF Cut
      <4>2. Bit(low[k + 1], k) = kept(k) % 2
        BY <4>1, BitFromHalves
      <4> QED BY <3>2, <4>2, <2>3
    <3> QED BY <3>1, <3>2, <2>1
  <2> QED BY <2>1, <2>4, <2>7
<1>7. n \in S
  <2> HIDE DEF S
  <2> QED BY <1>4, <1>5, <1>6, Induction
<1>8. Right(n)
  BY <1>7
<1> QED BY <1>1, <1>8

(* bit_length is the smallest width a number fits in.                      *)
LEMMA BitLength ==
  ASSUME NEW v \in 0..(2^(2 * I32Bits) - 1)
  PROVE  /\ bit_length(v) \in 0..(2 * I32Bits)
         /\ v < 2^bit_length(v)
         /\ bit_length(v) = 0 \/ v >= 2^(bit_length(v) - 1)
<1> DEFINE W2 == 2 * I32Bits
           S == {n \in Nat : v < 2^n}
<1>0. W2 \in Nat /\ v \in Nat
  BY PowIsNat, WidthAssumption
<1>1. W2 \in S
  BY <1>0, PowIsNat
<1>2. PICK n \in S : \A m \in S : ~(m < n)
  <2>1. S \in SUBSET Nat
    OBVIOUS
  <2> HIDE DEF S
  <2> QED BY <1>1, <2>1, Least
<1>3. n \in 0..W2
  BY <1>0, <1>1, <1>2
<1>4. n = 0 \/ v >= 2^(n - 1)
  <2>1. CASE n # 0
    <3>1. n - 1 \in Nat /\ n - 1 < n
      BY <2>1
    <3>2. ~(v < 2^(n - 1))
      BY <3>1, <1>2
    <3> QED BY <3>1, <3>2, <1>0, PowIsNat
  <2> QED BY <2>1
<1> QED BY <1>3, <1>4 DEF bit_length

(* A number between two powers of two has the upper one's length.          *)
LEMMA LengthIs ==
  ASSUME NEW v \in 0..(2^(2 * I32Bits) - 1),
         NEW n \in Nat, v >= 2^n, v < 2^(n + 1)
  PROVE  bit_length(v) = n + 1
<1> DEFINE l == bit_length(v)
<1>1. l \in Nat /\ v < 2^l /\ (l = 0 \/ v >= 2^(l - 1)) /\ v \in Nat
  BY BitLength, PowIsNat, WidthAssumption
<1> HIDE DEF l
<1>2. ~(l < n + 1)
  <2> SUFFICES ASSUME l <= n PROVE FALSE
    BY <1>1
  <2>1. 2^l <= 2^n
    BY <1>1, PowMonotone
  <2> QED BY <1>1, <2>1, PowIsNat
<1>3. ~(l > n + 1)
  <2> SUFFICES ASSUME l - 1 >= n + 1 PROVE FALSE
    BY <1>1
  <2>1. l - 1 \in Nat /\ 2^(n + 1) <= 2^(l - 1)
    BY <1>1, PowMonotone
  <2> QED BY <1>1, <2>1, PowIsNat
<1> QED BY <1>1, <1>2, <1>3 DEF l

----------------------------------------------------------------------------
(* Masks, signs and division.                                              *)

(* A masked number is of the width.                                        *)
LEMMA MaskType == \A n \in Nat, x \in Int : Mask(n, x) \in 0..(2^n - 1)
<1> SUFFICES ASSUME NEW n \in Nat, NEW x \in Int PROVE Mask(n, x) \in 0..(2^n - 1)
  OBVIOUS
<1>1. 2^n \in Nat \ {0}
  BY PowIsNat
<1> QED BY <1>1, DivMod DEF Mask

(* A mask leaves a number of the width alone.                              *)
LEMMA MaskOfMasked == \A n \in Nat : \A v \in 0..(2^n - 1) : Mask(n, v) = v
<1> SUFFICES ASSUME NEW n \in Nat, NEW v \in 0..(2^n - 1) PROVE Mask(n, v) = v
  OBVIOUS
<1>1. 2^n \in Nat \ {0} /\ v = 2^n * 0 + v
  BY PowIsNat
<1> QED BY <1>1, QuotientIs DEF Mask

(* The integers n bits stand for.                                          *)
Signed(n) == (-(2^(n - 1)))..(2^(n - 1) - 1)

(* n bits stand for an integer of that range.                              *)
LEMMA MeantType ==
  ASSUME NEW n \in Nat \ {0}, NEW v \in 0..(2^n - 1)
  PROVE  Meant(n, v) \in Signed(n)
<1>1. n - 1 \in Nat /\ 2^n = 2 * 2^(n - 1) /\ 2^(n - 1) \in Nat \ {0}
  BY PowNext, PowIsNat
<1> QED BY <1>1 DEF Meant, Signed

(* The sign bit tells the negative numbers: _to_signed is what bits mean.  *)
LEMMA SignedIsMeant ==
  ASSUME NEW n \in Nat \ {0}, NEW v \in 0..(2^n - 1)
  PROVE  _to_signed(n, v) = Meant(n, v)
<1>1. Bit(v, n - 1) = IF v >= 2^(n - 1) THEN 1 ELSE 0
  BY TopBit
<1> QED BY <1>1 DEF _to_signed, Meant, Bit

(* The frozen to_signed masks first, and is otherwise the M5 one.          *)
LEMMA FrozenSigned == \A n, v : to_signed(n, v) = _to_signed(n, Mask(n, v))
  BY DEF to_signed, _to_signed

(* Masking an integer in range loses nothing: the bits stand for it.       *)
LEMMA MeantOfMask ==
  ASSUME NEW n \in Nat \ {0}, NEW x \in Signed(n)
  PROVE  Meant(n, Mask(n, x)) = x
<1>1. n - 1 \in Nat /\ 2^n = 2 * 2^(n - 1) /\ 2^(n - 1) \in Nat \ {0} /\ 2^n \in Nat \ {0} /\ x \in Int
  BY PowNext, PowIsNat DEF Signed
<1>2. CASE x >= 0
  <2>1. x \in 0..(2^n - 1) /\ x < 2^(n - 1)
    BY <1>1, <1>2 DEF Signed
  <2> QED BY <2>1, MaskOfMasked DEF Meant
<1>3. CASE x < 0
  <2>1. x + 2^n \in 0..(2^n - 1) /\ x + 2^n >= 2^(n - 1)
    BY <1>1, <1>3 DEF Signed
  <2>2. x = 2^n * (-1) + (x + 2^n)
    BY <1>1
  <2>3. Mask(n, x) = x + 2^n
    BY <1>1, <2>1, <2>2, QuotientIs DEF Mask
  <2> QED BY <1>1, <2>1, <2>3 DEF Meant
<1> QED BY <1>1, <1>2, <1>3

(* Floor division of a negative number rounds away from zero.              *)
LEMMA FloorOfNegative ==
  ASSUME NEW x \in Nat, NEW y \in Nat \ {0}
  PROVE  (-x) \div y = IF x % y = 0 THEN -(x \div y) ELSE -(x \div y) - 1
<1> DEFINE m == x \div y
           s == x % y
<1>1. m \in Int /\ s \in 0..(y - 1) /\ x = (y * m) + s
  BY DivMod
<1> HIDE DEF m, s
<1>2. CASE s = 0
  <2>1. -x = y * (-m) + 0 /\ -m \in Int /\ -x \in Int
    BY <1>1, <1>2
  <2>2. (-x) \div y = -m
    BY <2>1, QuotientIs
  <2> QED BY <1>2, <2>2 DEF m, s
<1>3. CASE s # 0
  <2>1. -x = y * (-m - 1) + (y - s) /\ -m - 1 \in Int /\ -x \in Int /\ y - s \in 0..(y - 1)
    BY <1>1, <1>3
  <2>2. (-x) \div y = -m - 1
    BY <2>1, QuotientIs
  <2> QED BY <1>3, <2>2 DEF m, s
<1> QED BY <1>2, <1>3

(* The frozen trunc_div, a floor division with a correction, is the M5     *)
(* division of magnitudes with the sign put back.                          *)
LEMMA Truncates ==
  ASSUME NEW a \in Int, NEW b \in Int, b # 0
  PROVE  LET q == Magnitude(a) \div Magnitude(b)
         IN  trunc_div(a, b) = IF (a < 0) # (b < 0) THEN -q ELSE q
<1> DEFINE c == IF b < 0 THEN -a ELSE a
           d == Magnitude(b)
           x == Magnitude(a)
           q == x \div d
           p == c \div d
<1>1. d \in Nat \ {0} /\ x \in Nat /\ c \in Int /\ (c < 0 => x = -c) /\ (c >= 0 => x = c)
  BY DEF Magnitude
<1>2. trunc_div(a, b) = IF p * b # a /\ ((a < 0) # (b < 0)) THEN p + 1 ELSE p
  BY DEF trunc_div, Magnitude
<1>3. q \in Int /\ x % d \in 0..(d - 1) /\ x = (d * q) + (x % d)
  <2> HIDE DEF x, d
  <2> QED BY <1>1, DivMod
<1>4. CASE c >= 0
  <2>1. p = q
    BY <1>1, <1>4
  <2>2. CASE a # 0
    <3>1. ~((a < 0) # (b < 0))
      BY <1>4, <2>2
    <3> QED BY <1>2, <2>1, <3>1
  <2>3. CASE a = 0
    <3>1. x = d * 0 + 0
      BY <1>1, <2>3 DEF Magnitude
    <3>2. q = 0
      <4> HIDE DEF x, d
      <4> QED BY <1>1, <3>1, QuotientIs
    <3>3. p * b = a
      BY <2>1, <2>3, <3>2
    <3> HIDE DEF p, q
    <3> QED BY <1>2, <2>1, <3>2, <3>3 DEF q
  <2> QED BY <2>2, <2>3
<1>5. CASE c < 0
  <2>1. (a < 0) # (b < 0)
    BY <1>5
  <2>2. p = IF x % d = 0 THEN -q ELSE -q - 1
    <3>1. c = -x
      BY <1>1, <1>5
    <3>2. (-x) \div d = IF x % d = 0 THEN -q ELSE -q - 1
      <4> HIDE DEF x, d
      <4> QED BY <1>1, FloorOfNegative
    <3> QED BY <3>1, <3>2
  <2>3. p * b = a <=> x % d = 0
    <3>1. p \in Int
      BY <2>2, <1>3
    <3>2. p * b = a <=> p * d = c
      <4> HIDE DEF p
      <4> QED BY <3>1 DEF Magnitude
    <3>3. c = -x
      BY <1>1, <1>5
    <3> HIDE DEF p, q, c, d, x
    <3>5. CASE x % d = 0
      BY <1>1, <1>3, <2>2, <3>2, <3>3, <3>5
    <3>6. CASE x % d # 0
      <4>1. p * d = -(d * q) - d
        BY <1>1, <1>3, <2>2, <3>6
      <4> QED BY <1>1, <1>3, <3>2, <3>3, <3>6, <4>1
    <3> QED BY <3>5, <3>6
  <2> HIDE DEF p, q
  <2> QED BY <1>2, <1>3, <2>1, <2>2, <2>3 DEF q
<1> QED BY <1>1, <1>4, <1>5

(* Only zero stands for zero.                                              *)
LEMMA MeantZero ==
  ASSUME NEW n \in Nat \ {0}, NEW v \in 0..(2^n - 1)
  PROVE  Meant(n, v) = 0 <=> v = 0
<1>1. n - 1 \in Nat /\ 2^n = 2 * 2^(n - 1) /\ 2^(n - 1) \in Nat \ {0}
  BY PowNext, PowIsNat
<1> QED BY <1>1 DEF Meant

(* Quotient and remainder of the magnitudes, with signs, are those of      *)
(* division toward zero.                                                   *)
LEMMA OfMagnitudes ==
  ASSUME NEW x \in Int, NEW y \in Int, y # 0
  PROVE  LET q == Magnitude(x) \div Magnitude(y)
             s == Magnitude(x) % Magnitude(y)
             Q == IF (x < 0) # (y < 0) THEN -q ELSE q
             R == IF x < 0 THEN -s ELSE s
         IN  /\ q \in 0..Magnitude(x) /\ s \in 0..(Magnitude(y) - 1)
             /\ x = Q * y + R
             /\ q = Magnitude(x) => x = 0 \/ Magnitude(y) = 1
<1> DEFINE c == Magnitude(x)
           d == Magnitude(y)
           q == c \div d
           s == c % d
<1>1. c \in Nat /\ d \in Nat \ {0}
  BY DEF Magnitude
<1>2. q \in Int /\ s \in 0..(d - 1) /\ c = (d * q) + s
  <2> HIDE DEF c, d
  <2> QED BY <1>1, DivMod
<1> HIDE DEF q, s
<1>3. q >= 0
  <2> SUFFICES ASSUME q <= -1 PROVE FALSE
    BY <1>2
  <2> HIDE DEF c, d
  <2>1. \A z \in Int : z <= -1 => d * z <= -d
    BY <1>1
  <2>2. d * q <= -d
    BY <1>2, <2>1
  <2> QED BY <1>1, <1>2, <2>2
<1>4. q <= c /\ (q = c => c = 0 \/ d = 1)
  <2> HIDE DEF c, d
  <2>1. \A z \in Nat : d * z >= z /\ (d >= 2 => d * z >= 2 * z)
    BY <1>1
  <2>2. d * q >= q /\ (d >= 2 => d * q >= 2 * q)
    BY <1>2, <1>3, <2>1
  <2> QED BY <1>1, <1>2, <1>3, <2>2
<1>5. x = (IF (x < 0) # (y < 0) THEN -q ELSE q) * y + (IF x < 0 THEN -s ELSE s)
  <2>1. CASE x < 0 /\ y < 0
    BY <2>1, <1>2 DEF Magnitude
  <2>2. CASE x < 0 /\ ~(y < 0)
    BY <2>2, <1>2 DEF Magnitude
  <2>3. CASE ~(x < 0) /\ y < 0
    BY <2>3, <1>2 DEF Magnitude
  <2>4. CASE ~(x < 0) /\ ~(y < 0)
    BY <2>4, <1>2 DEF Magnitude
  <2> QED BY <2>1, <2>2, <2>3, <2>4
<1>6. c = 0 => x = 0
  BY DEF Magnitude
<1> QED BY <1>2, <1>3, <1>4, <1>5, <1>6 DEF q, s

(* A signed quotient traps exactly when it does not fit, and rounds toward *)
(* zero.                                                                   *)
LEMMA DivSigned ==
  ASSUME NEW n \in Nat \ {0}, NEW a \in 0..(2^n - 1), NEW b \in 0..(2^n - 1), b # 0
  PROVE  LET x == Meant(n, a)
             y == Meant(n, b)
             v == div_s(n, a, b)
             rest == x - Meant(n, v.value) * y
         IN  IF x = -(2^(n - 1)) /\ y = -1 THEN v = OVERFLOW
             ELSE /\ v.trap = "none" /\ v.value \in 0..(2^n - 1)
                  /\ Magnitude(rest) < Magnitude(y)
                  /\ rest # 0 => (rest < 0 <=> x < 0)
<1> DEFINE x == Meant(n, a)
           y == Meant(n, b)
           H == 2^(n - 1)
           q == Magnitude(x) \div Magnitude(y)
           s == Magnitude(x) % Magnitude(y)
           Q == IF (x < 0) # (y < 0) THEN -q ELSE q
           R == IF x < 0 THEN -s ELSE s
<1>1. x \in (-H)..(H - 1) /\ y \in (-H)..(H - 1) /\ y # 0
  BY MeantType, MeantZero DEF Signed
<1>2. H \in Nat \ {0}
  BY PowIsNat
<1>3. _to_signed(n, a) = x /\ _to_signed(n, b) = y
  BY SignedIsMeant
<1>4. div_s(n, a, b) = IF x = -H /\ y = -1 THEN OVERFLOW ELSE Value(Mask(n, Q))
  BY <1>1, <1>3 DEF div_s, _to_unsigned
<1> HIDE DEF x, y, H
<1>5. /\ q \in 0..Magnitude(x) /\ s \in 0..(Magnitude(y) - 1)
      /\ x = Q * y + R
      /\ q = Magnitude(x) => x = 0 \/ Magnitude(y) = 1
  BY <1>1, <1>2, OfMagnitudes
<1>6. x - Q * y = R
  <2>1. Q \in Int /\ R \in Int /\ y \in Int
    BY <1>1, <1>2, <1>5 DEF Magnitude
  <2> HIDE DEF Q, R
  <2> QED BY <1>5, <2>1
<1>7. Magnitude(R) < Magnitude(y) /\ (R # 0 => (R < 0 <=> x < 0))
  <2> HIDE DEF q, s
  <2> QED BY <1>1, <1>2, <1>5 DEF Magnitude
<1>8. CASE ~(x = -H /\ y = -1)
  <2>1. Q \in (-H)..(H - 1)
    <3> HIDE DEF q, s
    <3> QED BY <1>1, <1>2, <1>5, <1>8 DEF Magnitude
  <2> HIDE DEF Q, R
  <2>2. Meant(n, Mask(n, Q)) = Q
    BY <2>1, MeantOfMask DEF H, Signed
  <2>3. Mask(n, Q) \in 0..(2^n - 1)
    BY <1>2, <2>1, MaskType
  <2>4. div_s(n, a, b).trap = "none" /\ div_s(n, a, b).value = Mask(n, Q)
    BY <1>4, <1>8 DEF Value
  <2> QED BY <1>6, <1>7, <1>8, <2>2, <2>3, <2>4 DEF x, y, H
<1>9. CASE x = -H /\ y = -1
  BY <1>4, <1>9 DEF x, y, H
<1> QED BY <1>8, <1>9

(* A signed remainder is below the divisor and has the dividend's sign.    *)
LEMMA RemSigned ==
  ASSUME NEW n \in Nat \ {0}, NEW a \in 0..(2^n - 1), NEW b \in 0..(2^n - 1), b # 0
  PROVE  LET x == Meant(n, a)
             y == Meant(n, b)
             v == rem_s(n, a, b)
             rest == Meant(n, v.value)
         IN  /\ v.trap = "none" /\ v.value \in 0..(2^n - 1)
             /\ Magnitude(rest) < Magnitude(y)
             /\ \E q \in (-(2^n))..(2^n) : x = q * y + rest
             /\ v.value # 0 => (rest < 0 <=> x < 0)
<1> DEFINE x == Meant(n, a)
           y == Meant(n, b)
           H == 2^(n - 1)
           q == Magnitude(x) \div Magnitude(y)
           s == Magnitude(x) % Magnitude(y)
           Q == IF (x < 0) # (y < 0) THEN -q ELSE q
           R == IF x < 0 THEN -s ELSE s
<1>1. x \in (-H)..(H - 1) /\ y \in (-H)..(H - 1) /\ y # 0
  BY MeantType, MeantZero DEF Signed
<1>2. H \in Nat \ {0} /\ 2^n = 2 * H
  <2>1. n - 1 \in Nat /\ (n - 1) + 1 = n
    OBVIOUS
  <2> QED BY <2>1, PowIsNat, PowNext
<1>3. _to_signed(n, a) = x /\ _to_signed(n, b) = y
  BY SignedIsMeant
<1>4. rem_s(n, a, b) = Value(Mask(n, R))
  BY <1>1, <1>3 DEF rem_s, _to_unsigned
<1> HIDE DEF x, y, H
<1>5. /\ q \in 0..Magnitude(x) /\ s \in 0..(Magnitude(y) - 1)
      /\ x = Q * y + R
  BY <1>1, <1>2, OfMagnitudes
<1>6. R \in (-H)..(H - 1) /\ Magnitude(R) < Magnitude(y) /\ (R # 0 => (R < 0 <=> x < 0))
  <2> HIDE DEF q, s
  <2> QED BY <1>1, <1>2, <1>5 DEF Magnitude
<1>7. Q \in (-(2 * H))..(2 * H)
  <2> HIDE DEF q, s
  <2> QED BY <1>1, <1>2, <1>5 DEF Magnitude
<1> HIDE DEF Q, R
<1>8. Meant(n, Mask(n, R)) = R
  BY <1>6, MeantOfMask DEF H, Signed
<1>9. Mask(n, R) \in 0..(2^n - 1)
  BY <1>2, <1>6, MaskType
<1>10. Mask(n, R) # 0 => R # 0
  BY <1>9, <1>8, MeantZero
<1>11. rem_s(n, a, b).trap = "none" /\ rem_s(n, a, b).value = Mask(n, R)
  BY <1>4 DEF Value
<1>12. \E p \in (-(2^n))..(2^n) : x = p * y + R
  BY <1>2, <1>5, <1>7
<1> QED BY <1>6, <1>8, <1>9, <1>10, <1>11, <1>12 DEF x, y

----------------------------------------------------------------------------
(* Shifts, rotations and counts, bit by bit.                               *)

(* A shift to the right stays within the width.                            *)
LEMMA QuotientOf ==
  ASSUME NEW n \in Nat, NEW k \in Nat, NEW a \in 0..(2^n - 1)
  PROVE  a \div 2^k \in 0..(2^n - 1)
<1> DEFINE d == 2^k
           q == a \div d
<1>1. d \in Nat \ {0} /\ a \in Nat /\ 2^n \in Nat
  BY PowIsNat
<1>2. q \in Int /\ a % d \in 0..(d - 1) /\ a = (d * q) + (a % d)
  <2> HIDE DEF d
  <2> QED BY <1>1, DivMod DEF q
<1> HIDE DEF q, d
<1>3. \A z \in Int : (z <= -1 => d * z <= -d) /\ (z >= 0 => d * z >= z)
  BY <1>1
<1>4. q >= 0 /\ q <= a
  BY <1>1, <1>2, <1>3
<1> QED BY <1>1, <1>2, <1>4 DEF q, d

(* shl, bit by bit.                                                        *)
LEMMA LeftShift ==
  ASSUME NEW n \in Nat, NEW a \in Int, NEW k \in Nat, NEW i \in 0..(n - 1)
  PROVE  Bit(Mask(n, a * 2^k), i) = IF i < k THEN 0 ELSE Bit(a, i - k)
<1>1. a * 2^k \in Int
  BY PowIsNat
<1>2. Bit((a * 2^k) % 2^n, i) = Bit(a * 2^k, i)
  BY <1>1, BitOfMask
<1>3. Bit(Shifted(a, k), i) = IF i < k THEN 0 ELSE Bit(a, i - k)
  BY BitOfShift
<1> QED BY <1>2, <1>3 DEF Mask, Shifted

(* shr_u, bit by bit.                                                      *)
LEMMA RightShift ==
  ASSUME NEW n \in Nat, NEW a \in 0..(2^n - 1), NEW k \in Nat, NEW i \in Nat
  PROVE  Bit(a \div 2^k, i) = IF i + k >= n THEN 0 ELSE Bit(a, i + k)
<1>1. a \in Int
  BY PowIsNat
<1>2. Bit(a \div 2^k, i) = Bit(a, i + k)
  BY <1>1, BitOfQuotient
<1> QED BY <1>2, BitAbove

(* The integer n bits stand for has those bits, and copies of the sign     *)
(* above.                                                                  *)
LEMMA BitOfSigned ==
  ASSUME NEW n \in Nat \ {0}, NEW a \in 0..(2^n - 1), NEW i \in Nat
  PROVE  Bit(Meant(n, a), i) = Bit(a, IF i >= n THEN n - 1 ELSE i)
<1>1. n - 1 \in Nat /\ 2^n = 2 * 2^(n - 1) /\ 2^(n - 1) \in Nat \ {0} /\ 2^i \in Nat \ {0}
  BY PowNext, PowIsNat
<1>2. Bit(a, n - 1) = IF a >= 2^(n - 1) THEN 1 ELSE 0
  BY TopBit
<1>3. CASE a < 2^(n - 1)
  <2>1. Meant(n, a) = a
    BY <1>1, <1>3 DEF Meant
  <2>2. i >= n => Bit(a, i) = 0
    BY BitAbove
  <2> QED BY <1>1, <1>2, <1>3, <2>1, <2>2
<1>4. CASE a >= 2^(n - 1)
  <2>1. Meant(n, a) = a - 2^n /\ a - 2^n \in (-(2^n))..(-1) /\ a - 2^n \in Int
    BY <1>1, <1>4 DEF Meant
  <2>2. CASE i >= n
    <3>1. 2^n <= 2^i
      BY <2>2, PowMonotone
    <3>2. Cut(a - 2^n, i, -1, a - 2^n + 2^i)
      BY <1>1, <2>1, <3>1 DEF Cut
    <3>3. Bit(a - 2^n, i) = (-1) % 2
      BY <3>2, BitFromHalves
    <3>4. (-1) % 2 = 1
      <4>1. PICK m \in Int, b \in Nat \ {0} : m = -1 /\ b = 2
        OBVIOUS
      <4>2. m = b * m + 1 /\ 1 \in 0..(b - 1)
        BY <4>1
      <4>3. m % b = 1
        BY <4>2, QuotientIs
      <4> QED BY <4>1, <4>3
    <3> QED BY <1>2, <1>4, <2>1, <2>2, <3>3, <3>4
  <2>3. CASE i < n
    <3>1. Bit((a - 2^n) % 2^n, i) = Bit(a - 2^n, i)
      BY <2>1, <2>3, BitOfMask
    <3>2. a - 2^n = 2^n * (-1) + a
      BY <1>1
    <3>3. (a - 2^n) % 2^n = a
      BY <1>1, <2>1, <3>2, QuotientIs
    <3> QED BY <2>1, <2>3, <3>1, <3>3
  <2> QED BY <2>2, <2>3
<1> QED BY <1>1, <1>3, <1>4

(* shr_s, bit by bit: the sign fills.                                      *)
LEMMA SignedShift ==
  ASSUME NEW n \in Nat \ {0}, NEW a \in 0..(2^n - 1), NEW k \in Nat, NEW i \in 0..(n - 1)
  PROVE  Bit(Mask(n, Meant(n, a) \div 2^k), i) = Bit(a, IF i + k >= n THEN n - 1 ELSE i + k)
<1> DEFINE x == Meant(n, a)
<1>1. x \in Int
  BY MeantType, PowIsNat DEF Signed
<1>2. Bit(x, i + k) = Bit(a, IF i + k >= n THEN n - 1 ELSE i + k)
  BY BitOfSigned
<1> HIDE DEF x
<1>3. x \div 2^k \in Int
  BY <1>1, PowIsNat, DivMod
<1>4. Bit((x \div 2^k) % 2^n, i) = Bit(x \div 2^k, i)
  BY <1>3, BitOfMask
<1>5. Bit(x \div 2^k, i) = Bit(x, i + k)
  BY <1>1, BitOfQuotient
<1> QED BY <1>2, <1>4, <1>5 DEF Mask, x

(* A rotation keeps every bit, at its place modulo the width.              *)
LEMMA Rotation ==
  ASSUME NEW n \in Nat \ {0}, NEW a \in 0..(2^n - 1), NEW k \in 0..n, NEW i \in 0..(n - 1)
  PROVE  /\ rotate(n, a, k, n - k) \in 0..(2^n - 1)
         /\ Bit(rotate(n, a, k, n - k), i) = Bit(a, (i - k) % n)
<1> DEFINE x == Shifted(a, k)
           y == a \div 2^(n - k)
           z == Combined(2 * n, Or, x, y)
<1>1. a \in Int /\ x \in Int /\ y \in 0..(2^n - 1)
  <2>1. 2^k \in Nat /\ 2^n \in Nat /\ a \in Nat
    BY PowIsNat
  <2>2. n - k \in Nat
    OBVIOUS
  <2>3. y \in 0..(2^n - 1)
    BY <2>2, QuotientOf
  <2> QED BY <2>1, <2>3 DEF Shifted
<1>2. CASE k % n = 0
  <2>1. k = 0 \/ k = n
    BY <1>2
  <2>2. (i - k) % n = i
    <3>1. CASE k = 0
      BY <3>1
    <3>2. CASE k = n
      <4>1. i - k = n * (-1) + i
        BY <3>2
      <4> QED BY <4>1, QuotientIs
    <3> QED BY <2>1, <3>1, <3>2
  <2> QED BY <1>2, <2>2 DEF rotate
<1>3. CASE k % n # 0
  <2>1. k \in 1..(n - 1)
    <3>1. 0 % n = 0 /\ n % n = 0
      <4>1. 0 = n * 0 + 0 /\ n = n * 1 + 0
        OBVIOUS
      <4> QED BY <4>1, QuotientIs
    <3> QED BY <1>3, <3>1
  <2>2. rotate(n, a, k, n - k) = Mask(n, z)
    BY <1>3 DEF rotate, Shifted
  <2>3. Flag(0 \in Or) = 0 /\ Flag(1 \in Or) = 1
    BY DEF Or, Flag
  <2>4. z \in 0..(2^(2 * n) - 1) /\ \A j \in 0..(2 * n - 1) : Bit(z, j) = Flag(Bit(x, j) + Bit(y, j) \in Or)
    <3>1. 2 * n \in Nat /\ y \in Int
      BY <1>1, PowIsNat
    <3> HIDE DEF x, y
    <3> QED BY <1>1, <3>1, CombinedFacts
  <2>5. z \in Int
    BY <2>4, PowIsNat
  <2>6. Bit(Mask(n, z), i) = Flag(Bit(x, i) + Bit(y, i) \in Or)
    <3>1. Bit(z % 2^n, i) = Bit(z, i)
      <4> HIDE DEF z
      <4> QED BY <2>5, BitOfMask
    <3>2. i \in 0..(2 * n - 1)
      OBVIOUS
    <3> HIDE DEF x, y
    <3> QED BY <2>4, <3>1, <3>2 DEF Mask
  <2>7. Bit(x, i) = IF i < k THEN 0 ELSE Bit(a, i - k)
    BY <1>1, <2>1, BitOfShift
  <2>8. Bit(y, i) = IF i + (n - k) >= n THEN 0 ELSE Bit(a, i + (n - k))
    BY <2>1, RightShift
  <2>9. (i - k) % n = IF i < k THEN i + (n - k) ELSE i - k
    <3>1. CASE i < k
      <4>1. i - k = n * (-1) + (i + (n - k)) /\ i + (n - k) \in 0..(n - 1) /\ i - k \in Int
        BY <2>1, <3>1
      <4> QED BY <3>1, <4>1, QuotientIs
    <3>2. CASE i >= k
      <4>1. i - k = n * 0 + (i - k) /\ i - k \in 0..(n - 1)
        BY <2>1, <3>2
      <4> QED BY <3>2, <4>1, QuotientIs
    <3> QED BY <2>1, <3>1, <3>2
  <2>10. \A j \in Nat : Bit(a, j) \in {0, 1}
    BY <1>1, BitType
  <2>11. Mask(n, z) \in 0..(2^n - 1)
    BY <2>5, MaskType
  <2>12. Flag(Bit(x, i) + Bit(y, i) \in Or) = Bit(a, (i - k) % n)
    <3>1. CASE i < k
      <4>1. Bit(x, i) = 0 /\ Bit(y, i) = Bit(a, i + (n - k)) /\ i + (n - k) \in Nat
        BY <2>1, <2>7, <2>8, <3>1
      <4> QED BY <2>9, <2>10, <3>1, <4>1, <2>3
    <3>2. CASE i >= k
      <4>1. Bit(x, i) = Bit(a, i - k) /\ Bit(y, i) = 0 /\ i - k \in Nat /\ ~(i < k)
        BY <2>1, <2>7, <2>8, <3>2
      <4> QED BY <2>9, <2>10, <4>1, <2>3
    <3> QED BY <2>1, <3>1, <3>2
  <2> HIDE DEF z
  <2> QED BY <2>2, <2>6, <2>11, <2>12
<1> QED BY <1>2, <1>3

(* Zero has no bit.                                                        *)
LEMMA BitOfZero == \A i \in Nat : Bit(0, i) = 0
<1> SUFFICES ASSUME NEW i \in Nat PROVE Bit(0, i) = 0
  OBVIOUS
<1>1. Cut(0, i, 0, 0)
  BY PowIsNat DEF Cut
<1>2. Bit(0, i) = 0 % 2
  BY <1>1, BitFromHalves
<1> QED BY <1>2

(* A number without bits is zero.                                          *)
LEMMA AllClear ==
  ASSUME NEW n \in Nat, NEW v \in 0..(2^n - 1), \A i \in 0..(n - 1) : Bit(v, i) = 0
  PROVE  v = 0
<1>1. PICK z \in Nat : z = 0
  OBVIOUS
<1>2. v \in 0..(2^(z + n) - 1) /\ \A i \in z..(z + n - 1) : Bit(v, i) = 0
  BY <1>1
<1>3. v < 2^z
  BY <1>2, ClearAbove
<1> QED BY <1>1, <1>3, PowIsNat

(* clz counts the zeros above the highest one.                             *)
LEMMA LeadingZeros ==
  ASSUME NEW n \in {I32Bits, 2 * I32Bits}, NEW v \in 0..(2^n - 1)
  PROVE  LET l == clz(n, v)
         IN  /\ l \in 0..n
             /\ \A i \in (n - l)..(n - 1) : Bit(v, i) = 0
             /\ l < n => Bit(v, n - 1 - l) = 1
<1>1. n \in Nat \ {0} /\ 2 * I32Bits \in Nat /\ n <= 2 * I32Bits
  BY WidthAssumption
<1>2. CASE v = 0
  <2>1. clz(n, v) = n
    BY <1>2 DEF clz
  <2>2. \A i \in Nat : Bit(v, i) = 0
    BY <1>2, BitOfZero
  <2> QED BY <1>1, <2>1, <2>2
<1>3. CASE v # 0
  <2> DEFINE l == bit_length(v)
  <2>1. 2^n <= 2^(2 * I32Bits) /\ 2^n \in Nat /\ 2^(2 * I32Bits) \in Nat
    BY <1>1, PowMonotone, PowIsNat
  <2>2. l \in Nat /\ v < 2^l /\ (l = 0 \/ v >= 2^(l - 1))
    BY <2>1, BitLength, WidthAssumption
  <2> HIDE DEF l
  <2>3. l >= 1
    <3> SUFFICES ASSUME l = 0 PROVE FALSE
      BY <2>2
    <3>1. 2^l = 1
      BY 2^0 = 1
    <3>2. v < 1
      BY <2>2, <3>1
    <3> QED BY <2>1, <1>3, <3>2
  <2>4. l <= n
    <3> SUFFICES ASSUME n <= l - 1 PROVE FALSE
      BY <1>1, <2>2
    <3>1. l - 1 \in Nat /\ 2^n <= 2^(l - 1) /\ 2^(l - 1) \in Nat
      BY <1>1, <2>2, <2>3, PowMonotone, PowIsNat
    <3> QED BY <2>1, <2>2, <2>3, <3>1
  <2>5. clz(n, v) = n - l
    BY <1>3 DEF clz, l
  <2>6. v \in 0..(2^l - 1) /\ l \in Nat \ {0} /\ 2^(l - 1) \in Nat
    BY <2>1, <2>2, <2>3, PowIsNat
  <2>7. \A i \in Nat : i >= l => Bit(v, i) = 0
    BY <2>6, BitAbove
  <2>8. Bit(v, l - 1) = 1
    BY <2>2, <2>3, <2>6, TopBit
  <2>9. n - (n - l) = l /\ n - 1 - (n - l) = l - 1
    BY <1>1, <2>2
  <2> QED BY <1>1, <2>3, <2>4, <2>5, <2>6, <2>7, <2>8, <2>9
<1> QED BY <1>2, <1>3

(* The bits of -v are those of v up to the lowest one, and their           *)
(* complements above.                                                      *)
LEMMA BitOfNegative ==
  ASSUME NEW v \in Int, NEW i \in Nat
  PROVE  Bit(-v, i) = IF v % 2^i = 0 THEN Bit(v, i) ELSE 1 - Bit(v, i)
<1> DEFINE d == 2^i
           h == v \div d
           s == v % d
<1>1. d \in Nat \ {0}
  BY PowIsNat
<1>2. h \in Int /\ s \in 0..(d - 1) /\ v = (d * h) + s
  <2> HIDE DEF d
  <2> QED BY <1>1, DivMod
<1>3. Bit(v, i) = h % 2
  BY DEF Bit
<1> HIDE DEF h, s
<1>4. CASE s = 0
  <2>1. Cut(-v, i, -h, 0)
    BY <1>1, <1>2, <1>4 DEF Cut
  <2>2. Bit(-v, i) = (-h) % 2
    BY <2>1, BitFromHalves
  <2>3. (-h) % 2 = h % 2
    BY <1>2
  <2> QED BY <1>3, <1>4, <2>2, <2>3 DEF s
<1>5. CASE s # 0
  <2>1. Cut(-v, i, -h - 1, d - s)
    BY <1>1, <1>2, <1>5 DEF Cut
  <2>2. Bit(-v, i) = (-h - 1) % 2
    BY <2>1, BitFromHalves
  <2>3. (-h - 1) % 2 = 1 - (h % 2)
    BY <1>2
  <2> QED BY <1>3, <1>5, <2>2, <2>3 DEF s
<1> QED BY <1>4, <1>5

(* ctz counts the zeros below the lowest one: v & -v is that one alone.    *)
LEMMA TrailingZeros ==
  ASSUME NEW n \in {I32Bits, 2 * I32Bits}, NEW v \in 0..(2^n - 1)
  PROVE  LET l == ctz(n, v)
         IN  /\ l \in 0..n
             /\ \A i \in 0..(l - 1) : Bit(v, i) = 0
             /\ l < n => Bit(v, l) = 1
<1>1. n \in Nat \ {0} /\ 2 * I32Bits \in Nat /\ n <= 2 * I32Bits
  BY WidthAssumption
<1>2. CASE v = 0
  <2>1. ctz(n, v) = n
    BY <1>2 DEF ctz
  <2>2. \A i \in Nat : Bit(v, i) = 0
    BY <1>2, BitOfZero
  <2> QED BY <1>1, <2>1, <2>2
<1>3. CASE v # 0
  <2> DEFINE w == Mask(n, -v)
             z == Combined(n, And, v, w)
             Ones == {i \in 0..(n - 1) : Bit(v, i) = 1}
  <2>1. v \in Int /\ 2^n \in Nat
    BY <1>1, PowIsNat
  <2>2. w \in 0..(2^n - 1) /\ w \in Int /\ \A i \in 0..(n - 1) : Bit(w, i) = Bit(-v, i)
    <3>1. -v \in Int
      BY <2>1
    <3>2. \A i \in 0..(n - 1) : Bit((-v) % 2^n, i) = Bit(-v, i)
      BY <1>1, <3>1, BitOfMask
    <3> QED BY <1>1, <2>1, <3>1, <3>2, MaskType DEF Mask
  <2>3. \A i \in Nat : Bit(v, i) \in {0, 1}
    BY <2>1, BitType
  <2>4. Ones # {}
    <3> SUFFICES ASSUME \A i \in 0..(n - 1) : Bit(v, i) = 0 PROVE FALSE
      BY <1>1, <2>3
    <3>1. v = 0
      BY <1>1, AllClear
    <3> QED BY <1>3, <3>1
  <2>5. PICK t \in Ones : \A i \in Ones : ~(i < t)
    <3>1. Ones \in SUBSET Nat
      BY <1>1
    <3> HIDE DEF Ones
    <3> QED BY <2>4, <3>1, Least
  <2>6. t \in 0..(n - 1) /\ t \in Nat /\ Bit(v, t) = 1 /\ \A i \in 0..(t - 1) : Bit(v, i) = 0
    BY <1>1, <2>3, <2>5
  <2>7. v % 2^t = 0
    <3>1. v % 2^t \in 0..(2^t - 1)
      BY <2>1, <2>6, MaskType DEF Mask
    <3>2. \A i \in 0..(t - 1) : Bit(v % 2^t, i) = 0
      BY <2>1, <2>6, BitOfMask
    <3> QED BY <2>6, <3>1, <3>2, AllClear
  <2>8. ASSUME NEW i \in Nat, i > t PROVE v % 2^i # 0
    <3>1. Bit(v % 2^i, t) = 1
      BY <2>1, <2>6, <2>8, BitOfMask
    <3>2. Bit(0, t) = 0
      BY <2>6, BitOfZero
    <3> QED BY <3>1, <3>2
  <2>9. z \in 0..(2^n - 1) /\ \A i \in 0..(n - 1) : Bit(z, i) = Flag(Bit(v, i) + Bit(w, i) \in And)
    <3> HIDE DEF w
    <3> QED BY <1>1, <2>1, <2>2, CombinedFacts
  <2>10. Bit(z, t) = 1
    <3>1. Bit(w, t) = 1
      BY <2>1, <2>2, <2>6, <2>7, BitOfNegative
    <3> HIDE DEF w, z
    <3> QED BY <2>6, <2>9, <3>1 DEF Flag, And
  <2>11. ASSUME NEW i \in (t + 1)..(n - 1) PROVE Bit(z, i) = 0
    <3>1. i \in Nat /\ i > t /\ i \in 0..(n - 1)
      BY <1>1, <2>6
    <3>2. Bit(w, i) = 1 - Bit(v, i)
      BY <2>1, <2>2, <2>8, <3>1, BitOfNegative
    <3>3. Bit(v, i) + Bit(w, i) = 1
      BY <2>3, <3>1, <3>2
    <3> HIDE DEF w, z
    <3> QED BY <2>9, <3>1, <3>3 DEF Flag, And
  <2> HIDE DEF w, z
  <2>12. z < 2^(t + 1)
    <3>1. t + 1 \in Nat /\ n - (t + 1) \in Nat /\ (t + 1) + (n - (t + 1)) = n
      BY <1>1, <2>6
    <3> QED BY <2>9, <2>11, <3>1, ClearAbove
  <2>13. z >= 2^t
    <3> SUFFICES ASSUME z < 2^t PROVE FALSE
      BY <2>1, <2>6, <2>9, PowIsNat
    <3>1. z \in 0..(2^t - 1)
      BY <2>1, <2>6, <2>9, PowIsNat
    <3>2. Bit(z, t) = 0
      BY <2>6, <3>1, BitAbove
    <3> QED BY <2>10, <3>2
  <2>14. bit_length(z) = t + 1
    <3>1. 2^n <= 2^(2 * I32Bits) /\ 2^(2 * I32Bits) \in Nat
      BY <1>1, PowMonotone, PowIsNat
    <3>2. z \in 0..(2^(2 * I32Bits) - 1)
      BY <2>1, <2>9, <3>1
    <3> QED BY <2>6, <2>12, <2>13, <3>2, LengthIs
  <2>15. ctz(n, v) = t
    BY <1>3, <2>6, <2>14 DEF ctz, z, w
  <2> QED BY <1>1, <2>6, <2>15
<1> QED BY <1>2, <1>3

(* popcnt counts the ones, of which there are none above the width.        *)
LEMMA OnesCounted ==
  ASSUME NEW n \in {I32Bits, 2 * I32Bits}, NEW v \in 0..(2^n - 1)
  PROVE  /\ bit_count(v) \in 0..n
         /\ bit_count(v) = Cardinality({i \in 0..(n - 1) : Bit(v, i) = 1})
<1> DEFINE Ones == {i \in 0..(n - 1) : Bit(v, i) = 1}
<1>1. n \in Nat \ {0} /\ 2 * I32Bits \in Nat /\ n <= 2 * I32Bits
  BY WidthAssumption
<1>2. \A i \in Nat : i >= n => Bit(v, i) = 0
  BY <1>1, BitAbove
<1>3. {i \in 0..(2 * I32Bits - 1) : Bit(v, i) = 1} = Ones
  BY <1>1, <1>2
<1>4. IsFiniteSet(0..(n - 1)) /\ Cardinality(0..(n - 1)) = n
  <2>1. 0 \in Int /\ n - 1 \in Int /\ ~(0 > n - 1) /\ (n - 1) - 0 + 1 = n
    BY <1>1
  <2> QED BY <2>1, FS_Interval
<1>5. Ones \in SUBSET (0..(n - 1))
  OBVIOUS
<1>6. IsFiniteSet(Ones) /\ Cardinality(Ones) <= n
  <2> HIDE DEF Ones
  <2> QED BY <1>4, <1>5, FS_Subset
<1>7. Cardinality(Ones) \in Nat
  BY <1>6, FS_CardinalityType
<1>8. bit_count(v) = Cardinality(Ones)
  BY <1>3 DEF bit_count
<1> QED BY <1>1, <1>6, <1>7, <1>8

(* A sign extension stays within the width and keeps the integer the low   *)
(* bits stand for.                                                         *)
LEMMA Extension ==
  ASSUME NEW n \in Nat \ {0}, NEW m \in 1..n, NEW v \in Int
  PROVE  /\ extend_s(n, m, v) \in 0..(2^n - 1)
         /\ Meant(n, extend_s(n, m, v)) = Meant(m, v % 2^m)
<1> DEFINE x == Meant(m, Mask(m, v))
<1>1. m \in Nat \ {0} /\ Mask(m, v) \in 0..(2^m - 1)
  BY MaskType
<1>2. x \in Signed(m)
  BY <1>1, MeantType
<1>3. x \in Signed(n)
  <2>1. m - 1 \in Nat /\ n - 1 \in Nat /\ m - 1 <= n - 1
    BY <1>1
  <2>2. 2^(m - 1) <= 2^(n - 1) /\ 2^(m - 1) \in Nat /\ 2^(n - 1) \in Nat
    BY <2>1, PowMonotone, PowIsNat
  <2> HIDE DEF x
  <2> QED BY <1>2, <2>2 DEF Signed
<1>4. extend_s(n, m, v) = Mask(n, x)
  BY <1>1, SignedIsMeant DEF extend_s, _to_unsigned
<1> HIDE DEF x
<1>5. Mask(n, x) \in 0..(2^n - 1)
  BY <1>3, MaskType, PowIsNat DEF Signed
<1> QED BY <1>3, <1>4, <1>5, MeantOfMask DEF Mask, x

----------------------------------------------------------------------------
(* One instruction.                                                        *)

(* The values of n bits.                                                   *)
Numbers(n) == 0..(2^n - 1)

(* The widths of an instruction, and which types the conversions have.     *)
LEMMA WidthFacts ==
  ASSUME NEW ins \in AllInstrs
  PROVE  /\ ins.t \in {"i32", "i64"}
         /\ Bits(ins.t) \in {I32Bits, 2 * I32Bits} /\ Bits(ins.t) \in Nat \ {0}
         /\ ins.rest \in {"extend8_s", "extend16_s", "extend32_s"} => SubWidth(ins.rest) \in 1..Bits(ins.t)
         /\ ins.rest = "wrap_i64" => ins.t = "i32"
         /\ ins.rest \in {"extend_i32_s", "extend_i32_u", "extend32_s"} => ins.t = "i64"
<1>1. ins.t \in {"i32", "i64"}
  BY DEF AllInstrs
<1>2. ins.rest = "wrap_i64" => ins.t = "i32"
  BY DEF AllInstrs, _IBINOPS, _ICMPS, Unary
<1>3. ins.rest \in {"extend_i32_s", "extend_i32_u", "extend32_s"} => ins.t = "i64"
  BY DEF AllInstrs, _IBINOPS, _ICMPS, Unary
<1>4. PICK m \in Nat \ {0} : I32Bits = 4 * m
  BY DivMod, WidthAssumption
<1>5. Bits(ins.t) \in {I32Bits, 2 * I32Bits} /\ Bits(ins.t) \in Nat \ {0}
  BY <1>1, <1>4 DEF Bits
<1>6. SubWidth("extend8_s") = m /\ SubWidth("extend16_s") = 2 * m /\ SubWidth("extend32_s") = I32Bits
  BY <1>4 DEF SubWidth
<1>7. ins.rest \in {"extend8_s", "extend16_s", "extend32_s"} => SubWidth(ins.rest) \in 1..Bits(ins.t)
  BY <1>1, <1>3, <1>4, <1>6 DEF Bits
<1> QED BY <1>1, <1>2, <1>3, <1>5, <1>7

(* The operands of an instruction are of its width; a conversion's is a    *)
(* number.                                                                 *)
LEMMA OperandFacts ==
  ASSUME NEW ins \in AllInstrs, NEW stack \in OperandsOf(ins)
  PROVE  /\ ins.rest \in _IBINOPS \cup _ICMPS =>
              /\ stack[1] \in Numbers(Bits(ins.t)) /\ stack[2] \in Numbers(Bits(ins.t)) /\ Len(stack) = 2
         /\ ins.rest \notin _IBINOPS \cup _ICMPS =>
              /\ Len(stack) = 1 /\ stack[1] \in Nat
              /\ ins.rest \notin {"extend_i32_s", "extend_i32_u", "wrap_i64"} =>
                   stack[1] \in Numbers(Bits(ins.t))
<1>1. CASE ins.rest \in _IBINOPS \cup _ICMPS
  <2>1. stack \in Operand(ins.t) \X Operand(ins.t)
    BY <1>1 DEF OperandsOf
  <2> QED BY <1>1, <2>1 DEF Operand, Numbers
<1>2. CASE ins.rest \notin _IBINOPS \cup _ICMPS
  <2> DEFINE t == CASE ins.rest \in {"extend_i32_s", "extend_i32_u"} -> "i32"
                    [] ins.rest = "wrap_i64" -> "i64"
                    [] OTHER -> ins.t
  <2>1. PICK v \in Operand(t) : stack = <<v>>
    BY <1>2 DEF OperandsOf
  <2>2. t \in {"i32", "i64"}
    BY WidthFacts
  <2>3. Bits(t) \in Nat
    BY <2>2, WidthAssumption DEF Bits
  <2>4. v \in Nat
    <3> HIDE DEF t
    <3> QED BY <2>1, <2>3, PowIsNat DEF Operand
  <2>5. ins.rest \notin {"extend_i32_s", "extend_i32_u", "wrap_i64"} => t = ins.t
    OBVIOUS
  <2> HIDE DEF t
  <2> QED BY <1>2, <2>1, <2>4, <2>5 DEF Operand, Numbers
<1> QED BY <1>1, <1>2

(* What _exec_instr does with an operation of two operands: the masks      *)
(* change nothing.                                                         *)
LEMMA BinaryRuns ==
  ASSUME NEW ins \in AllInstrs, NEW stack \in OperandsOf(ins), ins.rest \in _IBINOPS
  PROVE  _exec_instr(ins, stack) = _ibinop(Bits(ins.t), ins.rest, stack[1], stack[2])
<1>1. Mask(Bits(ins.t), stack[1]) = stack[1] /\ Mask(Bits(ins.t), stack[2]) = stack[2]
  BY OperandFacts, WidthFacts, MaskOfMasked DEF Numbers
<1>2. Len(stack) = 2
  BY OperandFacts
<1>3. _exec_instr(ins, stack) =
        _ibinop(Bits(ins.t), ins.rest, Mask(Bits(ins.t), stack[1]),
                Mask(Bits(ins.t), stack[Len(stack)]))
  <2>1. ins.rest \notin _ICMPS /\ ins.rest \notin {"eqz", "clz", "ctz", "popcnt"}
    BY DEF _IBINOPS, _ICMPS
  <2> QED BY <2>1 DEF _exec_instr
<1> QED BY <1>1, <1>2, <1>3

(* The same for a comparison,                                              *)
LEMMA ComparisonRuns ==
  ASSUME NEW ins \in AllInstrs, NEW stack \in OperandsOf(ins), ins.rest \in _ICMPS
  PROVE  _exec_instr(ins, stack) = Value(_icompare(Bits(ins.t), ins.rest, stack[1], stack[2]))
<1>1. Mask(Bits(ins.t), stack[1]) = stack[1] /\ Mask(Bits(ins.t), stack[2]) = stack[2]
  BY OperandFacts, WidthFacts, MaskOfMasked DEF Numbers
<1>2. Len(stack) = 2
  BY OperandFacts
<1>3. ins.rest \notin _IBINOPS /\ ins.rest \notin {"eqz", "clz", "ctz", "popcnt"}
  BY DEF _IBINOPS, _ICMPS
<1>4. _exec_instr(ins, stack) =
        Value(_icompare(Bits(ins.t), ins.rest, Mask(Bits(ins.t), stack[1]),
                        Mask(Bits(ins.t), stack[Len(stack)])))
  BY <1>3 DEF _exec_instr
<1> QED BY <1>1, <1>2, <1>4

(* for a test or a count,                                                  *)
LEMMA CountRuns ==
  ASSUME NEW ins \in AllInstrs, NEW stack \in OperandsOf(ins),
         ins.rest \in {"eqz", "clz", "ctz", "popcnt"}
  PROVE  _exec_instr(ins, stack) = Value(CASE ins.rest = "eqz" -> Flag(stack[1] = 0)
                                           [] ins.rest = "clz" -> clz(Bits(ins.t), stack[1])
                                           [] ins.rest = "ctz" -> ctz(Bits(ins.t), stack[1])
                                           [] ins.rest = "popcnt" -> bit_count(stack[1]))
<1>1. ins.rest \notin _IBINOPS /\ ins.rest \notin _ICMPS
  BY DEF _IBINOPS, _ICMPS
<1>2. Mask(Bits(ins.t), stack[1]) = stack[1] /\ Len(stack) = 1
  BY <1>1, OperandFacts, WidthFacts, MaskOfMasked DEF Numbers
<1> QED BY <1>1, <1>2 DEF _exec_instr

(* and for a conversion, in both machines.                                 *)
LEMMA ConversionRuns ==
  ASSUME NEW ins \in AllInstrs, NEW stack \in OperandsOf(ins),
         ins.rest \notin _IBINOPS, ins.rest \notin _ICMPS, ins.rest \notin {"eqz", "clz", "ctz", "popcnt"}
  PROVE  /\ _exec_instr(ins, stack) = Value(Converted(ins.t, ins.rest, stack[1]))
         /\ frozen_instr(ins, stack) = Value(_convert(ins.t, ins.rest, stack[1]))
         /\ ins.rest \in {"wrap_i64", "extend_i32_u", "extend_i32_s", "extend8_s", "extend16_s", "extend32_s"}
<1>1. Len(stack) = 1
  BY OperandFacts
<1>2. ins.rest \in {"wrap_i64", "extend_i32_u", "extend_i32_s", "extend8_s", "extend16_s", "extend32_s"}
  BY DEF AllInstrs, Unary
<1> QED BY <1>1, <1>2 DEF _exec_instr, frozen_instr

(* The two machines' operations of two operands, division and arithmetic   *)
(* shift included.                                                         *)
LEMMA SameBinary ==
  ASSUME NEW n \in Nat \ {0}, NEW op \in _IBINOPS, NEW a \in Numbers(n), NEW b \in Numbers(n)
  PROVE  _binop(n, op, a, b) = _ibinop(n, op, a, b)
<1>1. to_signed(n, a) = _to_signed(n, a) /\ to_signed(n, b) = _to_signed(n, b)
  BY FrozenSigned, MaskOfMasked DEF Numbers
<1>2. _to_signed(n, a) \in Int /\ _to_signed(n, b) \in Int
  BY SignedIsMeant, MeantType, PowIsNat DEF Numbers, Signed
<1>3. frozen_div_s(n, a, b) = div_s(n, a, b)
  <2> DEFINE x == _to_signed(n, a)
             y == _to_signed(n, b)
  <2>1. y # 0 => trunc_div(x, y) = IF (x < 0) # (y < 0) THEN -(Magnitude(x) \div Magnitude(y))
                                    ELSE Magnitude(x) \div Magnitude(y)
    <3> HIDE DEF x, y
    <3> QED BY <1>2, Truncates DEF x, y
  <2> HIDE DEF x, y
  <2> QED BY <1>1, <2>1 DEF frozen_div_s, div_s, _to_unsigned, x, y
<1>4. op = "div_s" => _ibinop(n, op, a, b) = div_s(n, a, b)
  BY DEF _ibinop
<1>5. op = "shr_s" => _ibinop(n, op, a, b) = Value(Mask(n, to_signed(n, a) \div 2^(b % n)))
  BY <1>1 DEF _ibinop, _to_unsigned, ShiftCount
<1> QED BY <1>3, <1>4, <1>5 DEF _binop

(* The two machines' comparisons.                                          *)
LEMMA SameComparison ==
  ASSUME NEW n \in Nat \ {0}, NEW op \in _ICMPS, NEW a \in Numbers(n), NEW b \in Numbers(n)
  PROVE  _compare(n, op, a, b) = _icompare(n, op, a, b)
<1>1. to_signed(n, a) = _to_signed(n, a) /\ to_signed(n, b) = _to_signed(n, b)
  BY FrozenSigned, MaskOfMasked DEF Numbers
<1>2. CASE op \in {"eq", "ne"}
  BY <1>2 DEF _compare, _icompare
<1>3. CASE op \in {"lt_u", "gt_u", "le_u", "ge_u"}
  BY <1>3 DEF _compare, _icompare
<1>4. CASE op \in {"lt_s", "gt_s", "le_s", "ge_s"}
  BY <1>1, <1>4 DEF _compare, _icompare, SignedOrder
<1> QED BY <1>2, <1>3, <1>4 DEF _ICMPS

(* The two machines' conversions.                                          *)
LEMMA SameConversion == \A t, rest, v : _convert(t, rest, v) = Converted(t, rest, v)
  BY FrozenSigned DEF _convert, Converted, extend_s, _to_unsigned

(* On the operands it can have, an instruction leaves the same in both     *)
(* machines, trap for trap.                                                *)
LEMMA SameInstruction ==
  ASSUME NEW ins \in AllInstrs, NEW stack \in OperandsOf(ins)
  PROVE  frozen_instr(ins, stack) = _exec_instr(ins, stack)
<1> DEFINE n == Bits(ins.t)
<1>1. n \in Nat \ {0}
  BY WidthFacts
<1>2. CASE ins.rest \in _IBINOPS
  <2>1. stack[1] \in Numbers(n) /\ stack[2] \in Numbers(n) /\ Len(stack) = 2
    BY <1>2, OperandFacts
  <2>2. Mask(n, stack[1]) = stack[1] /\ Mask(n, stack[2]) = stack[2]
    BY <1>1, <2>1, MaskOfMasked DEF Numbers
  <2>3. frozen_instr(ins, stack) = _binop(n, ins.rest, stack[1], stack[2])
    <3>1. frozen_instr(ins, stack) = _binop(n, ins.rest, Mask(n, stack[1]), Mask(n, stack[Len(stack)]))
      <4>1. ins.rest \notin _ICMPS /\ ins.rest \notin {"eqz", "clz", "ctz", "popcnt"}
        BY <1>2 DEF _IBINOPS, _ICMPS
      <4> QED BY <1>2, <4>1 DEF frozen_instr
    <3> QED BY <2>1, <2>2, <3>1
  <2> HIDE DEF n
  <2> QED BY <1>1, <1>2, <2>1, <2>3, BinaryRuns, SameBinary DEF n
<1>3. CASE ins.rest \in _ICMPS
  <2>1. stack[1] \in Numbers(n) /\ stack[2] \in Numbers(n) /\ Len(stack) = 2 /\ ins.rest \notin _IBINOPS
    BY <1>3, OperandFacts DEF _IBINOPS, _ICMPS
  <2>2. Mask(n, stack[1]) = stack[1] /\ Mask(n, stack[2]) = stack[2]
    BY <1>1, <2>1, MaskOfMasked DEF Numbers
  <2>3. frozen_instr(ins, stack) = Value(_compare(n, ins.rest, stack[1], stack[2]))
    <3>1. frozen_instr(ins, stack) =
            Value(_compare(n, ins.rest, Mask(n, stack[1]), Mask(n, stack[Len(stack)])))
      <4>1. ins.rest \notin {"eqz", "clz", "ctz", "popcnt"}
        BY <1>3 DEF _ICMPS
      <4> QED BY <1>3, <2>1, <4>1 DEF frozen_instr
    <3> QED BY <2>1, <2>2, <3>1
  <2> HIDE DEF n
  <2> QED BY <1>1, <1>3, <2>1, <2>3, ComparisonRuns, SameComparison DEF n
<1>4. CASE ins.rest \in {"eqz", "clz", "ctz", "popcnt"}
  BY <1>4 DEF frozen_instr, _exec_instr, _IBINOPS, _ICMPS
<1>5. CASE /\ ins.rest \notin _IBINOPS /\ ins.rest \notin _ICMPS
           /\ ins.rest \notin {"eqz", "clz", "ctz", "popcnt"}
  BY <1>5, ConversionRuns, SameConversion
<1> QED BY <1>2, <1>3, <1>4, <1>5

(* An operation gives a number of the width, or a division traps.          *)
LEMMA BinaryType ==
  ASSUME NEW n \in Nat \ {0}, NEW op \in _IBINOPS, NEW a \in Numbers(n), NEW b \in Numbers(n),
         NEW v, v = _ibinop(n, op, a, b)
  PROVE  \/ v.trap = "none" /\ v.value \in Numbers(n)
         \/ op \in {"div_s", "div_u", "rem_s", "rem_u"} /\ v \in {DIV_ZERO, OVERFLOW}
<1> DEFINE k == b % n
<1>1. a \in Nat /\ b \in Nat /\ 2^n \in Nat /\ a < 2^n /\ b < 2^n
  BY PowIsNat DEF Numbers
<1>2. k \in 0..(n - 1) /\ k \in Nat /\ n \in Nat /\ 2^k \in Nat \ {0}
  <2>1. k \in 0..(n - 1)
    BY <1>1, DivMod
  <2> HIDE DEF k
  <2> QED BY <2>1, PowIsNat
<1>3. \A x \in Int : Value(Mask(n, x)).trap = "none" /\ Value(Mask(n, x)).value \in Numbers(n)
  BY MaskType DEF Value, Numbers
<1>4. CASE op \in {"add", "sub", "mul"}
  <2>1. a + b \in Int /\ a - b \in Int /\ a * b \in Int
    BY <1>1
  <2>2. op = "add" => v = Value(Mask(n, a + b))
    BY DEF _ibinop
  <2>3. op = "sub" => v = Value(Mask(n, a - b))
    BY DEF _ibinop
  <2>4. op = "mul" => v = Value(Mask(n, a * b))
    BY DEF _ibinop
  <2> QED BY <1>3, <1>4, <2>1, <2>2, <2>3, <2>4
<1>5. CASE op \in {"and", "or", "xor"}
  <2>1. PICK ones : v = Value(Combined(n, ones, a, b))
    BY <1>5 DEF _ibinop
  <2>2. Combined(n, ones, a, b) \in Numbers(n)
    BY <1>1, CombinedFacts DEF Numbers
  <2> QED BY <2>1, <2>2 DEF Value
<1>6. CASE op = "shl"
  <2>1. v = Value(Mask(n, a * 2^k))
    BY <1>6 DEF _ibinop, ShiftCount
  <2>2. a * 2^k \in Int
    <3> HIDE DEF k
    <3> QED BY <1>1, <1>2
  <2> HIDE DEF k
  <2> QED BY <1>3, <2>1, <2>2
<1>7. CASE op = "shr_u"
  <2>1. v = Value(a \div 2^k)
    BY <1>7 DEF _ibinop, ShiftCount
  <2>2. a \div 2^k \in Numbers(n)
    <3> HIDE DEF k
    <3> QED BY <1>2, QuotientOf DEF Numbers
  <2> HIDE DEF k
  <2> QED BY <2>1, <2>2 DEF Value
<1>8. CASE op = "shr_s"
  <2>1. v = Value(Mask(n, _to_signed(n, a) \div 2^k))
    BY <1>8 DEF _ibinop, ShiftCount, _to_unsigned
  <2>2. _to_signed(n, a) \in Int
    BY SignedIsMeant, MeantType, PowIsNat DEF Numbers, Signed
  <2>3. _to_signed(n, a) \div 2^k \in Int
    <3> HIDE DEF k
    <3> QED BY <1>2, <2>2, DivMod
  <2> HIDE DEF k
  <2> QED BY <1>3, <2>1, <2>3
<1>9. CASE op = "rotl"
  <2>1. v = Value(rotate(n, a, k, n - k))
    BY <1>9 DEF _ibinop, ShiftCount
  <2>2. rotate(n, a, k, n - k) \in Numbers(n)
    <3>1. k \in 0..n /\ 0 \in 0..(n - 1)
      BY <1>2
    <3> HIDE DEF k
    <3> QED BY <3>1, Rotation DEF Numbers
  <2> HIDE DEF k
  <2> QED BY <2>1, <2>2 DEF Value
<1>10. CASE op = "rotr"
  <2>1. v = Value(rotate(n, a, n - k, k))
    BY <1>10 DEF _ibinop, ShiftCount
  <2>2. rotate(n, a, n - k, k) \in Numbers(n)
    <3>1. n - k \in 0..n /\ n - (n - k) = k /\ 0 \in 0..(n - 1)
      BY <1>2
    <3> HIDE DEF k
    <3>2. rotate(n, a, n - k, n - (n - k)) \in Numbers(n)
      BY <3>1, Rotation DEF Numbers
    <3> QED BY <3>1, <3>2
  <2> HIDE DEF k
  <2> QED BY <2>1, <2>2 DEF Value
<1>11. CASE op = "div_u" /\ b # 0
  <2>1. v = Value(Mask(n, a \div b))
    BY <1>11 DEF _ibinop
  <2>2. a \div b \in Int
    BY <1>1, <1>11, DivMod
  <2> QED BY <1>3, <2>1, <2>2
<1>12. CASE op = "rem_u" /\ b # 0
  <2>1. v = Value(a % b)
    BY <1>12 DEF _ibinop
  <2>2. a % b \in 0..(b - 1)
    BY <1>1, <1>12, DivMod
  <2>3. a % b \in Numbers(n)
    BY <1>1, <2>2 DEF Numbers
  <2> QED BY <2>1, <2>3 DEF Value
<1>13. CASE op = "div_s" /\ b # 0
  <2>1. v = div_s(n, a, b)
    BY <1>13 DEF _ibinop
  <2> QED BY <1>13, <2>1, DivSigned DEF Numbers
<1>14. CASE op = "rem_s" /\ b # 0
  <2>1. v = rem_s(n, a, b)
    BY <1>14 DEF _ibinop
  <2> QED BY <1>14, <2>1, RemSigned DEF Numbers
<1>15. CASE op \in {"div_s", "div_u", "rem_s", "rem_u"} /\ b = 0
  <2>1. _to_signed(n, b) = 0
    BY <1>15, SignedIsMeant, MeantZero DEF Numbers
  <2>2. v = DIV_ZERO
    BY <1>15, <2>1 DEF _ibinop, div_s, rem_s
  <2> QED BY <1>15, <2>2
<1> QED BY <1>4, <1>5, <1>6, <1>7, <1>8, <1>9, <1>10, <1>11, <1>12, <1>13, <1>14, <1>15 DEF _IBINOPS

(* Every division by zero traps.                                           *)
LEMMA DivisionByZero ==
  ASSUME NEW n \in Nat \ {0}, NEW op \in {"div_s", "div_u", "rem_s", "rem_u"}, NEW a \in Numbers(n)
  PROVE  _ibinop(n, op, a, 0) = DIV_ZERO
<1>1. 0 \in 0..(2^n - 1)
  BY PowIsNat
<1>2. _to_signed(n, 0) = 0
  BY <1>1, SignedIsMeant, MeantZero
<1> QED BY <1>2 DEF _ibinop, div_s, rem_s

(* Unsigned quotient and remainder.                                        *)
LEMMA DivUnsigned ==
  ASSUME NEW n \in Nat \ {0}, NEW a \in Numbers(n), NEW b \in Numbers(n), b # 0,
         NEW q, q = _ibinop(n, "div_u", a, b).value, NEW s, s = _ibinop(n, "rem_u", a, b).value
  PROVE  /\ a - q * b \in 0..(b - 1)
         /\ s < b /\ \E p \in 0..a : a = p * b + s
<1>1. a \in Nat /\ a \in Int /\ b \in Nat \ {0} /\ 2^n \in Nat /\ a < 2^n
  BY PowIsNat DEF Numbers
<1>2. PICK p \in Int, z \in 0..(b - 1) : a = (b * p) + z /\ a \div b = p /\ a % b = z
  <2>1. a \div b \in Int /\ a % b \in 0..(b - 1) /\ a = (b * (a \div b)) + (a % b)
    BY ONLY <1>1, DivMod, Zenon
  <2> QED BY <2>1
<1>3. Mask(n, p) = p /\ p \in 0..a
  <2>1. \A w \in Int : (w <= -1 => b * w <= -b) /\ (w >= 0 => b * w >= w)
    BY <1>1
  <2>2. p \in 0..a
    BY <1>1, <1>2, <2>1
  <2>3. p \in 0..(2^n - 1)
    BY <1>1, <2>2
  <2> QED BY <2>2, <2>3, MaskOfMasked
<1>4. _ibinop(n, "div_u", a, b) = Value(Mask(n, p)) /\ _ibinop(n, "rem_u", a, b) = Value(z)
  BY <1>1, <1>2 DEF _ibinop
<1>5. q = p /\ s = z
  BY <1>3, <1>4 DEF Value
<1>6. a - p * b = z /\ a = p * b + z /\ z < b
  BY <1>1, <1>2
<1> QED BY <1>2, <1>3, <1>5, <1>6

(* Every shift and rotation, bit by bit.                                   *)
LEMMA ShiftedBits ==
  ASSUME NEW n \in Nat \ {0}, NEW op \in {"shl", "shr_u", "shr_s", "rotl", "rotr"},
         NEW a \in Numbers(n), NEW b \in Numbers(n), NEW i \in 0..(n - 1),
         NEW k, k = b % n, NEW v, v = _ibinop(n, op, a, b)
  PROVE  Bit(v.value, i) =
               CASE op = "shl" -> IF i < k THEN 0 ELSE Bit(a, i - k)
                 [] op = "shr_u" -> IF i + k >= n THEN 0 ELSE Bit(a, i + k)
                 [] op = "shr_s" -> Bit(a, IF i + k >= n THEN n - 1 ELSE i + k)
                 [] op = "rotl" -> Bit(a, (i - k) % n)
                 [] op = "rotr" -> Bit(a, (i + k) % n)
<1>1. a \in Nat /\ b \in Nat
  BY PowIsNat DEF Numbers
<1>2. k \in 0..(n - 1) /\ k \in Nat /\ k \in 0..n /\ n - k \in 0..n /\ n - (n - k) = k
  <2>1. k \in 0..(n - 1)
    BY <1>1, DivMod
  <2> QED BY <2>1
<1>3. CASE op = "shl"
  <2>1. v = Value(Mask(n, a * 2^k))
    BY <1>3 DEF _ibinop, ShiftCount
  <2>2. v.value = Mask(n, a * 2^k)
    BY <2>1 DEF Value
  <2>3. Bit(v.value, i) = IF i < k THEN 0 ELSE Bit(a, i - k)
    BY <1>1, <1>2, <2>2, LeftShift
  <2> QED BY <1>3, <2>3
<1>4. CASE op = "shr_u"
  <2>1. v = Value(a \div 2^k)
    BY <1>4 DEF _ibinop, ShiftCount
  <2>2. v.value = a \div 2^k
    BY <2>1 DEF Value
  <2>3. Bit(v.value, i) = IF i + k >= n THEN 0 ELSE Bit(a, i + k)
    BY <1>1, <1>2, <2>2, RightShift DEF Numbers
  <2> QED BY <1>4, <2>3
<1>5. CASE op = "shr_s"
  <2>1. v = Value(Mask(n, Meant(n, a) \div 2^k))
    BY <1>5, SignedIsMeant DEF _ibinop, ShiftCount, _to_unsigned, Numbers
  <2>2. v.value = Mask(n, Meant(n, a) \div 2^k)
    BY <2>1 DEF Value
  <2>3. Bit(v.value, i) = Bit(a, IF i + k >= n THEN n - 1 ELSE i + k)
    BY <1>1, <1>2, <2>2, SignedShift DEF Numbers
  <2> QED BY <1>5, <2>3
<1>6. CASE op = "rotl"
  <2>1. v = Value(rotate(n, a, k, n - k))
    BY <1>6 DEF _ibinop, ShiftCount
  <2>2. v.value = rotate(n, a, k, n - k)
    BY <2>1 DEF Value
  <2>3. Bit(v.value, i) = Bit(a, (i - k) % n)
    BY <1>1, <1>2, <2>2, Rotation DEF Numbers
  <2> QED BY <1>6, <2>3
<1>7. CASE op = "rotr"
  <2>1. v = Value(rotate(n, a, n - k, k))
    BY <1>7 DEF _ibinop, ShiftCount
  <2>2. v.value = rotate(n, a, n - k, k)
    BY <2>1 DEF Value
  <2>3. Bit(rotate(n, a, n - k, n - (n - k)), i) = Bit(a, (i - (n - k)) % n)
    BY <1>2, Rotation DEF Numbers
  <2>4. (i - (n - k)) % n = (i + k) % n
    <3>1. i - (n - k) = (i + k) - n /\ i + k \in Int
      BY <1>2
    <3>2. \A x \in Int : (x - n) % n = x % n
      <4> SUFFICES ASSUME NEW x \in Int PROVE (x - n) % n = x % n
        OBVIOUS
      <4>1. PICK q \in Int, s \in 0..(n - 1) : x = (n * q) + s /\ x % n = s
        BY DivMod
      <4>2. x - n = n * (q - 1) + s /\ x - n \in Int /\ q - 1 \in Int
        BY <4>1
      <4>3. (x - n) % n = s
        BY <4>1, <4>2, QuotientIs
      <4> QED BY <4>1, <4>3
    <3> QED BY <3>1, <3>2
  <2>5. Bit(v.value, i) = Bit(a, (i + k) % n)
    BY <1>2, <2>2, <2>3, <2>4
  <2> QED BY <1>7, <2>5
<1> QED BY <1>3, <1>4, <1>5, <1>6, <1>7

(* The number of a truth value.                                            *)
LEMMA Flags == \A p \in BOOLEAN : Flag(p) \in {0, 1} /\ (Flag(p) = 1 <=> p)
  BY DEF Flag

(* A comparison orders the integers meant, or the bits.                    *)
LEMMA Compared ==
  ASSUME NEW n \in Nat \ {0}, NEW op \in _ICMPS, NEW a \in Numbers(n), NEW b \in Numbers(n)
  PROVE  /\ _icompare(n, op, a, b) \in {0, 1}
         /\ _icompare(n, op, a, b) = 1 <=> IF op \in {"lt_s", "gt_s", "le_s", "ge_s"}
              THEN Ordered(op, Meant(n, a), Meant(n, b)) ELSE Ordered(op, a, b)
<1>1. a \in Int /\ b \in Int
  BY PowIsNat DEF Numbers
<1>2. CASE op \in {"eq", "ne"}
  <2>1. op = "eq" => _icompare(n, op, a, b) = Flag(a = b)
    BY DEF _icompare
  <2>2. op = "ne" => _icompare(n, op, a, b) = Flag(a # b)
    BY DEF _icompare
  <2>3. op = "eq" => (Ordered(op, a, b) <=> a = b)
    BY DEF Ordered
  <2>4. op = "ne" => (Ordered(op, a, b) <=> a # b)
    BY <1>1 DEF Ordered
  <2> QED BY <1>2, <2>1, <2>2, <2>3, <2>4, Flags
<1>3. CASE op \in {"lt_u", "gt_u", "le_u", "ge_u"}
  <2>1. op = "lt_u" => _icompare(n, op, a, b) = Flag(a < b) /\ (Ordered(op, a, b) <=> a < b)
    BY DEF _icompare, Ordered
  <2>2. op = "gt_u" => _icompare(n, op, a, b) = Flag(a > b) /\ (Ordered(op, a, b) <=> a > b)
    BY DEF _icompare, Ordered
  <2>3. op = "le_u" => _icompare(n, op, a, b) = Flag(a <= b) /\ (Ordered(op, a, b) <=> a <= b)
    BY <1>1 DEF _icompare, Ordered
  <2>4. op = "ge_u" => _icompare(n, op, a, b) = Flag(a >= b) /\ (Ordered(op, a, b) <=> a >= b)
    BY <1>1 DEF _icompare, Ordered
  <2>5. _icompare(n, op, a, b) \in {0, 1} /\ (_icompare(n, op, a, b) = 1 <=> Ordered(op, a, b))
    <3>1. CASE op = "lt_u"
      BY <2>1, <3>1 DEF Flag
    <3>2. CASE op = "gt_u"
      BY <2>2, <3>2 DEF Flag
    <3>3. CASE op = "le_u"
      BY <2>3, <3>3 DEF Flag
    <3>4. CASE op = "ge_u"
      BY <2>4, <3>4 DEF Flag
    <3> QED BY <1>3, <3>1, <3>2, <3>3, <3>4
  <2> QED BY <1>3, <2>5
<1>4. CASE op \in {"lt_s", "gt_s", "le_s", "ge_s"}
  <2>1. PICK x, y : x = Meant(n, a) /\ y = Meant(n, b)
    OBVIOUS
  <2>2. _to_signed(n, a) = x /\ _to_signed(n, b) = y
    BY <2>1, SignedIsMeant DEF Numbers
  <2>3. x \in Int /\ y \in Int
    BY <2>1, MeantType, PowIsNat DEF Numbers, Signed
  <2>4. op = "lt_s" => _icompare(n, op, a, b) = Flag(x < y) /\ (Ordered(op, x, y) <=> x < y)
    BY <2>2 DEF _icompare, SignedOrder, Ordered
  <2>5. op = "gt_s" => _icompare(n, op, a, b) = Flag(x > y) /\ (Ordered(op, x, y) <=> x > y)
    BY <2>2 DEF _icompare, SignedOrder, Ordered
  <2>6. op = "le_s" => _icompare(n, op, a, b) = Flag(x <= y) /\ (Ordered(op, x, y) <=> x <= y)
    BY <2>2, <2>3 DEF _icompare, SignedOrder, Ordered
  <2>7. op = "ge_s" => _icompare(n, op, a, b) = Flag(x >= y) /\ (Ordered(op, x, y) <=> x >= y)
    BY <2>2, <2>3 DEF _icompare, SignedOrder, Ordered
  <2>8. _icompare(n, op, a, b) \in {0, 1} /\ (_icompare(n, op, a, b) = 1 <=> Ordered(op, x, y))
    <3>1. CASE op = "lt_s"
      BY <2>4, <3>1 DEF Flag
    <3>2. CASE op = "gt_s"
      BY <2>5, <3>2 DEF Flag
    <3>3. CASE op = "le_s"
      BY <2>6, <3>3 DEF Flag
    <3>4. CASE op = "ge_s"
      BY <2>7, <3>4 DEF Flag
    <3> QED BY <1>4, <3>1, <3>2, <3>3, <3>4
  <2> QED BY <1>4, <2>1, <2>8
<1> QED BY <1>2, <1>3, <1>4 DEF _ICMPS

(* A count is of the width: n is below 2^n.                                *)
LEMMA CountType ==
  ASSUME NEW n \in {I32Bits, 2 * I32Bits}, NEW a \in Numbers(n)
  PROVE  /\ clz(n, a) \in Numbers(n) /\ ctz(n, a) \in Numbers(n)
         /\ bit_count(a) \in Numbers(n)
         /\ \A p \in BOOLEAN : Flag(p) \in Numbers(n)
<1>1. n \in Nat \ {0} /\ 2^n \in Nat
  BY PowIsNat, WidthAssumption
<1>2. 2^n > n
  BY <1>1, PowAbove
<1>3. \A c \in 0..n : c \in Numbers(n)
  BY <1>1, <1>2 DEF Numbers
<1>4. 0 \in 0..n /\ 1 \in 0..n
  BY <1>1
<1>5. clz(n, a) \in 0..n
  BY LeadingZeros DEF Numbers
<1>6. ctz(n, a) \in 0..n
  BY TrailingZeros DEF Numbers
<1>7. bit_count(a) \in 0..n
  BY OnesCounted DEF Numbers
<1> QED BY <1>3, <1>4, <1>5, <1>6, <1>7 DEF Flag

(* A conversion is of the width; a signed one keeps the integer its low    *)
(* bits stand for.                                                         *)
LEMMA Converts ==
  ASSUME NEW ins \in AllInstrs, NEW a \in Nat,
         ins.rest \in {"wrap_i64", "extend_i32_u", "extend_i32_s", "extend8_s", "extend16_s", "extend32_s"},
         NEW v, v = Converted(ins.t, ins.rest, a),
         NEW from, from = IF ins.rest = "extend_i32_s" THEN I32Bits ELSE SubWidth(ins.rest)
  PROVE  /\ v \in Numbers(Bits(ins.t))
         /\ ins.rest \in {"extend_i32_s", "extend8_s", "extend16_s", "extend32_s"} =>
              Meant(Bits(ins.t), v) = Meant(from, a % 2^from)
<1>1. PICK n \in Nat \ {0} : n = Bits(ins.t)
  BY WidthFacts
<1>2. I32Bits \in Nat \ {0} /\ a \in Int
  BY WidthAssumption
<1>3. CASE ins.rest = "wrap_i64"
  <2>1. n = I32Bits
    BY <1>1, <1>3, WidthFacts DEF Bits
  <2>2. v = Mask(n, a)
    BY <1>3, <2>1 DEF Converted
  <2> QED BY <1>1, <1>2, <1>3, <2>2, MaskType DEF Numbers
<1>4. CASE ins.rest = "extend_i32_u"
  <2>1. n = 2 * I32Bits
    BY <1>1, <1>4, WidthFacts DEF Bits
  <2>2. v = Mask(I32Bits, a)
    BY <1>4 DEF Converted
  <2>3. v \in 0..(2^I32Bits - 1)
    BY <1>2, <2>2, MaskType
  <2>4. 2^I32Bits <= 2^n
    BY <1>2, <2>1, PowMonotone
  <2>5. 2^I32Bits \in Nat /\ 2^n \in Nat
    BY <1>2, PowIsNat
  <2> QED BY <1>1, <1>4, <2>3, <2>4, <2>5 DEF Numbers
<1>5. CASE ins.rest \in {"extend_i32_s", "extend8_s", "extend16_s", "extend32_s"}
  <2>1. v = extend_s(n, from, a)
    <3>1. CASE ins.rest = "extend_i32_s"
      <4>1. n = 2 * I32Bits
        BY <1>1, <3>1, WidthFacts DEF Bits
      <4> QED BY <3>1, <4>1 DEF Converted
    <3>2. CASE ins.rest \in {"extend8_s", "extend16_s", "extend32_s"}
      BY <1>1, <3>2 DEF Converted
    <3> QED BY <1>5, <3>1, <3>2
  <2>2. from \in 1..n
    <3>1. CASE ins.rest = "extend_i32_s"
      <4>1. n = 2 * I32Bits
        BY <1>1, <3>1, WidthFacts DEF Bits
      <4> QED BY <1>2, <3>1, <4>1
    <3>2. CASE ins.rest \in {"extend8_s", "extend16_s", "extend32_s"}
      BY <1>1, <3>2, WidthFacts
    <3> QED BY <1>5, <3>1, <3>2
  <2> QED BY <1>1, <1>2, <2>1, <2>2, Extension DEF Numbers
<1> QED BY <1>3, <1>4, <1>5

----------------------------------------------------------------------------
(* The specification.                                                      *)

(* The invariant: the instruction and its operands are as they were given, *)
(* and what is left is what the two machines leave of them.                *)
Inv == /\ input.ins \in AllInstrs /\ input.stack \in OperandsOf(input.ins)
       /\ \/ answer = Trap("not yet") /\ frozen = Trap("not yet")
          \/ /\ answer = _exec_instr(input.ins, input.stack)
             /\ frozen = frozen_instr(input.ins, input.stack)

(* When an instruction is done: what it was, its operands and its answer.  *)
LEMMA Executed ==
  ASSUME Inv, Done
  PROVE  /\ input.ins \in AllInstrs /\ input.stack \in OperandsOf(input.ins)
         /\ answer = _exec_instr(input.ins, input.stack)
         /\ W \in Nat \ {0} /\ W \in {I32Bits, 2 * I32Bits}
         /\ input.ins.rest \in _IBINOPS \cup _ICMPS => a1 \in Numbers(W) /\ b1 \in Numbers(W)
         /\ input.ins.rest \notin _IBINOPS \cup _ICMPS =>
              /\ a1 \in Nat
              /\ input.ins.rest \notin {"extend_i32_s", "extend_i32_u", "wrap_i64"} => a1 \in Numbers(W)
<1>1. answer # Trap("not yet")
  <2>1. Trap("not yet").trap = "not yet"
    BY DEF Trap
  <2>2. answer.trap # "not yet"
    BY DEF Done
  <2> QED BY <2>1, <2>2
<1>2. input.ins \in AllInstrs /\ input.stack \in OperandsOf(input.ins)
  BY DEF Inv
<1> QED BY <1>1, <1>2, WidthFacts, OperandFacts DEF Inv, W, a1, b1

(* Numbers that differ by a multiple of the modulus.                       *)
LEMMA Multiple ==
  ASSUME NEW M \in Nat \ {0}, NEW k \in Int
  PROVE  (M * k) % M = 0
<1>1. M * k \in Int
  OBVIOUS
<1> DEFINE q == (M * k) \div M
           s == (M * k) % M
<1>2. q \in Int /\ s \in 0..(M - 1) /\ M * k = M * q + s
  BY <1>1, DivMod
<1>3. 0 \in 0..(M - 1) /\ M * k + 0 = M * q + s
  BY <1>1, <1>2
<1> HIDE DEF q, s
<1>4. s = 0
  BY ONLY <1>2, <1>3, Unique, M \in Nat \ {0}, k \in Int
<1> QED BY <1>4 DEF s

(* What a number of n bits stands for is the number, or 2^n less.          *)
LEMMA MeantIs ==
  ASSUME NEW n \in Nat \ {0}, NEW v \in Numbers(n)
  PROVE  \E c \in Int : Meant(n, v) = v - 2^n * c
<1>1. 2^n \in Nat \ {0} /\ v \in Nat
  BY PowIsNat DEF Numbers
<1>2. Meant(n, v) = v - 2^n * 1 \/ Meant(n, v) = v - 2^n * 0
  BY <1>1 DEF Meant
<1>3. CASE Meant(n, v) = v - 2^n * 1
  <2> WITNESS 1 \in Int
  <2> QED BY <1>3
<1>4. CASE Meant(n, v) = v - 2^n * 0
  <2> WITNESS 0 \in Int
  <2> QED BY <1>4
<1> QED BY <1>2, <1>3, <1>4

(* The parts of IntegersExact, one by one: sums, differences and products, *)
LEMMA WrapsRight == Inv => ArithmeticWraps
<1> SUFFICES ASSUME Inv, Is({"add", "sub", "mul"})
             PROVE  ArithmeticWraps
  BY DEF ArithmeticWraps, Wraps, Is
<1> DEFINE op == input.ins.rest
           M == 2^W
<1>1. Done /\ op \in {"add", "sub", "mul"} /\ op \in _IBINOPS
  BY DEF Is, _IBINOPS
<1>2. W \in Nat \ {0} /\ a1 \in Numbers(W) /\ b1 \in Numbers(W)
  BY <1>1, Executed
<1>3. answer = _ibinop(W, op, a1, b1)
  BY <1>1, Executed, BinaryRuns DEF W, a1, b1
<1>4. M \in Nat \ {0} /\ a1 \in Int /\ b1 \in Int
  BY <1>2, PowIsNat DEF Numbers
<1>5. PICK x \in Int : /\ op = "add" => x = a1 + b1
                       /\ op = "sub" => x = a1 - b1
                       /\ op = "mul" => x = a1 * b1
  <2>1. a1 + b1 \in Int /\ a1 - b1 \in Int /\ a1 * b1 \in Int
    BY <1>4
  <2> HIDE DEF op
  <2> QED BY <1>1, <2>1
<1>6. r = x % M
  <2>1. answer = Value(Mask(W, x))
    BY <1>1, <1>3, <1>5 DEF _ibinop
  <2> QED BY <2>1 DEF r, Value, Mask
<1>7. r \in Numbers(W) /\ r \in Int
  <2>1. r \in 0..(M - 1)
    BY <1>4, <1>6, DivMod
  <2> QED BY <1>4, <2>1 DEF Numbers
<1>8. PICK k \in Int : x - r = M * k
  <2>1. x \div M \in Int /\ x = M * (x \div M) + (x % M)
    BY <1>4, DivMod
  <2> DEFINE q == x \div M
  <2>2. q \in Int /\ x = M * q + r
    BY <1>6, <2>1
  <2> HIDE DEF q, M
  <2> QED BY <1>4, <1>7, <2>2
<1>9. Wraps(a1, b1, r)
  <2>1. (x - r) % M = 0
    BY <1>4, <1>8, Multiple
  <2>2. /\ op = "add" => ((a1 + b1) - r) % M = 0
        /\ op = "sub" => ((a1 - b1) - r) % M = 0
        /\ op = "mul" => ((a1 * b1) - r) % M = 0
    BY <1>5, <2>1
  <2> QED BY <2>2 DEF Wraps, Congruent, Is
<1>10. PICK c \in Int, d \in Int, e \in Int :
         Meant(W, a1) = a1 - M * c /\ Meant(W, b1) = b1 - M * d /\ Meant(W, r) = r - M * e
  BY <1>2, <1>7, MeantIs
<1>11. Wraps(Meant(W, a1), Meant(W, b1), Meant(W, r))
  <2> HIDE DEF M
  <2> DEFINE u == a1 - M * c
             v == b1 - M * d
             z == r - M * e
  <2>1. op = "add" => ((u + v) - z) % M = 0
    <3> SUFFICES ASSUME op = "add" PROVE ((u + v) - z) % M = 0
      OBVIOUS
    <3>1. (u + v) - z = M * (((k - c) - d) + e)
      BY <1>4, <1>5, <1>7, <1>8
    <3>2. ((k - c) - d) + e \in Int
      OBVIOUS
    <3> QED BY ONLY <1>4, <3>1, <3>2, Multiple
  <2>2. op = "sub" => ((u - v) - z) % M = 0
    <3> SUFFICES ASSUME op = "sub" PROVE ((u - v) - z) % M = 0
      OBVIOUS
    <3>1. (u - v) - z = M * (((k - c) + d) + e)
      BY <1>4, <1>5, <1>7, <1>8
    <3>2. ((k - c) + d) + e \in Int
      OBVIOUS
    <3> QED BY ONLY <1>4, <3>1, <3>2, Multiple
  <2>3. op = "mul" => ((u * v) - z) % M = 0
    <3> SUFFICES ASSUME op = "mul" PROVE ((u * v) - z) % M = 0
      OBVIOUS
    <3> DEFINE f == M * (c * d) - (c * b1 + d * a1)
    <3>1. f \in Int
      BY <1>4
    <3>2. u * v = a1 * b1 + M * f
      BY <1>4
    <3>3. a1 * b1 = M * k + r
      BY <1>4, <1>5, <1>7, <1>8
    <3> HIDE DEF f, u, v
    <3>4. (u * v) - z = M * ((k + f) + e)
      BY <1>4, <1>7, <3>1, <3>2, <3>3
    <3>5. (k + f) + e \in Int
      BY <3>1
    <3> QED BY ONLY <1>4, <3>4, <3>5, Multiple
  <2>4. u = Meant(W, a1) /\ v = Meant(W, b1) /\ z = Meant(W, r)
    BY <1>10
  <2> HIDE DEF u, v, z
  <2> QED BY <2>1, <2>2, <2>3, <2>4 DEF Wraps, Congruent, Is, M
<1> QED BY <1>9, <1>11 DEF ArithmeticWraps

(* logic,                                                                  *)
LEMMA LogicRight == Inv => LogicIsBitwise
<1> SUFFICES ASSUME Inv, Is({"and", "or", "xor"}), NEW i \in 0..(W - 1)
             PROVE  LET x == Bit(a1, i) = 1
                        y == Bit(b1, i) = 1
                        z == Bit(r, i) = 1
                    IN  /\ Is({"and"}) => (z <=> x /\ y)
                        /\ Is({"or"}) => (z <=> x \/ y)
                        /\ Is({"xor"}) => (z <=> ~(x <=> y))
  BY DEF LogicIsBitwise, Is
<1>1. Done /\ input.ins.rest \in {"and", "or", "xor"} /\ input.ins.rest \in _IBINOPS
  BY DEF Is, _IBINOPS
<1>2. W \in Nat \ {0} /\ a1 \in Int /\ b1 \in Int /\ i \in Nat
  BY <1>1, Executed, PowIsNat DEF Numbers
<1>3. answer = _ibinop(W, input.ins.rest, a1, b1)
  BY <1>1, Executed, BinaryRuns DEF W, a1, b1
<1>4. PICK ones : /\ r = Combined(W, ones, a1, b1)
                  /\ input.ins.rest = "and" => ones = {2}
                  /\ input.ins.rest = "or" => ones = {1, 2}
                  /\ input.ins.rest = "xor" => ones = {1}
  <2>1. input.ins.rest = "and" => answer = Value(Combined(W, {2}, a1, b1))
    BY <1>3 DEF _ibinop, And
  <2>2. input.ins.rest = "or" => answer = Value(Combined(W, {1, 2}, a1, b1))
    BY <1>3 DEF _ibinop, Or
  <2>3. input.ins.rest = "xor" => answer = Value(Combined(W, {1}, a1, b1))
    BY <1>3 DEF _ibinop, Xor
  <2> QED BY <1>1, <2>1, <2>2, <2>3 DEF r, Value
<1>5. Bit(r, i) = Flag(Bit(a1, i) + Bit(b1, i) \in ones)
  BY <1>2, <1>4, CombinedFacts
<1>6. Bit(a1, i) \in {0, 1} /\ Bit(b1, i) \in {0, 1}
  BY <1>2, BitType
<1>7. Bit(r, i) = 1 <=> Bit(a1, i) + Bit(b1, i) \in ones
  BY <1>5 DEF Flag
<1>8. /\ input.ins.rest = "and" => (Bit(r, i) = 1 <=> Bit(a1, i) = 1 /\ Bit(b1, i) = 1)
      /\ input.ins.rest = "or" => (Bit(r, i) = 1 <=> Bit(a1, i) = 1 \/ Bit(b1, i) = 1)
      /\ input.ins.rest = "xor" => (Bit(r, i) = 1 <=> ~(Bit(a1, i) = 1 <=> Bit(b1, i) = 1))
  BY <1>4, <1>6, <1>7
<1> QED BY <1>8 DEF Is

(* divisions,                                                              *)
LEMMA DividesRight == Inv => DivisionTruncates
<1> SUFFICES ASSUME Inv, Is({"div_s", "rem_s", "div_u", "rem_u"})
             PROVE  DivisionTruncates
  BY DEF DivisionTruncates, Is
<1> DEFINE op == input.ins.rest
<1>1. Done /\ op \in {"div_s", "rem_s", "div_u", "rem_u"} /\ op \in _IBINOPS
  BY DEF Is, _IBINOPS
<1>2. W \in Nat \ {0} /\ a1 \in Numbers(W) /\ b1 \in Numbers(W)
  BY <1>1, Executed
<1>3. answer = _ibinop(W, op, a1, b1)
  BY <1>1, Executed, BinaryRuns DEF W, a1, b1
<1>4. op \in {"div_s", "rem_s", "div_u", "rem_u"} /\ b1 = 0 => answer = DIV_ZERO
  BY <1>2, <1>3, DivisionByZero
<1>5. b1 # 0 /\ op = "div_s" =>
        IF Meant(W, a1) = -(2^(W - 1)) /\ Meant(W, b1) = -1 THEN answer = OVERFLOW
        ELSE LET rest == Meant(W, a1) - Meant(W, r) * Meant(W, b1)
             IN  /\ answer.trap = "none" /\ Magnitude(rest) < Magnitude(Meant(W, b1))
                 /\ rest # 0 => (rest < 0 <=> Meant(W, a1) < 0)
  <2>1. op = "div_s" => answer = div_s(W, a1, b1)
    BY <1>3 DEF _ibinop
  <2> QED BY <1>2, <2>1, DivSigned DEF r, Numbers
<1>6. b1 # 0 /\ op = "rem_s" =>
        /\ answer.trap = "none" /\ Magnitude(Meant(W, r)) < Magnitude(Meant(W, b1))
        /\ \E q \in -(2^W)..(2^W) : Meant(W, a1) = q * Meant(W, b1) + Meant(W, r)
        /\ r # 0 => (Meant(W, r) < 0 <=> Meant(W, a1) < 0)
  <2>1. op = "rem_s" => answer = rem_s(W, a1, b1)
    BY <1>3 DEF _ibinop
  <2>2. a1 \in 0..(2^W - 1) /\ b1 \in 0..(2^W - 1)
    BY <1>2 DEF Numbers
  <2>3. op = "rem_s" => r = rem_s(W, a1, b1).value /\ answer.trap = rem_s(W, a1, b1).trap
    BY <2>1 DEF r
  <2> HIDE DEF op
  <2>4. SUFFICES ASSUME b1 # 0, op = "rem_s"
                 PROVE  /\ answer.trap = "none" /\ Magnitude(Meant(W, r)) < Magnitude(Meant(W, b1))
                        /\ \E q \in -(2^W)..(2^W) : Meant(W, a1) = q * Meant(W, b1) + Meant(W, r)
                        /\ r # 0 => (Meant(W, r) < 0 <=> Meant(W, a1) < 0)
    OBVIOUS
  <2> QED BY <1>2, <2>2, <2>3, <2>4, RemSigned
<1>7. b1 # 0 /\ op = "div_u" => a1 - r * b1 \in 0..(b1 - 1)
  BY <1>2, <1>3, DivUnsigned DEF r
<1>8. b1 # 0 /\ op = "rem_u" => r < b1 /\ \E q \in 0..a1 : a1 = q * b1 + r
  BY <1>2, <1>3, DivUnsigned DEF r
<1> HIDE DEF op
<1> QED BY <1>4, <1>5, <1>6, <1>7, <1>8 DEF DivisionTruncates, Is, op

(* shifts and rotations,                                                   *)
LEMMA ShiftsRight == Inv => ShiftsMoveBits
<1> SUFFICES ASSUME Inv, Is({"shl", "shr_u", "shr_s", "rotl", "rotr"})
             PROVE  ShiftsMoveBits
  BY DEF ShiftsMoveBits
<1>1. Done /\ input.ins.rest \in {"shl", "shr_u", "shr_s", "rotl", "rotr"} /\ input.ins.rest \in _IBINOPS
  BY DEF Is, _IBINOPS
<1>2. W \in Nat \ {0} /\ a1 \in Numbers(W) /\ b1 \in Numbers(W)
  BY <1>1, Executed
<1>3. answer = _ibinop(W, input.ins.rest, a1, b1)
  BY <1>1, Executed, BinaryRuns DEF W, a1, b1
<1> QED BY <1>1, <1>2, <1>3, ShiftedBits DEF ShiftsMoveBits, r

(* counts,                                                                 *)
LEMMA CountsRight == Inv => CountsTheBits
<1> SUFFICES ASSUME Inv, Is({"clz", "ctz", "popcnt"})
             PROVE  CountsTheBits
  BY DEF CountsTheBits, Is
<1>1. Done /\ input.ins.rest \in {"clz", "ctz", "popcnt"} /\ input.ins.rest \notin _IBINOPS \cup _ICMPS
  BY DEF Is, _IBINOPS, _ICMPS
<1>2. W \in {I32Bits, 2 * I32Bits} /\ a1 \in Numbers(W)
  BY <1>1, Executed
<1>3. input.ins.rest = "clz" => r = clz(W, a1)
  BY <1>1, Executed, CountRuns DEF W, a1, r, Value
<1>4. input.ins.rest = "ctz" => r = ctz(W, a1)
  BY <1>1, Executed, CountRuns DEF W, a1, r, Value
<1>5. input.ins.rest = "popcnt" => r = bit_count(a1)
  BY <1>1, Executed, CountRuns DEF W, a1, r, Value
<1>6. input.ins.rest = "clz" => /\ r \in 0..W /\ \A i \in (W - r)..(W - 1) : Bit(a1, i) = 0
                                /\ r < W => Bit(a1, W - 1 - r) = 1
  BY <1>2, <1>3, LeadingZeros DEF Numbers
<1>7. input.ins.rest = "ctz" => /\ r \in 0..W /\ \A i \in 0..(r - 1) : Bit(a1, i) = 0
                                /\ r < W => Bit(a1, r) = 1
  BY <1>2, <1>4, TrailingZeros DEF Numbers
<1>8. input.ins.rest = "popcnt" => r = Cardinality({i \in 0..(W - 1) : Bit(a1, i) = 1})
  BY <1>2, <1>5, OnesCounted DEF Numbers
<1> QED BY <1>6, <1>7, <1>8 DEF CountsTheBits, Is

(* comparisons,                                                            *)
LEMMA ComparesRight == Inv => ComparisonsOrder
<1> SUFFICES ASSUME Inv, Is(_ICMPS)
             PROVE  ComparisonsOrder
  BY DEF ComparisonsOrder
<1>1. Done /\ input.ins.rest \in _ICMPS
  BY DEF Is
<1>2. W \in Nat \ {0} /\ a1 \in Numbers(W) /\ b1 \in Numbers(W)
  BY <1>1, Executed
<1>3. r = _icompare(W, input.ins.rest, a1, b1)
  BY <1>1, Executed, ComparisonRuns DEF W, a1, b1, r, Value
<1> QED BY <1>1, <1>2, <1>3, Compared DEF ComparisonsOrder

(* sign extensions,                                                        *)
LEMMA ExtendsRight == Inv => ExtensionsKeepTheValue
<1> SUFFICES ASSUME Inv, Is({"extend_i32_s", "extend8_s", "extend16_s", "extend32_s"})
             PROVE  ExtensionsKeepTheValue
  BY DEF ExtensionsKeepTheValue
<1>1. Done /\ input.ins.rest \in {"extend_i32_s", "extend8_s", "extend16_s", "extend32_s"}
  BY DEF Is
<1>2. /\ input.ins.rest \notin _IBINOPS /\ input.ins.rest \notin _ICMPS
      /\ input.ins.rest \notin {"eqz", "clz", "ctz", "popcnt"}
  BY <1>1 DEF _IBINOPS, _ICMPS
<1>3. input.ins \in AllInstrs /\ a1 \in Nat
  BY <1>1, <1>2, Executed
<1>4. r = Converted(input.ins.t, input.ins.rest, a1)
  BY <1>1, <1>2, Executed, ConversionRuns DEF a1, r, Value
<1> QED BY <1>1, <1>3, <1>4, Converts DEF ExtensionsKeepTheValue, W

(* what eqz, zero extensions and wraps keep,                               *)
LEMMA KeepsRight == Inv => BitsAreKept
<1> SUFFICES ASSUME Inv, Is({"eqz", "extend_i32_u", "wrap_i64"})
             PROVE  BitsAreKept
  BY DEF BitsAreKept, Is
<1> DEFINE op == input.ins.rest
<1>1. Done /\ op \in {"eqz", "extend_i32_u", "wrap_i64"} /\ op \notin _IBINOPS /\ op \notin _ICMPS
  BY DEF Is, _IBINOPS, _ICMPS
<1>2. input.ins \in AllInstrs /\ input.stack \in OperandsOf(input.ins) /\ a1 \in Nat
  BY <1>1, Executed
<1>3. op = "eqz" => (r = 1 <=> a1 = 0)
  <2> SUFFICES ASSUME op = "eqz" PROVE r = 1 <=> a1 = 0
    OBVIOUS
  <2>1. r = Flag(a1 = 0)
    BY <1>1, <1>2, Executed, CountRuns DEF a1, r, Value
  <2> QED BY <2>1 DEF Flag
<1>4. op # "eqz" => r = Converted(input.ins.t, op, a1)
  <2>1. op # "eqz" => op \notin {"eqz", "clz", "ctz", "popcnt"}
    BY <1>1
  <2> QED BY <1>1, <1>2, <2>1, Executed, ConversionRuns DEF a1, r, Value
<1>5. op \in {"extend_i32_u", "wrap_i64"} => r = Mask(I32Bits, a1)
  BY <1>4 DEF Converted
<1>6. I32Bits \in Nat \ {0}
  BY WidthAssumption
<1>7. op = "extend_i32_u" => r = a1
  <2> SUFFICES ASSUME op = "extend_i32_u" PROVE r = a1
    OBVIOUS
  <2>1. PICK v \in Operand("i32") : input.stack = <<v>>
    BY <1>1, <1>2 DEF OperandsOf
  <2>2. a1 \in 0..(2^I32Bits - 1)
    BY <2>1 DEF Operand, Bits, a1
  <2> QED BY <1>5, <1>6, <2>2, MaskOfMasked
<1>8. op = "wrap_i64" => \A i \in 0..(W - 1) : Bit(r, i) = Bit(a1, i)
  <2> SUFFICES ASSUME op = "wrap_i64", NEW i \in 0..(W - 1) PROVE Bit(r, i) = Bit(a1, i)
    OBVIOUS
  <2>1. W = I32Bits
    BY <1>2, WidthFacts DEF W, Bits
  <2>2. r = a1 % 2^I32Bits /\ a1 \in Int /\ i \in Nat /\ i < I32Bits
    BY <1>2, <1>5, <1>6, <2>1 DEF Mask
  <2> QED BY <1>6, <2>2, BitOfMask
<1> HIDE DEF op
<1> QED BY <1>3, <1>7, <1>8 DEF BitsAreKept, Is, op

(* and the width of every answer.                                          *)
LEMMA TypeRight == Inv => TypeOK
<1> SUFFICES ASSUME Inv, Done PROVE TypeOK
  BY DEF TypeOK
<1>1. /\ input.ins \in AllInstrs /\ input.stack \in OperandsOf(input.ins)
      /\ answer = _exec_instr(input.ins, input.stack)
      /\ W \in Nat \ {0} /\ W \in {I32Bits, 2 * I32Bits}
  BY Executed
<1>2. CASE input.ins.rest \in _IBINOPS
  <2>1. answer = _ibinop(W, input.ins.rest, a1, b1) /\ a1 \in Numbers(W) /\ b1 \in Numbers(W)
    BY <1>1, <1>2, Executed, BinaryRuns DEF W, a1, b1
  <2> QED BY <1>1, <1>2, <2>1, BinaryType DEF TypeOK, Is, r, Numbers
<1>3. CASE input.ins.rest \in _ICMPS
  <2>1. answer = Value(_icompare(W, input.ins.rest, a1, b1)) /\ a1 \in Numbers(W) /\ b1 \in Numbers(W)
    BY <1>1, <1>3, Executed, ComparisonRuns DEF W, a1, b1
  <2>2. answer.trap = "none" /\ r \in {0, 1}
    BY <1>1, <1>3, <2>1, Compared DEF r, Value
  <2>3. {0, 1} \subseteq Numbers(W)
    BY <1>1, CountType, <2>1 DEF Flag
  <2> QED BY <2>2, <2>3 DEF TypeOK, Numbers
<1>4. CASE input.ins.rest \in {"eqz", "clz", "ctz", "popcnt"}
  <2>1. a1 \in Numbers(W)
    BY <1>4, Executed DEF _IBINOPS, _ICMPS
  <2>2. answer = Value(CASE input.ins.rest = "eqz" -> Flag(a1 = 0)
                         [] input.ins.rest = "clz" -> clz(W, a1)
                         [] input.ins.rest = "ctz" -> ctz(W, a1)
                         [] input.ins.rest = "popcnt" -> bit_count(a1))
    BY <1>1, <1>4, CountRuns DEF W, a1
  <2>3. Flag(a1 = 0) \in Numbers(W)
    BY <1>1, <2>1, CountType
  <2>4. answer.trap = "none" /\ r \in Numbers(W)
    BY <1>1, <1>4, <2>1, <2>2, <2>3, CountType DEF r, Value
  <2> QED BY <2>4 DEF TypeOK, Numbers
<1>5. CASE input.ins.rest \notin _IBINOPS \cup _ICMPS /\ input.ins.rest \notin {"eqz", "clz", "ctz", "popcnt"}
  <2>1. a1 \in Nat
    BY <1>5, Executed
  <2>2. /\ answer = Value(Converted(input.ins.t, input.ins.rest, a1))
        /\ input.ins.rest \in {"wrap_i64", "extend_i32_u", "extend_i32_s",
                               "extend8_s", "extend16_s", "extend32_s"}
    BY <1>1, <1>5, ConversionRuns DEF a1
  <2>3. answer.trap = "none" /\ r \in Numbers(W)
    BY <1>1, <2>1, <2>2, Converts DEF r, Value, W
  <2> QED BY <2>3 DEF TypeOK, Numbers
<1> QED BY <1>2, <1>3, <1>4, <1>5

(* The invariant holds at the start,                                       *)
LEMMA Started == Init => Inv
<1> SUFFICES ASSUME NEW ins \in AllInstrs, NEW stack \in OperandsOf(ins), Start(ins, stack)
             PROVE  Inv
  BY DEF Init
<1>1. input = [ins |-> ins, stack |-> stack] /\ answer = Trap("not yet") /\ frozen = Trap("not yet")
  BY DEF Start
<1>2. input.ins = ins /\ input.stack = stack
  BY <1>1
<1> QED BY <1>1, <1>2 DEF Inv

(* and in every step.                                                      *)
LEMMA Stays == Inv /\ [Execute]_vars => Inv'
<1> SUFFICES ASSUME Inv, [Execute]_vars PROVE Inv'
  OBVIOUS
<1>1. CASE Execute
  BY <1>1 DEF Execute, Inv
<1>2. CASE UNCHANGED vars
  BY <1>2 DEF vars, Inv
<1> QED BY <1>1, <1>2

(* For every width, and every operand of it: the M5 integer core leaves    *)
(* what the frozen one does, value for value and trap for trap.            *)
THEOREM CoresAgree == Spec => []FrozenSame
<1>1. Inv => FrozenSame
  <2> SUFFICES ASSUME Inv PROVE FrozenSame
    OBVIOUS
  <2>1. input.ins \in AllInstrs /\ input.stack \in OperandsOf(input.ins)
    BY DEF Inv
  <2>2. frozen_instr(input.ins, input.stack) = _exec_instr(input.ins, input.stack)
    BY <2>1, SameInstruction
  <2> QED BY <2>2 DEF Inv, FrozenSame
<1> QED BY <1>1, Started, Stays, PTL DEF Spec

(* For every width, and every operand of it: each integer instruction is   *)
(* the mathematics it stands for.                                          *)
THEOREM CoreIsExact == Spec => []IntegersExact
<1>1. Inv => IntegersExact
  BY TypeRight, WrapsRight, LogicRight, DividesRight, ShiftsRight, CountsRight, ComparesRight,
     ExtendsRight, KeepsRight DEF IntegersExact
<1> QED BY <1>1, Started, Stays, PTL DEF Spec

----------------------------------------------------------------------------
(* LEB128: numbers and their digits.                                       *)

(* What digit k + 1 counts.                                                *)
Place(k) == 2^(Group * k)

(* A byte has at least one bit of payload.                                 *)
LEMMA ContinueFacts == Continue \in Nat /\ Continue >= 2 /\ Continue = 2 * (Continue \div 2)
<1>1. Group - 1 \in Nat
  BY GroupAssumption
<1>2. 2^(Group - 1) \in Nat \ {0} /\ 2^((Group - 1) + 1) = 2 * 2^(Group - 1)
  BY <1>1, PowIsNat, PowNext, Zenon
<1>3. Continue = 2 * 2^(Group - 1)
  BY <1>2, GroupAssumption DEF Continue
<1> QED BY <1>2, <1>3

(* Each place counts one byte's payloads of the one before.                *)
LEMMA PlaceFacts ==
  ASSUME NEW k \in Nat
  PROVE  /\ Group * k \in Nat
         /\ Place(k) \in Nat \ {0}
         /\ Place(k + 1) = Place(k) * Continue
         /\ k = 0 => Place(k) = 1
<1>1. Group * k \in Nat /\ Group * (k + 1) = Group * k + Group
  BY GroupAssumption
<1>2. 2^(Group * k + Group) = 2^(Group * k) * 2^Group
  BY <1>1, PowSum, GroupAssumption
<1>3. k = 0 => 2^(Group * k) = 1
  <2>1. Group * 0 = 0 /\ 2^0 = 1
    BY GroupAssumption
  <2> QED BY <2>1
<1> QED BY <1>1, <1>2, <1>3, PowIsNat DEF Place, Continue

(* Places multiply.                                                        *)
LEMMA PlaceSum == \A m, n \in Nat : Place(m + n) = Place(m) * Place(n)
<1> TAKE m, n \in Nat
<1>1. Group * m \in Nat /\ Group * n \in Nat /\ Group * (m + n) = Group * m + Group * n
  BY GroupAssumption
<1> QED BY <1>1, PowSum DEF Place

(* A digit, by the place before it.                                        *)
LEMMA DigitIs ==
  ASSUME NEW v \in Int, NEW k \in Nat
  PROVE  /\ Digit(v, k + 1) = (v \div Place(k)) % Continue
         /\ Digit(v, k + 1) \in 0..(Continue - 1)
<1>1. Digit(v, k + 1) = (v \div Place(k)) % Continue
  BY DEF Digit, Place
<1>2. v \div Place(k) \in Int
  BY PlaceFacts, DivMod
<1>3. Continue \in Nat \ {0}
  BY ContinueFacts
<1>4. (v \div Place(k)) % Continue \in 0..(Continue - 1)
  BY ONLY <1>2, <1>3, DivMod
<1> QED BY <1>1, <1>4

(* One digit more of a remainder.                                          *)
LEMMA DigitOnTop ==
  ASSUME NEW v \in Int, NEW k \in Nat
  PROVE  v % Place(k + 1) = (Digit(v, k + 1) * Place(k)) + (v % Place(k))
<1> DEFINE b == Place(k)
           q == v \div b
           rest == v % b
           d == q % Continue
           e == q \div Continue
<1>1. b \in Nat \ {0} /\ Continue \in Nat \ {0} /\ Place(k + 1) = b * Continue
  BY PlaceFacts, ContinueFacts
<1>2. q \in Int /\ rest \in 0..(b - 1) /\ v = (b * q) + rest
  BY <1>1, DivMod
<1>3. e \in Int /\ d \in 0..(Continue - 1) /\ q = (Continue * e) + d
  BY <1>1, <1>2, DivMod
<1>4. Digit(v, k + 1) = d
  BY DigitIs
<1> HIDE DEF q, rest, d, e, b
<1>5. v = ((b * Continue) * e) + (d * b + rest)
  BY <1>1, <1>2, <1>3
<1>6. d * b + rest \in 0..((b * Continue) - 1)
  <2>1. d * b \in Nat /\ d * b <= (Continue - 1) * b
    BY <1>1, <1>3
  <2> QED BY <1>1, <1>2, <2>1
<1>7. b * Continue \in Nat \ {0}
  BY <1>1
<1>8. v % (b * Continue) = d * b + rest
  BY <1>3, <1>5, <1>6, <1>7, QuotientIs
<1> QED BY <1>1, <1>4, <1>8 DEF b, rest

(* Numbers with the same digits have the same remainder.                   *)
LEMMA DigitsTell ==
  ASSUME NEW v \in Int, NEW u \in Int, NEW n \in Nat,
         \A k \in 1..n : Digit(v, k) = Digit(u, k)
  PROVE  v % Place(n) = u % Place(n)
<1> DEFINE S == {k \in Nat : k <= n => v % Place(k) = u % Place(k)}
<1>1. 0 \in S
  BY PlaceFacts
<1>2. ASSUME NEW k \in S PROVE k + 1 \in S
  BY DigitOnTop
<1>3. S \in SUBSET Nat
  OBVIOUS
<1>4. n \in S
  <2> HIDE DEF S
  <2> QED BY <1>1, <1>2, <1>3, Induction
<1> QED BY <1>4

(* What is added from place n on leaves the digits below alone.            *)
LEMMA DigitBelow ==
  ASSUME NEW v \in Int, NEW m \in Int, NEW n \in Nat, NEW k \in 1..n
  PROVE  Digit(v + m * Place(n), k) = Digit(v, k)
<1> DEFINE j == k - 1
           b == Place(j)
           q == v \div b
           rest == v % b
           f == Place(n - k)
<1>1. j \in Nat /\ k = j + 1 /\ n - k \in Nat /\ n = (j + 1) + (n - k)
  OBVIOUS
<1>2. b \in Nat \ {0} /\ Continue \in Nat \ {0} /\ Place(k) = b * Continue /\ f \in Nat
  BY <1>1, PlaceFacts, ContinueFacts
<1>3. Place(n) = (b * Continue) * f
  BY <1>1, <1>2, PlaceSum
<1>4. q \in Int /\ rest \in 0..(b - 1) /\ v = (b * q) + rest
  BY <1>2, DivMod
<1>5. v + m * Place(n) \in Int
  BY <1>2, <1>3
<1> HIDE DEF b, q, rest, f
<1>6. v + m * Place(n) = (b * (q + Continue * (m * f))) + rest
  <2>1. m * ((b * Continue) * f) = b * (Continue * (m * f))
    BY <1>2
  <2>2. m * f \in Int
    BY <1>2
  <2>3. Continue * (m * f) \in Int
    BY <2>2, <1>2
  <2> HIDE DEF j
  <2> QED BY <1>2, <1>3, <1>4, <2>1, <2>3
<1>7. q + Continue * (m * f) \in Int
  BY <1>2, <1>4
<1>8. (v + m * Place(n)) \div b = q + Continue * (m * f)
  BY <1>2, <1>4, <1>5, <1>6, <1>7, QuotientIs
<1>9. (q + Continue * (m * f)) % Continue = q % Continue
  <2> DEFINE d == q % Continue
             e == q \div Continue
             g == m * f
  <2>1. e \in Int /\ d \in 0..(Continue - 1) /\ q = (Continue * e) + d
    BY <1>2, <1>4, DivMod
  <2>2. g \in Int
    BY <1>2
  <2> HIDE DEF d, e, g
  <2>3. q + Continue * g = (Continue * (e + g)) + d
    BY <2>1, <2>2, <1>2
  <2>4. e + g \in Int /\ q + Continue * g \in Int
    BY <2>1, <2>2, <1>2, <1>4
  <2>5. (q + Continue * g) % Continue = d
    BY <1>2, <2>1, <2>3, <2>4, QuotientIs
  <2> QED BY <2>5 DEF d, g
<1>10. Digit(v + m * Place(n), k) = ((v + m * Place(n)) \div b) % Continue /\ Digit(v, k) = q % Continue
  BY <1>1, <1>5, DigitIs DEF b, q
<1> QED BY <1>8, <1>9, <1>10

----------------------------------------------------------------------------
(* LEB128: bytes and the numbers they spell.                               *)

(* Bytes of a file.                                                        *)
Bytestrings == Seq(Byte8)

(* The number whose digits are the payloads of the first n bytes.          *)
Spells(w, n, v) == v \in 0..(Place(n) - 1) /\ \A k \in 1..n : Digit(v, k) = w[k] % Continue
Number(w, n) == CHOOSE v \in Nat : Spells(w, n, v)

(* The payload of a byte, and its continuation bit.                        *)
LEMMA ByteFacts ==
  ASSUME NEW w \in Bytestrings, NEW k \in 1..Len(w)
  PROVE  /\ w[k] \in Nat /\ w[k] % Continue \in 0..(Continue - 1)
         /\ w[k] < Continue => w[k] % Continue = w[k]
         /\ w[k] >= Continue => w[k] = (w[k] % Continue) + Continue
<1>1. w[k] \in Byte8
  BY DEF Bytestrings
<1>2. Continue \in Nat \ {0}
  BY ContinueFacts
<1> DEFINE c == w[k]
<1>3. c \in 0..(2 * Continue - 1)
  BY <1>1 DEF Byte8
<1> HIDE DEF c
<1>4. c \in Nat /\ c % Continue \in 0..(Continue - 1)
  <2>1. c \in Nat /\ c \in Int
    BY <1>2, <1>3
  <2>2. c % Continue \in 0..(Continue - 1)
    BY ONLY <2>1, <1>2, DivMod, Zenon
  <2> QED BY <2>1, <2>2
<1>5. ASSUME c < Continue PROVE c % Continue = c
  <2>1. c = Continue * 0 + c /\ c \in 0..(Continue - 1)
    BY <1>2, <1>3, <1>5
  <2> QED BY <1>2, <2>1, QuotientIs
<1>6. ASSUME c >= Continue PROVE c = (c % Continue) + Continue
  <2>1. c = Continue * 1 + (c - Continue) /\ c - Continue \in 0..(Continue - 1)
    BY <1>2, <1>3, <1>6
  <2> DEFINE low == c - Continue
  <2>2. low \in 0..(Continue - 1) /\ c = Continue * 1 + low
    BY <2>1
  <2> HIDE DEF low
  <2>3. c \in Int /\ 1 \in Int
    BY <1>4
  <2>5. c % Continue = low
    BY ONLY <1>2, <2>3, <2>2, QuotientIs, Zenon
  <2>4. c % Continue = c - Continue
    BY <2>5 DEF low
  <2> QED BY <1>2, <1>4, <2>4
<1> QED BY <1>4, <1>5, <1>6 DEF c

(* A digit on top of a number.                                             *)
LEMMA DigitAdded ==
  ASSUME NEW n \in Nat, NEW v \in 0..(Place(n) - 1), NEW c \in 0..(Continue - 1)
  PROVE  LET u == v + c * Place(n)
         IN  /\ u \in 0..(Place(n + 1) - 1)
             /\ Digit(u, n + 1) = c
             /\ \A k \in 1..n : Digit(u, k) = Digit(v, k)
<1> DEFINE u == v + c * Place(n)
<1>1. /\ Place(n) \in Nat \ {0} /\ Continue \in Nat \ {0}
      /\ Place(n + 1) = Place(n) * Continue
  BY PlaceFacts, ContinueFacts
<1>2. c * Place(n) \in Nat /\ c * Place(n) <= (Continue - 1) * Place(n)
  BY <1>1
<1>3. u \in 0..(Place(n + 1) - 1)
  BY <1>1, <1>2
<1>4. \A k \in 1..n : Digit(u, k) = Digit(v, k)
  BY <1>1, DigitBelow
<1>5. Digit(u, n + 1) = c
  <2>1. u = Place(n) * c + v /\ u \in Int
    BY <1>1, <1>2
  <2> HIDE DEF u
  <2>2. u \div Place(n) = c
    BY <1>1, <2>1, QuotientIs
  <2>3. c = Continue * 0 + c /\ c \in Int /\ 0 \in Int
    BY <1>1
  <2>4. c % Continue = c
    BY ONLY <1>1, <2>3, QuotientIs, Zenon
  <2> QED BY <2>1, <2>2, <2>4, DigitIs
<1> QED BY <1>3, <1>4, <1>5

(* The bytes up to any one spell a number,                                 *)
LEMMA NumberFacts ==
  ASSUME NEW w \in Bytestrings, NEW n \in 0..Len(w)
  PROVE  Spells(w, n, Number(w, n)) /\ Number(w, n) \in Nat
<1> DEFINE S == {k \in Nat : k <= Len(w) => \E v \in Nat : Spells(w, k, v)}
<1>0. Len(w) \in Nat
  BY DEF Bytestrings
<1>1. 0 \in S
  <2>1. Spells(w, 0, 0)
    BY PlaceFacts DEF Spells
  <2> QED BY <2>1
<1>2. ASSUME NEW k \in S PROVE k + 1 \in S
  <2> SUFFICES ASSUME k + 1 <= Len(w) PROVE \E v \in Nat : Spells(w, k + 1, v)
    OBVIOUS
  <2>1. k <= Len(w) /\ k \in Nat /\ k + 1 \in 1..Len(w)
    BY <1>0
  <2>2. PICK v \in Nat : Spells(w, k, v)
    BY <2>1
  <2> DEFINE c == w[k + 1] % Continue
             u == v + c * Place(k)
  <2>3. c \in 0..(Continue - 1)
    BY <2>1, ByteFacts
  <2>4. v \in 0..(Place(k) - 1)
    BY <2>2 DEF Spells
  <2> HIDE DEF c
  <2>5. /\ u \in 0..(Place(k + 1) - 1) /\ Digit(u, k + 1) = c
        /\ \A i \in 1..k : Digit(u, i) = Digit(v, i)
    BY <2>1, <2>3, <2>4, DigitAdded
  <2>6. \A i \in 1..(k + 1) : Digit(u, i) = w[i] % Continue
    <3> TAKE i \in 1..(k + 1)
    <3>1. CASE i \in 1..k
      BY <3>1, <2>2, <2>5 DEF Spells
    <3>2. CASE i = k + 1
      BY <3>2, <2>5 DEF c
    <3> QED BY <3>1, <3>2, <2>1
  <2>7. Place(k + 1) \in Nat
    BY <2>1, PlaceFacts
  <2>8. u \in Nat
    BY <2>5, <2>7
  <2> QED BY <2>5, <2>6, <2>8 DEF Spells
<1>3. S \in SUBSET Nat
  OBVIOUS
<1>4. \A k \in Nat : k \in S
  <2> HIDE DEF S
  <2> QED BY <1>1, <1>2, <1>3, Induction
<1>5. \E v \in Nat : Spells(w, n, v)
  BY <1>0, <1>4
<1> QED BY <1>5 DEF Number

(* and only one.                                                           *)
LEMMA NumberIs ==
  ASSUME NEW w \in Bytestrings, NEW n \in 0..Len(w), NEW v \in Int,
         \A k \in 1..n : Digit(v, k) = w[k] % Continue
  PROVE  Number(w, n) = v % Place(n)
<1> DEFINE u == Number(w, n)
<1>1. u \in 0..(Place(n) - 1) /\ \A k \in 1..n : Digit(u, k) = w[k] % Continue
  BY NumberFacts DEF Spells
<1>2. n \in Nat /\ Place(n) \in Nat \ {0}
  BY PlaceFacts
<1> HIDE DEF u
<1>3. u % Place(n) = v % Place(n)
  BY <1>1, <1>2, DigitsTell
<1>4. u = Place(n) * 0 + u
  BY <1>1, <1>2
<1>5. u % Place(n) = u
  BY <1>1, <1>2, <1>4, QuotientIs
<1> QED BY <1>3, <1>5 DEF u

(* One byte more.                                                          *)
LEMMA NumberNext ==
  ASSUME NEW w \in Bytestrings, NEW n \in 0..(Len(w) - 1)
  PROVE  Number(w, n + 1) = Number(w, n) + (w[n + 1] % Continue) * Place(n)
<1> DEFINE v == Number(w, n)
           c == w[n + 1] % Continue
           u == v + c * Place(n)
<1>1. n \in 0..Len(w) /\ n + 1 \in 0..Len(w) /\ n + 1 \in 1..Len(w) /\ n \in Nat
  BY DEF Bytestrings
<1>2. v \in 0..(Place(n) - 1) /\ \A k \in 1..n : Digit(v, k) = w[k] % Continue
  BY <1>1, NumberFacts DEF Spells
<1>3. c \in 0..(Continue - 1)
  BY <1>1, ByteFacts
<1>4. /\ u \in 0..(Place(n + 1) - 1) /\ Digit(u, n + 1) = c
      /\ \A k \in 1..n : Digit(u, k) = Digit(v, k)
  <2> HIDE DEF v, c
  <2> QED BY <1>1, <1>2, <1>3, DigitAdded
<1>5. \A k \in 1..(n + 1) : Digit(u, k) = w[k] % Continue
  <2> TAKE k \in 1..(n + 1)
  <2>1. CASE k \in 1..n
    BY <2>1, <1>2, <1>4
  <2>2. CASE k = n + 1
    BY <2>2, <1>4
  <2> QED BY <2>1, <2>2, <1>1
<1> HIDE DEF u
<1>0. Place(n + 1) \in Nat \ {0}
  BY <1>1, PlaceFacts
<1>6. Place(n + 1) \in Nat \ {0} /\ u = Place(n + 1) * 0 + u /\ u \in Int
  BY <1>0, <1>4
<1>7. u % Place(n + 1) = u
  BY <1>4, <1>6, QuotientIs
<1>8. Number(w, n + 1) = u % Place(n + 1)
  BY <1>1, <1>5, <1>6, NumberIs
<1> QED BY <1>7, <1>8 DEF u

(* Byte n is the last of an integer: the first without continuation bit.   *)
Ends(w, n) == /\ n \in 1..Len(w) /\ w[n] < Continue
              /\ \A k \in 1..(n - 1) : w[k] >= Continue

(* An integer ends among the first m bytes, or they all continue.          *)
LEMMA EndsOrContinues ==
  ASSUME NEW w \in Bytestrings, NEW m \in 0..Len(w)
  PROVE  (\E n \in 1..m : Ends(w, n)) \/ (\A k \in 1..m : w[k] >= Continue)
<1> DEFINE S == {k \in 1..m : w[k] < Continue}
<1>1. S \in SUBSET Nat /\ Len(w) \in Nat
  BY DEF Bytestrings
<1>2. \A k \in 1..m : w[k] \in Nat
  BY <1>1, ByteFacts
<1>3. CASE S = {}
  BY <1>2, <1>3, ContinueFacts
<1>4. CASE S # {}
  <2>1. PICK n \in S : \A k \in S : ~(k < n)
    <3> HIDE DEF S
    <3> QED BY <1>1, <1>4, Least
  <2>2. \A k \in 1..(n - 1) : w[k] >= Continue
    BY <1>2, <2>1, ContinueFacts
  <2> QED BY <1>1, <2>1, <2>2 DEF Ends
<1> QED BY <1>3, <1>4

(* There is one place where an integer ends.                               *)
LEMMA EndsOnce ==
  ASSUME NEW w \in Bytestrings, NEW n, NEW k, Ends(w, n), Ends(w, k)
  PROVE  n = k
<1>1. n \in 1..Len(w) /\ k \in 1..Len(w) /\ Len(w) \in Nat
  BY DEF Ends, Bytestrings
<1>2. w[n] \in Nat /\ w[k] \in Nat
  BY <1>1, ByteFacts
<1> QED BY <1>1, <1>2, ContinueFacts DEF Ends

(* The bytes of a form end where it does and spell its integer.            *)
LEMMA FormSpells ==
  ASSUME NEW w \in Bytestrings, NEW n \in 1..Len(w), NEW v \in Int, SubSeq(w, 1, n) = Form(v, n)
  PROVE  Ends(w, n) /\ Number(w, n) = v % Place(n)
<1>1. Len(w) \in Nat
  BY DEF Bytestrings
<1>2. ASSUME NEW k \in 1..n PROVE w[k] = Digit(v, k) + IF k < n THEN Continue ELSE 0
  <2>1. SubSeq(w, 1, n)[k] = w[k]
    BY <1>1 DEF Bytestrings
  <2>2. Form(v, n)[k] = Digit(v, k) + IF k < n THEN Continue ELSE 0
    BY DEF Form
  <2> QED BY <2>1, <2>2
<1>3. ASSUME NEW k \in 1..n PROVE Digit(v, k) \in 0..(Continue - 1)
  <2>1. k - 1 \in Nat /\ k = (k - 1) + 1
    OBVIOUS
  <2> QED BY <2>1, DigitIs
<1>4. ASSUME NEW k \in 1..n PROVE w[k] % Continue = Digit(v, k) /\ (w[k] < Continue <=> k = n)
  <2>1. k \in 1..Len(w) /\ Continue \in Nat
    BY <1>1, ContinueFacts
  <2>2. /\ w[k] \in Nat /\ w[k] < Continue => w[k] % Continue = w[k]
        /\ w[k] >= Continue => w[k] = (w[k] % Continue) + Continue
        /\ w[k] % Continue \in 0..(Continue - 1)
    BY <2>1, ByteFacts
  <2> DEFINE d == Digit(v, k)
             c == w[k]
             low == w[k] % Continue
  <2>3. d \in 0..(Continue - 1) /\ c = d + IF k < n THEN Continue ELSE 0
    BY <1>2, <1>3
  <2>4. /\ c \in Nat /\ c < Continue => low = c
        /\ c >= Continue => c = low + Continue
        /\ low \in 0..(Continue - 1)
    BY <2>2
  <2> HIDE DEF d, c, low
  <2>5. low = d /\ (c < Continue <=> k = n)
    BY <1>1, <2>1, <2>3, <2>4
  <2> QED BY <2>5 DEF d, c, low
<1>5. Ends(w, n)
  <2>1. \A k \in 1..n : w[k] \in Nat
    BY <1>1, ByteFacts
  <2> QED BY <1>1, <1>4, <2>1, ContinueFacts DEF Ends
<1>6. n \in 0..Len(w)
  BY <1>1
<1> QED BY <1>4, <1>5, <1>6, NumberIs

(* The bytes up to where an integer ends are the form of every number with *)
(* their remainder.                                                        *)
LEMMA SpellsForm ==
  ASSUME NEW w \in Bytestrings, NEW n, Ends(w, n), NEW v \in Int, v % Place(n) = Number(w, n)
  PROVE  SubSeq(w, 1, n) = Form(v, n)
<1>1. Len(w) \in Nat /\ n \in 1..Len(w) /\ n \in Nat /\ n \in 0..Len(w)
  BY DEF Ends, Bytestrings
<1> DEFINE u == Number(w, n)
           q == v \div Place(n)
<1>2. \A k \in 1..n : Digit(u, k) = w[k] % Continue
  BY <1>1, NumberFacts DEF Spells
<1>3. Place(n) \in Nat \ {0}
  BY <1>1, PlaceFacts
<1>4. q \in Int /\ u \in Int /\ v = (Place(n) * q) + u
  <2>1. v \div Place(n) \in Int /\ v % Place(n) \in 0..(Place(n) - 1)
        /\ v = (Place(n) * (v \div Place(n))) + (v % Place(n))
    BY ONLY <1>3, v \in Int, DivMod, Zenon
  <2> QED BY <1>3, <2>1
<1> HIDE DEF u, q
<1>5. v = u + q * Place(n)
  BY <1>3, <1>4
<1>6. \A k \in 1..n : Digit(v, k) = w[k] % Continue
  BY <1>1, <1>2, <1>4, <1>5, DigitBelow
<1>7. \A k \in 1..n : w[k] = Digit(v, k) + IF k < n THEN Continue ELSE 0
  BY <1>1, <1>6, ByteFacts, ContinueFacts DEF Ends
<1>8. SubSeq(w, 1, n) = [k \in 1..n |-> w[k]]
  BY <1>1 DEF Bytestrings
<1> QED BY <1>7, <1>8 DEF Form

----------------------------------------------------------------------------
(* LEB128: widths.                                                         *)

(* Longest bytes are what the width needs: fewer leave a bit out, and the  *)
(* last has bits to spare.                                                 *)
LEMMA LongestFacts ==
  /\ Longest \in Nat \ {0} /\ MaxBytes(Width) = Longest
  /\ \A n \in Nat : n <= Longest <=> Group * (n - 1) < Width
  /\ \A n \in Nat : n < Longest <=> Group * n < Width
  /\ \A n \in Nat : Group * n # Width
<1> DEFINE q == (Width - 1) \div Group
           s == (Width - 1) % Group
<1>1. Width \in Nat /\ Width >= 1 /\ Group \in Nat /\ Group >= 1 /\ Group \in Nat \ {0} /\ Width - 1 \in Int
  BY LebAssumption, GroupAssumption
<1>2. q \in Int /\ s \in 0..(Group - 1) /\ Width - 1 = (Group * q) + s
  BY ONLY <1>1, DivMod, Zenon
<1>3. Longest = q + 1
  BY DEF Longest
<1> HIDE DEF q, s
<1>4. q >= 0
  <2>1. ASSUME q <= -1 PROVE FALSE
    <3>1. Group * q <= -Group
      BY <1>1, <1>2, <2>1
    <3> QED BY <1>1, <1>2, <3>1
  <2> QED BY <1>2, <2>1
<1>5. MaxBytes(Width) = q + 1
  <2>1. Width + Group - 1 = (Group * (q + 1)) + s
    BY <1>1, <1>2
  <2>2. q + 1 \in Int /\ Width + Group - 1 \in Int
    BY <1>1, <1>2
  <2>3. (Width + Group - 1) \div Group = q + 1
    BY ONLY <1>1, <1>2, <2>1, <2>2, QuotientIs, Zenon
  <2> QED BY <2>3 DEF MaxBytes
<1>6. ASSUME NEW n \in Nat PROVE (n <= q => Group * n < Width) /\ (n > q => Group * n >= Width)
  <2>1. n <= q => Group * n <= Group * q
    BY <1>1, <1>2
  <2>2. n >= q + 1 => Group * n >= Group * (q + 1)
    BY <1>1, <1>2
  <2>3. Group * (q + 1) = Group * q + Group
    BY <1>1, <1>2
  <2>4. Group * n \in Int /\ Group * q \in Int
    BY <1>1, <1>2
  <2> QED BY <1>1, <1>2, <2>1, <2>2, <2>3, <2>4
<1>7. ASSUME NEW n \in Nat PROVE Group * n # Width
  <2> SUFFICES ASSUME Group * n = Width PROVE FALSE
    OBVIOUS
  <2>1. Width = (Group * n) + 0 /\ 0 \in 0..(Group - 1) /\ Width \in Int /\ n \in Int
    BY <1>1
  <2>2. Width % Group = 0
    BY ONLY <1>1, <2>1, QuotientIs, Zenon
  <2> QED BY <2>2, LebAssumption
<1>8. ASSUME NEW n \in Nat PROVE n <= Longest <=> Group * (n - 1) < Width
  <2>1. CASE n = 0
    <3>1. Group * (n - 1) <= 0
      BY <1>1, <2>1
    <3>2. Group * (n - 1) \in Int
      BY <1>1
    <3> QED BY <2>1, <3>1, <3>2, <1>1, <1>2, <1>3, <1>4
  <2>2. CASE n # 0
    <3>1. n - 1 \in Nat
      BY <2>2
    <3>2. Group * (n - 1) \in Int
      BY <1>1
    <3> QED BY <3>1, <3>2, <1>6, <1>1, <1>2, <1>3
  <2> QED BY <2>1, <2>2
<1>9. ASSUME NEW n \in Nat PROVE n < Longest <=> Group * n < Width
  <2>1. Group * n \in Int
    BY <1>1
  <2> QED BY <2>1, <1>1, <1>2, <1>3, <1>6
<1>10. Longest \in Nat \ {0}
  BY <1>2, <1>3, <1>4
<1> QED BY <1>3, <1>5, <1>7, <1>8, <1>9, <1>10

----------------------------------------------------------------------------
(* LEB128: the loops of the readers.                                       *)

(* Two runs that start alike and go on alike end alike.                    *)
LEMMA SameRun ==
  ASSUME NEW n \in Nat, NEW f, NEW g, f[0] = g[0],
         \A i \in 1..n : f[i - 1] = g[i - 1] => f[i] = g[i]
  PROVE  f[n] = g[n]
<1> DEFINE S == {i \in Nat : i <= n => f[i] = g[i]}
<1>1. 0 \in S
  OBVIOUS
<1>2. ASSUME NEW i \in S PROVE i + 1 \in S
  <2> SUFFICES ASSUME i + 1 <= n PROVE f[i + 1] = g[i + 1]
    OBVIOUS
  <2>1. i + 1 \in 1..n /\ f[i] = g[i] /\ (i + 1) - 1 = i
    OBVIOUS
  <2> QED BY <2>1
<1>3. S \in SUBSET Nat
  OBVIOUS
<1>4. n \in S
  <2> HIDE DEF S
  <2> QED BY <1>1, <1>2, <1>3, Induction
<1> QED BY <1>4

(* f is what a reader has after each turn of uleb's loop.                  *)
UlebRun(f, start, T, bits) ==
  f = [i \in 0..T |->
         IF i = 0 THEN start
         ELSE LET s == f[i - 1]
              IN  IF Ok(s) /\ ~s.v.done THEN UlebTurn(s, Byte(s), bits) ELSE s]

(* uleb's loop is any function that satisfies its recursive definition.    *)
LEMMA UlebIs ==
  ASSUME NEW source, NEW bits, NEW start, start = Return(source, LebStart),
         NEW T \in Nat, T = Turns(start, MaxBytes(bits)), NEW f, UlebRun(f, start, T, bits)
  PROVE  Uleb(source, bits) = LebResult(f[T])
<1> DEFINE After == CHOOSE g : UlebRun(g, start, T, bits)
<1>1. Uleb(source, bits) = LebResult(After[T])
  BY DEF Uleb, Repeat, Looped, UlebRun
<1>2. UlebRun(After, start, T, bits)
  BY Zenon
<1> HIDE DEF After
<1>3. After[0] = start /\ f[0] = start
  BY <1>2 DEF UlebRun
<1>4. ASSUME NEW i \in 1..T, After[i - 1] = f[i - 1] PROVE After[i] = f[i]
  BY <1>2, <1>4 DEF UlebRun
<1>5. After[T] = f[T]
  <2>1. \A i \in 1..T : After[i - 1] = f[i - 1] => After[i] = f[i]
    BY <1>4
  <2>2. After[0] = f[0]
    BY <1>3
  <2> QED BY ONLY T \in Nat, <2>1, <2>2, SameRun
<1> QED BY <1>1, <1>5

(* The same of sleb's loop,                                                *)
SlebRun(f, start, T, bits) ==
  f = [i \in 0..T |->
         IF i = 0 THEN start
         ELSE LET s == f[i - 1]
              IN  IF Ok(s) /\ ~s.v.done THEN SlebTurn(s, Byte(s), bits) ELSE s]

(* The same of sleb's loop.                                                *)
LEMMA SlebIs ==
  ASSUME NEW source, NEW bits, NEW start, start = Return(source, LebStart),
         NEW T \in Nat, T = Turns(start, MaxBytes(bits)), NEW f, SlebRun(f, start, T, bits)
  PROVE  Sleb(source, bits) = LebResult(f[T])
<1> DEFINE After == CHOOSE g : SlebRun(g, start, T, bits)
<1>1. Sleb(source, bits) = LebResult(After[T])
  BY DEF Sleb, Repeat, Looped, SlebRun
<1>2. SlebRun(After, start, T, bits)
  BY Zenon
<1> HIDE DEF After
<1>3. After[0] = start /\ f[0] = start
  BY <1>2 DEF SlebRun
<1>4. ASSUME NEW i \in 1..T, After[i - 1] = f[i - 1] PROVE After[i] = f[i]
  BY <1>2, <1>4 DEF SlebRun
<1>5. After[T] = f[T]
  <2>1. \A i \in 1..T : After[i - 1] = f[i - 1] => After[i] = f[i]
    BY <1>4
  <2>2. After[0] = f[0]
    BY <1>3
  <2> QED BY ONLY T \in Nat, <2>1, <2>2, SameRun
<1> QED BY <1>1, <1>5

(* and of the frozen readers', which goes on to the first last byte.       *)
FrozenRun(f, start, T, bits) ==
  f = [i \in 0..T |->
         IF i = 0 THEN start
         ELSE LET s == f[i - 1]
              IN  IF Ok(s) /\ ~s.v.done THEN FrozenTurn(s, Byte(s), bits) ELSE s]

(* The same of the frozen loop.                                            *)
LEMMA FrozenIs ==
  ASSUME NEW source, NEW bits, NEW start, start = Return(source, LebStart),
         NEW T \in Nat, T = Turns(start, FrozenTurns(source)), NEW f, FrozenRun(f, start, T, bits)
  PROVE  FrozenLeb(source, bits) = LebResult(f[T])
<1> DEFINE After == CHOOSE g : FrozenRun(g, start, T, bits)
<1>1. FrozenLeb(source, bits) = LebResult(After[T])
  BY DEF FrozenLeb, Repeat, Looped, FrozenRun
<1>2. FrozenRun(After, start, T, bits)
  BY Zenon
<1> HIDE DEF After
<1>3. After[0] = start /\ f[0] = start
  BY <1>2 DEF FrozenRun
<1>4. ASSUME NEW i \in 1..T, After[i - 1] = f[i - 1] PROVE After[i] = f[i]
  BY <1>2, <1>4 DEF FrozenRun
<1>5. After[T] = f[T]
  <2>1. \A i \in 1..T : After[i - 1] = f[i - 1] => After[i] = f[i]
    BY <1>4
  <2>2. After[0] = f[0]
    BY <1>3
  <2> QED BY ONLY T \in Nat, <2>1, <2>2, SameRun
<1> QED BY <1>1, <1>5

(* The frozen loop takes as many turns as there are bytes to the first last
   one.                                                                    *)
LEMMA FrozenTurnsIs ==
  ASSUME NEW source, source.limit \in Nat, source.p \in Nat,
         NEW n \in 1..(source.limit - source.p), source.d[source.p + n] < Continue,
         \A k \in 1..(n - 1) : ~(source.d[source.p + k] < Continue)
  PROVE  FrozenTurns(source) = n
<1> DEFINE left == source.limit - source.p
           lasts == {k \in 1..left : source.d[source.p + k] < Continue}
<1>1. n \in lasts /\ n \in 1..(left + 1) /\ \A j \in lasts : n <= j
  OBVIOUS
<1>2. \A k \in 1..(left + 1) : (k \in lasts \/ k = left + 1) /\ (\A j \in lasts : k <= j) => k = n
  BY <1>1
<1>3. FrozenTurns(source) = CHOOSE k \in 1..(left + 1) : /\ k \in lasts \/ k = left + 1
                                                        /\ \A j \in lasts : k <= j
  BY DEF FrozenTurns
<1> HIDE DEF left, lasts
<1> QED BY <1>1, <1>2, <1>3

----------------------------------------------------------------------------
(* LEB128: one turn of a reader.                                           *)

(* A reader that is well, with what it carries, and one that is not.       *)
At(d, limit, p, v) == [d |-> d, p |-> p, limit |-> limit, err |-> "", v |-> v]
Failed(d, limit, p, err) == [d |-> d, p |-> p, limit |-> limit, err |-> err, v |-> 0]

(* A reader has five fields, and nothing else.                             *)
Fields == {"d", "p", "limit", "err", "v"}

(* Readers that agree in every field are equal.                            *)
LEMMA SameReader ==
  ASSUME NEW f, NEW g, f = [i \in Fields |-> f[i]], g = [i \in Fields |-> g[i]],
         f.d = g.d, f.p = g.p, f.limit = g.limit, f.err = g.err, f.v = g.v
  PROVE  f = g
<1>1. \A i \in Fields : f[i] = g[i]
  BY DEF Fields
<1> QED BY <1>1, Zenon

(* A reader has these fields and no other.                                 *)
LEMMA FieldsOf ==
  ASSUME NEW d, NEW limit, NEW p, NEW v
  PROVE  /\ At(d, limit, p, v) = [i \in Fields |-> At(d, limit, p, v)[i]]
         /\ Failed(d, limit, p, v) = [i \in Fields |-> Failed(d, limit, p, v)[i]]
  BY DEF At, Failed, Fields

(* What a return, an exception and a check make of a reader that is well.  *)
LEMMA AtFacts ==
  ASSUME NEW d, NEW limit, NEW p, NEW v
  PROVE  LET s == At(d, limit, p, v)
         IN  Ok(s) /\ s.v = v /\ s.p = p /\ s.limit = limit /\ s.d = d
  BY DEF At, Ok

(* A return only changes the value.                                        *)
LEMMA Returns ==
  ASSUME NEW d, NEW limit, NEW p, NEW v, NEW x
  PROVE  Return(At(d, limit, p, v), x) = At(d, limit, p, x)
<1> DEFINE s == At(d, limit, p, v)
           f == [s EXCEPT !.v = x]
           g == At(d, limit, p, x)
<1>1. s = [i \in Fields |-> s[i]] /\ g = [i \in Fields |-> g[i]]
  BY FieldsOf
<1>2. f = [i \in Fields |-> f[i]]
  BY <1>1 DEF Fields
<1>3. f.d = g.d /\ f.p = g.p /\ f.limit = g.limit /\ f.err = g.err /\ f.v = g.v
  BY <1>1 DEF At, Fields
<1>4. Return(s, x) = f
  BY AtFacts DEF Return
<1> HIDE DEF f, g, s
<1>5. f = g
  BY <1>1, <1>2, <1>3, SameReader
<1> QED BY <1>4, <1>5 DEF g, s

(* An exception keeps the position; a check raises exactly when it fails.  *)
LEMMA Raises ==
  ASSUME NEW d, NEW limit, NEW p, NEW v, NEW err
  PROVE  /\ Raise(At(d, limit, p, v), err) = Failed(d, limit, p, err)
         /\ Check(At(d, limit, p, v), FALSE, err) = Failed(d, limit, p, err)
         /\ Check(At(d, limit, p, v), TRUE, err) = At(d, limit, p, v)
<1> DEFINE s == At(d, limit, p, v)
           f == [s EXCEPT !.err = err, !.v = 0]
           g == Failed(d, limit, p, err)
<1>1. s = [i \in Fields |-> s[i]] /\ g = [i \in Fields |-> g[i]]
  BY FieldsOf
<1>2. f = [i \in Fields |-> f[i]]
  BY <1>1 DEF Fields
<1>3. f.d = g.d /\ f.p = g.p /\ f.limit = g.limit /\ f.err = g.err /\ f.v = g.v
  BY <1>1 DEF At, Failed, Fields
<1>4. Raise(s, err) = f /\ Check(s, FALSE, err) = f /\ Check(s, TRUE, err) = s
  BY AtFacts DEF Raise, Check
<1> HIDE DEF f, g, s
<1>5. f = g
  BY <1>1, <1>2, <1>3, SameReader
<1> QED BY <1>4, <1>5 DEF g, s

(* Reading a byte.                                                         *)
LEMMA ByteRead ==
  ASSUME NEW d, NEW limit \in Nat, NEW p \in 0..limit, NEW v
  PROVE  Byte(At(d, limit, p, v)) = IF p = limit THEN Failed(d, limit, p, UnexpectedEnd)
                                    ELSE At(d, limit, p + 1, d[p + 1])
<1> DEFINE s == At(d, limit, p, v)
           f == [s EXCEPT !.v = d[p + 1], !.p = p + 1]
           g == At(d, limit, p + 1, d[p + 1])
<1>1. s = [i \in Fields |-> s[i]] /\ g = [i \in Fields |-> g[i]]
  BY FieldsOf
<1>2. f = [i \in Fields |-> f[i]]
  BY <1>1 DEF Fields
<1>3. f.d = g.d /\ f.p = g.p /\ f.limit = g.limit /\ f.err = g.err /\ f.v = g.v
  BY <1>1 DEF At, Fields
<1>4. Ok(s) /\ s.p = p /\ s.limit = limit /\ s.d = d
  BY AtFacts
<1>5. Raise(s, UnexpectedEnd) = Failed(d, limit, p, UnexpectedEnd)
  BY Raises
<1>6. p = limit => Byte(s) = Raise(s, UnexpectedEnd)
  BY <1>4 DEF Byte
<1>7. p # limit => Byte(s) = f
  BY <1>4 DEF Byte
<1> HIDE DEF f, g, s
<1>8. f = g
  BY <1>1, <1>2, <1>3, SameReader
<1> QED BY <1>5, <1>6, <1>7, <1>8 DEF g, s

(* A reader that failed fails the turn.                                    *)
LEMMA TurnFails ==
  ASSUME NEW s, NEW d, NEW limit, NEW p, NEW err, err # "", NEW bits
  PROVE  LET c == Failed(d, limit, p, err)
         IN  UlebTurn(s, c, bits) = c /\ SlebTurn(s, c, bits) = c /\ FrozenTurn(s, c, bits) = c
  BY DEF UlebTurn, SlebTurn, FrozenTurn, Failed, Ok

(* A byte that continues adds its digit.                                   *)
LEMMA TurnContinues ==
  ASSUME NEW d, NEW limit, NEW p, NEW q, NEW a, NEW h, NEW b, b >= Continue, NEW bits
  PROVE  LET s == At(d, limit, p, [acc |-> a, shift |-> h, done |-> FALSE])
             c == At(d, limit, q, b)
             next == At(d, limit, q, [acc |-> OrIn(a, b, h), shift |-> h + Group, done |-> FALSE])
         IN  /\ UlebTurn(s, c, bits) = next
             /\ SlebTurn(s, c, bits) = next
             /\ FrozenTurn(s, c, bits) = next
  BY DEF UlebTurn, SlebTurn, FrozenTurn, At, Ok, LebMore, Return

(* The last byte adds its digit and ends the loop.                         *)
Carrying(d, limit, p, a, h) == At(d, limit, p, [acc |-> a, shift |-> h, done |-> FALSE])
Ended(d, limit, p, v) == At(d, limit, p, [acc |-> v, shift |-> 0, done |-> TRUE])

(* Bits of the last byte beyond the width, the sign, and the signed range. *)
Surplus(b, h, bits) == h + Group > bits /\ b \div 2^(bits - h) # 0
Extended(acc, b, h) == IF b % Continue >= Continue \div 2 THEN acc - 2^(h + Group) ELSE acc
Less(m, n) == m < n
Fits(v, bits) == -(2^(bits - 1)) <= v /\ v <= 2^(bits - 1) - 1

(* What a loop between two turns carries.                                  *)
LEMMA CarriedFacts ==
  ASSUME NEW d, NEW limit, NEW p, NEW a, NEW h
  PROVE  Carrying(d, limit, p, a, h).v.acc = a /\ Carrying(d, limit, p, a, h).v.shift = h
<1>1. Carrying(d, limit, p, a, h).v = [acc |-> a, shift |-> h, done |-> FALSE]
  BY AtFacts DEF Carrying
<1> QED BY <1>1

(* The return inside a loop leaves the number.                             *)
LEMMA DoneIs ==
  ASSUME NEW d, NEW limit, NEW q, NEW b, NEW v
  PROVE  LebDone(At(d, limit, q, b), v) = Ended(d, limit, q, v)
  BY Returns DEF LebDone, Ended

(* A check on a number that is complete.                                   *)
LEMMA EndedFacts ==
  ASSUME NEW d, NEW limit, NEW q, NEW v, NEW err
  PROVE  /\ Check(Ended(d, limit, q, v), TRUE, err) = Ended(d, limit, q, v)
         /\ Check(Ended(d, limit, q, v), FALSE, err) = Failed(d, limit, q, err)
<1>1. Check(Ended(d, limit, q, v), TRUE, err) = Ended(d, limit, q, v)
  BY Raises DEF Ended
<1>2. Check(Ended(d, limit, q, v), FALSE, err) = Failed(d, limit, q, err)
  BY Raises DEF Ended
<1> QED BY <1>1, <1>2

(* What uleb's last turn makes of the number and the last byte.            *)
UlebEnd(d, limit, q, acc, b, h, bits) ==
  IF Surplus(b, h, bits) THEN Failed(d, limit, q, TooLarge) ELSE Ended(d, limit, q, acc)

(* uleb's turn on a byte without a continuation bit.                       *)
LEMMA UlebTurnEnds ==
  ASSUME NEW d, NEW limit, NEW p, NEW q, NEW a, NEW h, NEW b, ~(b >= Continue), NEW bits
  PROVE  UlebTurn(Carrying(d, limit, p, a, h), At(d, limit, q, b), bits)
           = UlebEnd(d, limit, q, OrIn(a, b, h), b, h, bits)
<1> DEFINE s == Carrying(d, limit, p, a, h)
           c == At(d, limit, q, b)
           acc == OrIn(a, b, h)
           extra == Surplus(b, h, bits)
<1>1. s.v.acc = a /\ s.v.shift = h
  BY CarriedFacts
<1>2. c.v = b /\ Ok(c)
  BY AtFacts
<1>3. \A v : LebDone(c, v) = Ended(d, limit, q, v)
  BY DoneIs
<1>4. \A v, err : Check(Ended(d, limit, q, v), TRUE, err) = Ended(d, limit, q, v)
  BY EndedFacts
<1>5. \A v, err : Check(Ended(d, limit, q, v), FALSE, err) = Failed(d, limit, q, err)
  BY EndedFacts
<1> HIDE DEF s, c
<1>6. UlebTurn(s, c, bits) = Check(Ended(d, limit, q, acc), ~extra, TooLarge)
  BY <1>1, <1>2, <1>3, <1>4, <1>5 DEF UlebTurn, Surplus
<1>7. extra \in BOOLEAN
  BY DEF Surplus
<1> HIDE DEF extra, acc
<1>8. CASE extra = TRUE
  <2>1. (~extra) = FALSE
    BY <1>8
  <2>2. UlebTurn(s, c, bits) = Check(Ended(d, limit, q, acc), FALSE, TooLarge)
    BY ONLY <1>6, <2>1
  <2>3. UlebTurn(s, c, bits) = Failed(d, limit, q, TooLarge)
    BY ONLY <1>1, <1>2, <1>3, <1>4, <1>5, <2>2
  <2> QED BY <1>8, <2>3 DEF s, c, extra, acc, UlebEnd
<1>9. CASE extra = FALSE
  <2>1. (~extra) = TRUE
    BY <1>9
  <2>2. UlebTurn(s, c, bits) = Check(Ended(d, limit, q, acc), TRUE, TooLarge)
    BY ONLY <1>6, <2>1
  <2>3. UlebTurn(s, c, bits) = Ended(d, limit, q, acc)
    BY ONLY <1>1, <1>2, <1>3, <1>4, <1>5, <2>2
  <2> QED BY <1>9, <2>3 DEF s, c, extra, acc, UlebEnd
<1> QED BY <1>7, <1>8, <1>9

(* What sleb's last turn makes of the number and the signed one.           *)
SlebEnd(d, limit, q, acc, signed, shift, bits) ==
  IF Less(shift, bits) THEN Ended(d, limit, q, signed)
  ELSE IF ~Less(bits, shift) THEN Ended(d, limit, q, acc)
  ELSE IF Fits(signed, bits) THEN Ended(d, limit, q, signed)
  ELSE Failed(d, limit, q, TooLarge)

(* The same of sleb, with its three cases of the shift.                    *)
LEMMA SlebTurnEnds ==
  ASSUME NEW d, NEW limit, NEW p, NEW q, NEW a, NEW h, NEW b, ~(b >= Continue), NEW bits
  PROVE  SlebTurn(Carrying(d, limit, p, a, h), At(d, limit, q, b), bits)
           = SlebEnd(d, limit, q, OrIn(a, b, h), Extended(OrIn(a, b, h), b, h), h + Group, bits)
<1> DEFINE s == Carrying(d, limit, p, a, h)
           c == At(d, limit, q, b)
           signed == Extended(OrIn(a, b, h), b, h)
           fits == Fits(signed, bits)
<1>1. s.v.acc = a /\ s.v.shift = h
  BY CarriedFacts
<1>2. c.v = b /\ Ok(c)
  BY AtFacts
<1>3. \A v : LebDone(c, v) = Ended(d, limit, q, v)
  BY DoneIs
<1>4. \A v, err : Check(Ended(d, limit, q, v), TRUE, err) = Ended(d, limit, q, v)
  BY EndedFacts
<1>5. \A v, err : Check(Ended(d, limit, q, v), FALSE, err) = Failed(d, limit, q, err)
  BY EndedFacts
<1> HIDE DEF s, c
<1>6. h + Group < bits => SlebTurn(s, c, bits) = Ended(d, limit, q, signed)
  BY <1>1, <1>2, <1>3, <1>4, <1>5 DEF SlebTurn, Extended
<1>7. h + Group > bits /\ ~(h + Group < bits) =>
        SlebTurn(s, c, bits) = Check(Ended(d, limit, q, signed), fits, TooLarge)
  BY <1>1, <1>2, <1>3, <1>4, <1>5 DEF SlebTurn, Extended, Fits
<1>13. ~(h + Group < bits) /\ ~(h + Group > bits) => SlebTurn(s, c, bits) = Ended(d, limit, q, OrIn(a, b, h))
  BY <1>1, <1>2, <1>3, <1>4, <1>5 DEF SlebTurn
<1>8. fits = TRUE \/ fits = FALSE
  BY DEF Fits
<1>9. Less(h + Group, bits) <=> h + Group < bits
  BY DEF Less
<1>10. Less(bits, h + Group) <=> h + Group > bits
  BY DEF Less
<1> HIDE DEF signed, fits
<1>11. CASE h + Group < bits
  BY <1>6, <1>9, <1>11 DEF s, c, signed, SlebEnd
<1>12. CASE ~(h + Group < bits) /\ ~(h + Group > bits)
  BY <1>9, <1>10, <1>12, <1>13 DEF s, c, SlebEnd
<1>14. CASE ~(h + Group < bits) /\ h + Group > bits
  <2>1. SlebTurn(s, c, bits) = Check(Ended(d, limit, q, signed), fits, TooLarge)
    BY <1>7, <1>14
  <2>2. CASE fits = TRUE
    <3>1. SlebTurn(s, c, bits) = Ended(d, limit, q, signed)
      BY ONLY <1>4, <2>1, <2>2
    <3> QED BY <1>9, <1>10, <1>14, <2>2, <3>1 DEF s, c, fits, signed, SlebEnd
  <2>3. CASE fits = FALSE
    <3>1. SlebTurn(s, c, bits) = Failed(d, limit, q, TooLarge)
      BY ONLY <1>5, <2>1, <2>3
    <3> QED BY <1>9, <1>10, <1>14, <2>3, <3>1 DEF s, c, fits, signed, SlebEnd
  <2> QED BY <1>8, <2>2, <2>3
<1> QED BY <1>11, <1>12, <1>14

(* The same of the frozen turn, which extends signs below the width only.  *)
LEMMA FrozenTurnEnds ==
  ASSUME NEW d, NEW limit, NEW p, NEW q, NEW a, NEW h, NEW b, ~(b >= Continue), NEW bits
  PROVE  FrozenTurn(Carrying(d, limit, p, a, h), At(d, limit, q, b), bits)
           = IF Less(h + Group, bits) THEN Ended(d, limit, q, Extended(OrIn(a, b, h), b, h))
             ELSE Ended(d, limit, q, OrIn(a, b, h))
<1> DEFINE s == Carrying(d, limit, p, a, h)
           c == At(d, limit, q, b)
<1>1. s.v.acc = a /\ s.v.shift = h
  BY CarriedFacts
<1>2. c.v = b /\ Ok(c)
  BY AtFacts
<1>3. \A v : LebDone(c, v) = Ended(d, limit, q, v)
  BY DoneIs
<1> HIDE DEF s, c
<1>4. FrozenTurn(s, c, bits) = Ended(d, limit, q, IF h + Group < bits THEN Extended(OrIn(a, b, h), b, h)
                                                  ELSE OrIn(a, b, h))
  BY <1>1, <1>2, <1>3 DEF FrozenTurn, Extended
<1> QED BY <1>4 DEF s, c, Less

----------------------------------------------------------------------------
(* LEB128: a run of a reader over bytes that continue.                     *)

(* The bytes a reader at a position may read.                              *)
Window(d, at, limit) == SubSeq(d, at + 1, limit)

(* The window is the bytes from the position to the limit.                 *)
LEMMA WindowFacts ==
  ASSUME NEW d \in Bytestrings, NEW limit \in 0..Len(d), NEW at \in 0..limit
  PROVE  LET w == Window(d, at, limit)
         IN  /\ w \in Bytestrings /\ Len(w) = limit - at /\ Len(w) \in Nat
             /\ \A k \in 1..Len(w) : w[k] = d[at + k]
<1>1. Len(d) \in Nat /\ d \in Seq(Byte8)
  BY DEF Bytestrings
<1> DEFINE w == Window(d, at, limit)
<1>2. w \in Seq(Byte8)
  BY <1>1 DEF Window
<1>3. Len(w) = limit - at
  BY <1>1 DEF Window
<1>4. \A k \in 1..Len(w) : w[k] = d[at + k]
  BY <1>1, <1>3 DEF Window
<1>5. Len(w) \in Nat
  BY <1>1, <1>3
<1> QED BY <1>2, <1>3, <1>4, <1>5 DEF Bytestrings

(* A reader after i bytes that all continue.                               *)
Running(d, at, limit, i) ==
  At(d, limit, at + i,
     [acc |-> Number(Window(d, at, limit), i), shift |-> Group * i, done |-> FALSE])

(* It starts without any.                                                  *)
LEMMA StartsRunning ==
  ASSUME NEW d \in Bytestrings, NEW limit \in 0..Len(d), NEW at \in 0..limit
  PROVE  Return(Reader(d, at, limit), LebStart) = Running(d, at, limit, 0)
<1> DEFINE w == Window(d, at, limit)
<1>1. w \in Bytestrings /\ 0 \in 0..Len(w)
  BY WindowFacts
<1> HIDE DEF w
<1>2. Number(w, 0) \in 0..(Place(0) - 1) /\ Place(0) = 1
  BY <1>1, NumberFacts, PlaceFacts DEF Spells
<1>3. Number(w, 0) = 0
  BY <1>2
<1>4. Group * 0 = 0 /\ at + 0 = at
  BY GroupAssumption, at \in Nat
<1>5. Reader(d, at, limit) = At(d, limit, at, 0)
  BY DEF Reader, At
<1>6. Return(Reader(d, at, limit), LebStart) = At(d, limit, at, LebStart)
  BY <1>5, Returns
<1>7. LebStart = [acc |-> Number(w, 0), shift |-> Group * 0, done |-> FALSE]
  BY <1>3, <1>4 DEF LebStart
<1>8. Running(d, at, limit, 0)
        = At(d, limit, at + 0, [acc |-> Number(w, 0), shift |-> Group * 0, done |-> FALSE])
  BY DEF Running, w
<1> QED BY <1>4, <1>6, <1>7, <1>8

(* How many turns the loop has.                                            *)
LEMMA TurnsOf ==
  ASSUME NEW d \in Bytestrings, NEW limit \in 0..Len(d), NEW at \in 0..limit, NEW n
  PROVE  Turns(Running(d, at, limit, 0), n) =
           IF n <= Len(Window(d, at, limit)) THEN n ELSE Len(Window(d, at, limit)) + 1
<1> DEFINE s == Running(d, at, limit, 0)
<1>1. s.limit = limit /\ s.p = at + 0 /\ at + 0 = at
  BY AtFacts, at \in Nat DEF Running
<1> HIDE DEF s
<1>2. Len(Window(d, at, limit)) = limit - at
  BY WindowFacts
<1> QED BY <1>1, <1>2 DEF Turns, s

(* A byte that continues is read.                                          *)
LEMMA RunsOn ==
  ASSUME NEW d \in Bytestrings, NEW limit \in 0..Len(d), NEW at \in 0..limit,
         NEW n \in 1..Len(Window(d, at, limit)), Window(d, at, limit)[n] >= Continue, NEW bits
  PROVE  LET s == Running(d, at, limit, n - 1)
         IN  /\ UlebTurn(s, Byte(s), bits) = Running(d, at, limit, n)
             /\ SlebTurn(s, Byte(s), bits) = Running(d, at, limit, n)
             /\ FrozenTurn(s, Byte(s), bits) = Running(d, at, limit, n)
<1> DEFINE w == Window(d, at, limit)
           i == n - 1
           a == Number(w, i)
           h == Group * i
           b == w[n]
           s == Running(d, at, limit, i)
<1>1. /\ w \in Bytestrings /\ Len(w) = limit - at /\ Len(w) \in Nat
      /\ w[n] = d[at + n]
  BY WindowFacts
<1>2. /\ i \in Nat /\ n = i + 1 /\ i \in 0..(Len(w) - 1) /\ limit \in Nat /\ at + i \in 0..limit
      /\ at + i # limit /\ (at + i) + 1 = at + n
  BY <1>1
<1>3. s = At(d, limit, at + i, [acc |-> a, shift |-> h, done |-> FALSE])
  BY DEF Running
<1>4. Byte(s) = At(d, limit, at + n, b)
  <2> HIDE DEF a, h, i
  <2> QED BY <1>1, <1>2, <1>3, ByteRead
<1>5. OrIn(a, b, h) = Number(w, n)
  BY <1>1, <1>2, NumberNext DEF OrIn, Place
<1>6. h + Group = Group * n
  BY <1>2, GroupAssumption
<1>7. b >= Continue
  OBVIOUS
<1> HIDE DEF a, b, h, i, s, w
<1>8. /\ UlebTurn(s, Byte(s), bits) = At(d, limit, at + n, [acc |-> OrIn(a, b, h), shift |-> h + Group, done |-> FALSE])
      /\ SlebTurn(s, Byte(s), bits) = At(d, limit, at + n, [acc |-> OrIn(a, b, h), shift |-> h + Group, done |-> FALSE])
      /\ FrozenTurn(s, Byte(s), bits) = At(d, limit, at + n, [acc |-> OrIn(a, b, h), shift |-> h + Group, done |-> FALSE])
  BY <1>3, <1>4, <1>7, TurnContinues
<1> QED BY <1>5, <1>6, <1>8 DEF Running, s, i, w

(* With no byte left the readers raise.                                    *)
LEMMA RunsOut ==
  ASSUME NEW d \in Bytestrings, NEW limit \in 0..Len(d), NEW at \in 0..limit, NEW bits
  PROVE  LET s == Running(d, at, limit, Len(Window(d, at, limit)))
             c == Failed(d, limit, limit, UnexpectedEnd)
         IN  UlebTurn(s, Byte(s), bits) = c /\ SlebTurn(s, Byte(s), bits) = c
<1> DEFINE i == Len(Window(d, at, limit))
           s == Running(d, at, limit, i)
<1>1. i = limit - at
  BY WindowFacts
<1> HIDE DEF i
<1>2. at + i = limit /\ limit \in Nat /\ at + i \in 0..limit
  BY <1>1
<1>3. Byte(s) = Failed(d, limit, limit, UnexpectedEnd)
  BY <1>2, ByteRead DEF Running
<1>4. UnexpectedEnd # ""
  BY DEF UnexpectedEnd
<1> HIDE DEF s
<1>5. UlebTurn(s, Byte(s), bits) = Byte(s) /\ SlebTurn(s, Byte(s), bits) = Byte(s)
  <2> DEFINE c == Failed(d, limit, limit, UnexpectedEnd)
  <2>1. UlebTurn(s, c, bits) = c /\ SlebTurn(s, c, bits) = c
    BY <1>4 DEF UlebTurn, SlebTurn, Failed, Ok
  <2>2. Byte(s) = c
    BY <1>3
  <2> HIDE DEF c
  <2> QED BY <2>1, <2>2
<1> QED BY <1>3, <1>5 DEF s, i

----------------------------------------------------------------------------
(* LEB128: the value of a signed integer.                                  *)

(* The number the first n bytes spell, with the highest payload bit as the *)
(* sign.                                                                   *)
SignedNumber(w, n) ==
  IF 2 * Number(w, n) >= Place(n) THEN Number(w, n) - Place(n) ELSE Number(w, n)

(* The bit the code looks at is the highest one.                           *)
LEMMA SignBit ==
  ASSUME NEW w \in Bytestrings, NEW n \in 1..Len(w)
  PROVE  w[n] % Continue >= Continue \div 2 <=> 2 * Number(w, n) >= Place(n)
<1> DEFINE i == n - 1
           c == w[n] % Continue
           low == Number(w, i)
           b == Place(i)
           half == Continue \div 2
<1>1. i \in Nat /\ n = i + 1 /\ i \in 0..(Len(w) - 1) /\ i \in 0..Len(w)
  BY DEF Bytestrings
<1>2. c \in 0..(Continue - 1)
  BY ByteFacts
<1>3. b \in Nat \ {0} /\ Place(n) = b * Continue /\ low \in 0..(b - 1)
  BY <1>1, PlaceFacts, NumberFacts DEF Spells
<1>4. Number(w, n) = low + c * b
  BY <1>1, NumberNext
<1>5. Continue = 2 * half /\ half \in Nat
  BY ContinueFacts
<1> HIDE DEF i, c, low, b, half
<1>6. ASSUME c >= half PROVE 2 * (low + c * b) >= b * Continue
  <2>1. c * b >= half * b
    BY <1>2, <1>3, <1>5, <1>6
  <2>2. b * Continue = 2 * (half * b)
    BY <1>3, <1>5
  <2>3. c * b \in Int /\ half * b \in Int
    BY <1>2, <1>3, <1>5
  <2> QED BY <1>3, <2>1, <2>2, <2>3
<1>7. ASSUME ~(c >= half) PROVE ~(2 * (low + c * b) >= b * Continue)
  <2>1. c <= half - 1
    BY <1>2, <1>5, <1>7
  <2>2. c * b <= (half - 1) * b
    BY <1>2, <1>3, <1>5, <2>1
  <2>3. (half - 1) * b = half * b - b /\ b * Continue = 2 * (half * b)
    BY <1>3, <1>5
  <2>4. c * b \in Int /\ half * b \in Int
    BY <1>2, <1>3, <1>5
  <2> QED BY <1>3, <2>2, <2>3, <2>4
<1> QED BY <1>3, <1>4, <1>6, <1>7 DEF c, half

(* It is within the range n payloads have.                                 *)
LEMMA SignedNumberType ==
  ASSUME NEW w \in Bytestrings, NEW n \in 1..Len(w)
  PROVE  /\ SignedNumber(w, n) \in Int
         /\ -(Place(n)) <= 2 * SignedNumber(w, n) /\ 2 * SignedNumber(w, n) < Place(n)
         /\ SignedNumber(w, n) % Place(n) = Number(w, n)
<1>1. n \in 0..Len(w) /\ n \in Nat
  BY DEF Bytestrings
<1> DEFINE b == Place(n)
           v == Number(w, n)
<1>2. b \in Nat \ {0} /\ v \in 0..(b - 1)
  BY <1>1, PlaceFacts, NumberFacts DEF Spells
<1> HIDE DEF b, v
<1>3. v \in Int /\ v - b \in Int /\ v = b * 0 + v /\ v - b = b * (-1) + v /\ 0 \in Int /\ -1 \in Int
  BY <1>2
<1>4. v % b = v
  BY ONLY <1>2, <1>3, QuotientIs, Zenon
<1>5. (v - b) % b = v
  BY ONLY <1>2, <1>3, QuotientIs, Zenon
<1>6. SignedNumber(w, n) = IF 2 * v >= b THEN v - b ELSE v
  BY DEF SignedNumber, b, v
<1>7. CASE 2 * v >= b
  <2>1. SignedNumber(w, n) = v - b
    BY <1>6, <1>7
  <2>2. v - b \in Int /\ -b <= 2 * (v - b) /\ 2 * (v - b) < b
    BY <1>2, <1>7
  <2> QED BY <1>5, <2>1, <2>2 DEF b, v
<1>8. CASE ~(2 * v >= b)
  <2>1. SignedNumber(w, n) = v
    BY <1>6, <1>8
  <2>2. v \in Int /\ -b <= 2 * v /\ 2 * v < b
    BY <1>2, <1>8
  <2> QED BY <1>4, <2>1, <2>2 DEF b, v
<1> QED BY <1>7, <1>8

----------------------------------------------------------------------------
(* LEB128: whole runs of the readers.                                      *)

(* What a reader has after each turn when it reads n - 1 bytes that        *)
(* continue and turn n is its last.                                        *)
Path(d, at, limit, n, last, T) ==
  [i \in 0..T |-> IF i < n THEN Running(d, at, limit, i) ELSE last]

(* A loop that has read only continued bytes is well and not done.         *)
LEMMA RunningIs ==
  ASSUME NEW d, NEW at, NEW limit, NEW i
  PROVE  LET s == Running(d, at, limit, i) IN Ok(s) /\ s.v.done = FALSE
<1> DEFINE v == [acc |-> Number(Window(d, at, limit), i), shift |-> Group * i, done |-> FALSE]
           s == Running(d, at, limit, i)
<1>1. s = At(d, limit, at + i, v)
  BY DEF Running
<1>2. v.done = FALSE
  OBVIOUS
<1> HIDE DEF v, s
<1>3. Ok(s) /\ s.v = v
  BY <1>1, AtFacts
<1> QED BY <1>2, <1>3 DEF s

(* That is a run of each reader's loop.                                    *)
LEMMA PathIsRun ==
  ASSUME NEW d \in Bytestrings, NEW limit \in 0..Len(d), NEW at \in 0..limit,
         NEW T \in Nat, NEW n \in 1..(T + 1), n - 1 <= Len(Window(d, at, limit)),
         \A k \in 1..(n - 1) : Window(d, at, limit)[k] >= Continue,
         NEW last, ~Ok(last) \/ last.v.done, NEW bits
  PROVE  LET f == Path(d, at, limit, n, last, T)
             start == Running(d, at, limit, 0)
             s == Running(d, at, limit, n - 1)
         IN  /\ (n <= T => UlebTurn(s, Byte(s), bits) = last) => UlebRun(f, start, T, bits)
             /\ (n <= T => SlebTurn(s, Byte(s), bits) = last) => SlebRun(f, start, T, bits)
             /\ (n <= T => FrozenTurn(s, Byte(s), bits) = last) => FrozenRun(f, start, T, bits)
<1> DEFINE w == Window(d, at, limit)
           f == Path(d, at, limit, n, last, T)
           R(i) == Running(d, at, limit, i)
<1>1. Len(w) \in Nat
  BY WindowFacts
<1>2. f = [i \in 0..T |-> IF i < n THEN R(i) ELSE last]
  BY DEF Path
<1>3. \A i \in 0..T : f[i] = IF i < n THEN R(i) ELSE last
  BY <1>2
<1>4. \A i : Ok(R(i)) /\ ~R(i).v.done
  BY RunningIs
<1>5. ASSUME NEW i \in 1..(n - 1)
      PROVE  /\ UlebTurn(R(i - 1), Byte(R(i - 1)), bits) = R(i)
             /\ SlebTurn(R(i - 1), Byte(R(i - 1)), bits) = R(i)
             /\ FrozenTurn(R(i - 1), Byte(R(i - 1)), bits) = R(i)
  <2>1. i \in 1..Len(w) /\ w[i] >= Continue
    BY <1>1
  <2> QED BY <2>1, RunsOn
<1> HIDE DEF f, R
<1>6. f[0] = R(0)
  BY <1>3
<1>7. ASSUME NEW i \in 1..T
      PROVE  \/ i \in 1..(n - 1) /\ f[i - 1] = R(i - 1) /\ f[i] = R(i)
             \/ i = n /\ f[i - 1] = R(n - 1) /\ f[i] = last
             \/ i > n /\ f[i - 1] = last /\ f[i] = last
  <2>1. i - 1 \in 0..T /\ i \in 0..T
    OBVIOUS
  <2> QED BY <2>1, <1>3
<1>8. ASSUME n <= T => UlebTurn(R(n - 1), Byte(R(n - 1)), bits) = last
      PROVE  UlebRun(f, R(0), T, bits)
  <2>1. ASSUME NEW i \in 1..T
        PROVE  f[i] = IF Ok(f[i - 1]) /\ ~f[i - 1].v.done
                      THEN UlebTurn(f[i - 1], Byte(f[i - 1]), bits) ELSE f[i - 1]
    BY <1>4, <1>5, <1>7, <1>8
  <2>2. \A i \in 0..T : f[i] = IF i = 0 THEN R(0)
                              ELSE IF Ok(f[i - 1]) /\ ~f[i - 1].v.done
                              THEN UlebTurn(f[i - 1], Byte(f[i - 1]), bits) ELSE f[i - 1]
    BY <1>6, <2>1
  <2>3. f = [i \in 0..T |-> f[i]]
    BY <1>2
  <2> QED BY <2>2, <2>3 DEF UlebRun
<1>9. ASSUME n <= T => SlebTurn(R(n - 1), Byte(R(n - 1)), bits) = last
      PROVE  SlebRun(f, R(0), T, bits)
  <2>1. ASSUME NEW i \in 1..T
        PROVE  f[i] = IF Ok(f[i - 1]) /\ ~f[i - 1].v.done
                      THEN SlebTurn(f[i - 1], Byte(f[i - 1]), bits) ELSE f[i - 1]
    BY <1>4, <1>5, <1>7, <1>9
  <2>2. \A i \in 0..T : f[i] = IF i = 0 THEN R(0)
                              ELSE IF Ok(f[i - 1]) /\ ~f[i - 1].v.done
                              THEN SlebTurn(f[i - 1], Byte(f[i - 1]), bits) ELSE f[i - 1]
    BY <1>6, <2>1
  <2>3. f = [i \in 0..T |-> f[i]]
    BY <1>2
  <2> QED BY <2>2, <2>3 DEF SlebRun
<1>10. ASSUME n <= T => FrozenTurn(R(n - 1), Byte(R(n - 1)), bits) = last
       PROVE  FrozenRun(f, R(0), T, bits)
  <2>1. ASSUME NEW i \in 1..T
        PROVE  f[i] = IF Ok(f[i - 1]) /\ ~f[i - 1].v.done
                      THEN FrozenTurn(f[i - 1], Byte(f[i - 1]), bits) ELSE f[i - 1]
    BY <1>4, <1>5, <1>7, <1>10
  <2>2. \A i \in 0..T : f[i] = IF i = 0 THEN R(0)
                              ELSE IF Ok(f[i - 1]) /\ ~f[i - 1].v.done
                              THEN FrozenTurn(f[i - 1], Byte(f[i - 1]), bits) ELSE f[i - 1]
    BY <1>6, <2>1
  <2>3. f = [i \in 0..T |-> f[i]]
    BY <1>2
  <2> QED BY <2>2, <2>3 DEF FrozenRun
<1> QED BY <1>8, <1>9, <1>10 DEF f, R

(* What the readers return from such a run of T turns.                     *)
Leads(d, at, limit, n, last, T) ==
  /\ d \in Bytestrings /\ limit \in 0..Len(d) /\ at \in 0..limit /\ T \in Nat
  /\ n \in 1..(T + 1) /\ n - 1 <= Len(Window(d, at, limit))
  /\ \A k \in 1..(n - 1) : Window(d, at, limit)[k] >= Continue
  /\ ~Ok(last) \/ last.v.done

Outcome(d, at, limit, n, last, T) ==
  LebResult(IF n <= T THEN last ELSE Running(d, at, limit, T))

(* uleb reads the continued bytes before byte n, then takes the turn at n
   or gives up.                                                            *)
LEMMA UlebReturns ==
  ASSUME NEW d, NEW at, NEW limit, NEW n, NEW last, NEW T, NEW bits,
         Leads(d, at, limit, n, last, T),
         T = Turns(Running(d, at, limit, 0), MaxBytes(bits)),
         NEW s, s = Running(d, at, limit, n - 1),
         n <= T => UlebTurn(s, Byte(s), bits) = last
  PROVE  Uleb(Reader(d, at, limit), bits) = Outcome(d, at, limit, n, last, T)
<1> DEFINE start == Running(d, at, limit, 0)
           source == Reader(d, at, limit)
           f == Path(d, at, limit, n, last, T)
<1>0. /\ d \in Bytestrings /\ limit \in 0..Len(d) /\ at \in 0..limit /\ T \in Nat
      /\ n \in 1..(T + 1) /\ n - 1 <= Len(Window(d, at, limit))
      /\ \A k \in 1..(n - 1) : Window(d, at, limit)[k] >= Continue
      /\ ~Ok(last) \/ last.v.done
  BY DEF Leads
<1>1. start = Return(source, LebStart)
  BY <1>0, StartsRunning
<1>2. f[T] = IF n <= T THEN last ELSE Running(d, at, limit, T)
  BY <1>0 DEF Path
<1>3. UlebRun(f, start, T, bits)
  BY <1>0, PathIsRun
<1> HIDE DEF start, source, f
<1>4. Uleb(source, bits) = LebResult(f[T])
  BY <1>0, <1>1, <1>3, UlebIs DEF start, source
<1> QED BY <1>2, <1>4 DEF Outcome, source

(* The same of sleb.                                                       *)
LEMMA SlebReturns ==
  ASSUME NEW d, NEW at, NEW limit, NEW n, NEW last, NEW T, NEW bits,
         Leads(d, at, limit, n, last, T),
         T = Turns(Running(d, at, limit, 0), MaxBytes(bits)),
         NEW s, s = Running(d, at, limit, n - 1),
         n <= T => SlebTurn(s, Byte(s), bits) = last
  PROVE  Sleb(Reader(d, at, limit), bits) = Outcome(d, at, limit, n, last, T)
<1> DEFINE start == Running(d, at, limit, 0)
           source == Reader(d, at, limit)
           f == Path(d, at, limit, n, last, T)
<1>0. /\ d \in Bytestrings /\ limit \in 0..Len(d) /\ at \in 0..limit /\ T \in Nat
      /\ n \in 1..(T + 1) /\ n - 1 <= Len(Window(d, at, limit))
      /\ \A k \in 1..(n - 1) : Window(d, at, limit)[k] >= Continue
      /\ ~Ok(last) \/ last.v.done
  BY DEF Leads
<1>1. start = Return(source, LebStart)
  BY <1>0, StartsRunning
<1>2. f[T] = IF n <= T THEN last ELSE Running(d, at, limit, T)
  BY <1>0 DEF Path
<1>3. SlebRun(f, start, T, bits)
  BY <1>0, PathIsRun
<1> HIDE DEF start, source, f
<1>4. Sleb(source, bits) = LebResult(f[T])
  BY <1>0, <1>1, <1>3, SlebIs DEF start, source
<1> QED BY <1>2, <1>4 DEF Outcome, source

(* The same of the frozen loop.                                            *)
LEMMA FrozenReturns ==
  ASSUME NEW d, NEW at, NEW limit, NEW n, NEW last, NEW T, NEW bits,
         Leads(d, at, limit, n, last, T),
         T = Turns(Running(d, at, limit, 0), FrozenTurns(Reader(d, at, limit))),
         NEW s, s = Running(d, at, limit, n - 1),
         n <= T => FrozenTurn(s, Byte(s), bits) = last
  PROVE  FrozenLeb(Reader(d, at, limit), bits) = Outcome(d, at, limit, n, last, T)
<1> DEFINE start == Running(d, at, limit, 0)
           source == Reader(d, at, limit)
           f == Path(d, at, limit, n, last, T)
<1>0. /\ d \in Bytestrings /\ limit \in 0..Len(d) /\ at \in 0..limit /\ T \in Nat
      /\ n \in 1..(T + 1) /\ n - 1 <= Len(Window(d, at, limit))
      /\ \A k \in 1..(n - 1) : Window(d, at, limit)[k] >= Continue
      /\ ~Ok(last) \/ last.v.done
  BY DEF Leads
<1>1. start = Return(source, LebStart)
  BY <1>0, StartsRunning
<1>2. f[T] = IF n <= T THEN last ELSE Running(d, at, limit, T)
  BY <1>0 DEF Path
<1>3. FrozenRun(f, start, T, bits)
  BY <1>0, PathIsRun
<1> HIDE DEF start, source, f
<1>4. FrozenLeb(source, bits) = LebResult(f[T])
  BY <1>0, <1>1, <1>3, FrozenIs DEF start, source
<1> QED BY <1>2, <1>4 DEF Outcome, source

(* What a run ends with.                                                   *)
LEMMA Results ==
  ASSUME NEW d, NEW limit, NEW p, NEW v
  PROVE  /\ LebResult(At(d, limit, p, [acc |-> v, shift |-> 0, done |-> TRUE])) = At(d, limit, p, v)
         /\ LebResult(Failed(d, limit, p, TooLarge)) = Failed(d, limit, p, TooLarge)
         /\ LebResult(Failed(d, limit, p, UnexpectedEnd)) = Failed(d, limit, p, UnexpectedEnd)
<1> DEFINE x == [acc |-> v, shift |-> 0, done |-> TRUE]
           s == At(d, limit, p, x)
<1>1. x.done = TRUE /\ x.acc = v
  OBVIOUS
<1> HIDE DEF x
<1>2. Ok(s) /\ s.v = x /\ Return(s, v) = At(d, limit, p, v)
  <2>1. Ok(s) /\ s.v = x
    BY AtFacts
  <2>2. Return(s, v) = At(d, limit, p, v)
    BY Returns
  <2> QED BY <2>1, <2>2
<1> HIDE DEF s
<1>3. LebResult(s) = At(d, limit, p, v)
  BY <1>1, <1>2 DEF LebResult
<1>4. /\ LebResult(Failed(d, limit, p, TooLarge)) = Failed(d, limit, p, TooLarge)
      /\ LebResult(Failed(d, limit, p, UnexpectedEnd)) = Failed(d, limit, p, UnexpectedEnd)
  BY DEF LebResult, Ok, Failed, TooLarge, UnexpectedEnd
<1> QED BY <1>3, <1>4 DEF s, x

(* A loop that ends without a return raises: too long a representation.    *)
LEMMA NeverDone ==
  ASSUME NEW d, NEW limit, NEW at, NEW i
  PROVE  LebResult(Running(d, at, limit, i)) = Failed(d, limit, at + i, TooLong)
<1> DEFINE r1 == Running(d, at, limit, i)
<1>1. Ok(r1) /\ r1.v.done = FALSE
  BY RunningIs
<1>2. Raise(r1, TooLong) = Failed(d, limit, at + i, TooLong)
  BY Raises DEF Running
<1> HIDE DEF r1
<1>3. LebResult(r1) = Raise(r1, TooLong)
  BY <1>1 DEF LebResult
<1> QED BY <1>2, <1>3 DEF r1

----------------------------------------------------------------------------
(* LEB128: the turn that reads an integer's last byte.                     *)

(* The bits of the last byte beyond the width are all zero when the number *)
(* is within the width.                                                    *)
LEMMA ExtraBits ==
  ASSUME NEW w \in Bytestrings, NEW n \in 1..Len(w), n <= Longest, w[n] < Continue
  PROVE  (/\ Group * (n - 1) + Group > Width
          /\ w[n] \div 2^(Width - Group * (n - 1)) # 0) <=> ~(Number(w, n) < 2^Width)
<1> DEFINE i == n - 1
           h == Group * i
           b == w[n]
           low == Number(w, i)
           B == Place(i)
           P == 2^(Width - h)
<1>1. i \in Nat /\ n = i + 1 /\ i \in 0..(Len(w) - 1) /\ i \in 0..Len(w) /\ n \in Nat
  BY DEF Bytestrings
<1>2. b \in 0..(Continue - 1) /\ w[n] % Continue = b
  BY ByteFacts, ContinueFacts
<1>3. B \in Nat \ {0} /\ low \in 0..(B - 1) /\ h \in Nat
  BY <1>1, PlaceFacts, NumberFacts DEF Spells
<1>4. Number(w, n) = low + b * B
  BY <1>1, <1>2, NumberNext
<1>5. Width \in Nat /\ Group \in Nat /\ h < Width /\ Continue \in Nat
  BY <1>1, LongestFacts, LebAssumption, GroupAssumption, ContinueFacts
<1>6. Width - h \in Nat /\ (Width - h) + h = Width
  BY <1>3, <1>5
<1>7. P \in Nat \ {0} /\ 2^Width = P * B
  BY <1>6, <1>3, PowSum, PowIsNat DEF Place
<1>8. ASSUME h + Group <= Width PROVE Continue <= P
  <2>1. (Width - h) - Group \in Nat /\ ((Width - h) - Group) + Group = Width - h
    BY <1>3, <1>5, <1>6, <1>8
  <2> DEFINE e == (Width - h) - Group
             E == 2^e
  <2>2. E \in Nat \ {0} /\ 2^(e + Group) = E * 2^Group
    BY <2>1, <1>5, PowSum, PowIsNat
  <2>3. P = E * Continue
    BY <2>1, <2>2 DEF Continue
  <2> HIDE DEF e, E, P
  <2> QED BY <2>2, <2>3, <1>5
<1> HIDE DEF i, h, b, low, B, P
<1>9. b < P <=> low + b * B < P * B
  <2>1. ASSUME b < P PROVE low + b * B < P * B
    <3>1. b * B <= (P - 1) * B
      BY <1>2, <1>3, <1>7, <2>1
    <3>2. (P - 1) * B = P * B - B /\ b * B \in Int /\ P * B \in Int
      BY <1>2, <1>3, <1>7
    <3> QED BY <1>3, <3>1, <3>2
  <2>2. ASSUME ~(b < P) PROVE ~(low + b * B < P * B)
    <3>1. b * B >= P * B
      BY <1>2, <1>3, <1>7, <2>2
    <3>2. b * B \in Int /\ P * B \in Int
      BY <1>2, <1>3, <1>7
    <3> QED BY <1>3, <3>1, <3>2
  <2> QED BY <2>1, <2>2
<1>10. b \div P = 0 <=> b < P
  <2> DEFINE q == b \div P
             rest == b % P
  <2>1. q \in Int /\ rest \in 0..(P - 1) /\ b = (P * q) + rest
    <3>1. b \in Int
      BY <1>2
    <3> QED BY ONLY <3>1, <1>7, DivMod, Zenon
  <2> HIDE DEF q, rest
  <2>2. ASSUME q # 0 PROVE ~(b < P)
    <3>1. CASE q >= 1
      <4>1. P * q >= P /\ P * q \in Int
        BY <1>7, <2>1, <3>1
      <4> QED BY <1>7, <2>1, <4>1
    <3>2. CASE q <= -1
      <4>1. P * q <= -P /\ P * q \in Int
        BY <1>7, <2>1, <3>2
      <4> QED BY <1>2, <1>7, <2>1, <4>1
    <3> QED BY <2>1, <2>2, <3>1, <3>2
  <2>3. ASSUME q = 0 PROVE b < P
    BY <1>2, <1>7, <2>1, <2>3
  <2> QED BY <2>2, <2>3 DEF q
<1>11. CASE h + Group <= Width
  <2>1. ~(h + Group > Width) /\ b < P
    BY <1>2, <1>3, <1>5, <1>7, <1>8, <1>11
  <2> QED BY <2>1, <1>4, <1>7, <1>9 DEF h, i
<1>12. CASE ~(h + Group <= Width)
  <2>1. h + Group > Width
    BY <1>3, <1>5, <1>12
  <2> QED BY <2>1, <1>4, <1>7, <1>9, <1>10 DEF h, i, b, P
<1> QED BY <1>11, <1>12

(* Half a place is a power, too.                                           *)
LEMMA HalfPlace ==
  ASSUME NEW n \in Nat \ {0}
  PROVE  /\ Group * n - 1 \in Nat
         /\ 2^(Group * n - 1) \in Nat \ {0}
         /\ Place(n) = 2 * 2^(Group * n - 1)
<1>1. Group * n \in Nat /\ Group * n >= 1
  BY GroupAssumption
<1>2. Group * n - 1 \in Nat /\ (Group * n - 1) + 1 = Group * n
  BY <1>1
<1> QED BY <1>2, PowNext, PowIsNat DEF Place

(* The integers are two halves, of equally many.                           *)
LEMMA HalfWidth ==
  /\ Width - 1 \in Nat /\ 2^(Width - 1) \in Nat \ {0} /\ 2^Width = 2 * 2^(Width - 1)
<1>1. Width - 1 \in Nat /\ (Width - 1) + 1 = Width
  BY LebAssumption
<1> QED BY <1>1, PowNext, PowIsNat

(* A longer power is a multiple of a shorter one.                          *)
LEMMA PowDivides ==
  ASSUME NEW m \in Nat, NEW n \in Nat, m <= n
  PROVE  \E k \in Nat \ {0} : 2^n = k * 2^m
<1>1. n - m \in Nat /\ (n - m) + m = n
  OBVIOUS
<1> QED BY <1>1, PowSum, PowIsNat

(* An integer of fewer bytes than the longest is always within the range.  *)
LEMMA ShortFits ==
  ASSUME NEW w \in Bytestrings, NEW n \in 1..Len(w), n < Longest
  PROVE  SignedNumber(w, n) \in SignedInts
<1>1. n \in Nat /\ n \in Nat \ {0}
  BY DEF Bytestrings
<1> DEFINE v == SignedNumber(w, n)
           q == Place(n)
           half == 2^(Width - 1)
           e == Group * n
<1>2. v \in Int /\ -q <= 2 * v /\ 2 * v < q
  BY SignedNumberType
<1>3. Width \in Nat /\ e \in Nat /\ e < Width
  BY <1>1, LongestFacts, LebAssumption, PlaceFacts
<1>4. PICK k \in Nat \ {0} : 2^Width = k * 2^e
  <2> HIDE DEF e
  <2>1. e <= Width
    BY <1>3
  <2> QED BY ONLY <1>3, <2>1, PowDivides
<1>5. q \in Nat \ {0} /\ 2^Width = k * q
  BY <1>1, <1>4, PlaceFacts DEF Place
<1>6. half \in Nat \ {0} /\ 2^Width = 2 * half
  BY HalfWidth
<1> HIDE DEF v, q, half
<1>7. k * q >= q /\ k * q \in Int
  BY <1>4, <1>5
<1>8. -half <= v /\ v <= half - 1
  BY <1>2, <1>5, <1>6, <1>7
<1> QED BY <1>2, <1>6, <1>8 DEF SignedInts, v, half

(* What the turn makes of the number.                                      *)
LEMMA LastTurn ==
  ASSUME NEW d \in Bytestrings, NEW limit \in 0..Len(d), NEW at \in 0..limit,
         NEW w, w = Window(d, at, limit), NEW n \in 1..Len(w), w[n] < Continue, NEW bits,
         NEW s, s = Running(d, at, limit, n - 1), NEW h, h = Group * (n - 1)
  PROVE  /\ UlebTurn(s, Byte(s), bits) =
              UlebEnd(d, limit, at + n, Number(w, n), w[n], h, bits)
         /\ SlebTurn(s, Byte(s), bits) =
              SlebEnd(d, limit, at + n, Number(w, n), SignedNumber(w, n), Group * n, bits)
         /\ FrozenTurn(s, Byte(s), bits) =
              IF Less(Group * n, bits) THEN Ended(d, limit, at + n, SignedNumber(w, n))
              ELSE Ended(d, limit, at + n, Number(w, n))
<1> DEFINE i == n - 1
           a == Number(w, i)
           b == w[n]
           c == Byte(s)
           acc == OrIn(a, b, h)
           signed == Extended(acc, b, h)
<1>1. /\ w \in Bytestrings /\ Len(w) = limit - at /\ Len(w) \in Nat
      /\ w[n] = d[at + n]
  BY WindowFacts
<1>2. /\ i \in Nat /\ n = i + 1 /\ i \in 0..(Len(w) - 1) /\ limit \in Nat /\ at + i \in 0..limit
      /\ at + i # limit /\ (at + i) + 1 = at + n /\ n \in 1..Len(w) /\ n \in 0..Len(w)
  BY <1>1
<1>3. s = At(d, limit, at + i, [acc |-> a, shift |-> h, done |-> FALSE])
  BY DEF Running
<1>4. c = At(d, limit, at + n, b)
  <2> HIDE DEF a, i
  <2> QED BY <1>1, <1>2, <1>3, ByteRead
<1>5. acc = Number(w, n)
  BY <1>1, <1>2, NumberNext DEF OrIn, Place
<1>6. h + Group = Group * n /\ 2^(Group * n) = Place(n)
  BY <1>2, GroupAssumption DEF Place
<1>7. ~(b >= Continue)
  <2>1. b \in Nat /\ b < Continue /\ Continue \in Nat
    BY <1>1, <1>2, ByteFacts, ContinueFacts
  <2> HIDE DEF b
  <2> QED BY <2>1
<1>8. b % Continue >= Continue \div 2 <=> 2 * Number(w, n) >= Place(n)
  BY <1>1, <1>2, SignBit
<1> HIDE DEF i, a, b, c, acc
<1>9. signed = SignedNumber(w, n)
  <2> DEFINE neg == b % Continue >= Continue \div 2
  <2>1. signed = IF neg THEN acc - Place(n) ELSE acc
    BY <1>6 DEF Extended
  <2>2. neg <=> 2 * Number(w, n) >= Place(n)
    BY <1>8
  <2> HIDE DEF signed, neg
  <2>3. CASE neg
    BY <1>5, <2>1, <2>2, <2>3 DEF SignedNumber
  <2>4. CASE ~neg
    BY <1>5, <2>1, <2>2, <2>4 DEF SignedNumber
  <2> QED BY <2>3, <2>4
<1> DEFINE q == at + n
           p == at + i
           k == h + Group
<1>10. s = Carrying(d, limit, p, a, h) /\ c = At(d, limit, q, b)
  BY <1>3, <1>4 DEF Carrying
<1>11. acc = OrIn(a, b, h) /\ signed = Extended(OrIn(a, b, h), b, h) /\ k = h + Group
  BY DEF acc
<1> HIDE DEF p, q, k, signed
<1>12. UlebTurn(s, c, bits) = UlebEnd(d, limit, q, acc, b, h, bits)
  BY ONLY <1>7, <1>10, <1>11, UlebTurnEnds
<1>13. SlebTurn(s, c, bits) = SlebEnd(d, limit, q, acc, signed, k, bits)
  BY ONLY <1>7, <1>10, <1>11, SlebTurnEnds
<1>14. FrozenTurn(s, c, bits) = IF Less(k, bits) THEN Ended(d, limit, q, signed)
                                ELSE Ended(d, limit, q, acc)
  BY ONLY <1>7, <1>10, <1>11, FrozenTurnEnds
<1>15. k = Group * n
  BY <1>6 DEF k
<1> QED BY <1>5, <1>9, <1>12, <1>13, <1>14, <1>15 DEF c, b, q, i

----------------------------------------------------------------------------
(* LEB128: what the readers make of the bytes they may read.               *)

(* An integer that ends soon enough is returned when it fits.              *)
LEMMA UlebEnds ==
  ASSUME NEW d \in Bytestrings, NEW limit \in 0..Len(d), NEW at \in 0..limit,
         NEW n \in 1..Longest, Ends(Window(d, at, limit), n)
  PROVE  Uleb(Reader(d, at, limit), Width) =
           IF Number(Window(d, at, limit), n) < 2^Width
           THEN At(d, limit, at + n, Number(Window(d, at, limit), n))
           ELSE Failed(d, limit, at + n, TooLarge)
<1> DEFINE w == Window(d, at, limit)
           v == Number(w, n)
           s == Running(d, at, limit, n - 1)
           last == UlebTurn(s, Byte(s), Width)
           L == Len(w)
           T == IF Longest <= L THEN Longest ELSE L + 1
           Right == Ended(d, limit, at + n, v)
           Wrong == Failed(d, limit, at + n, TooLarge)
<1>1. w \in Bytestrings /\ L \in Nat
  BY WindowFacts
<1>2. n \in 1..L /\ w[n] < Continue /\ \A k \in 1..(n - 1) : w[k] >= Continue
  BY DEF Ends
<1>3. Longest \in Nat \ {0} /\ MaxBytes(Width) = Longest
  BY LongestFacts
<1>4. T \in Nat /\ n <= T /\ n \in 1..(T + 1) /\ n - 1 <= L
  BY <1>1, <1>2, <1>3
<1>5. T = Turns(Running(d, at, limit, 0), MaxBytes(Width))
  BY <1>3, TurnsOf
<1>6. last = IF ~(v < 2^Width) THEN Wrong ELSE Right
  <2> DEFINE h == Group * (n - 1)
             extra == Surplus(w[n], h, Width)
  <2>1. last = IF extra THEN Wrong ELSE Right
    <3>1. w = Window(d, at, limit) /\ s = Running(d, at, limit, n - 1) /\ h = Group * (n - 1)
      OBVIOUS
    <3>2. last = UlebEnd(d, limit, at + n, v, w[n], h, Width)
      <4> HIDE DEF w, s, h
      <4> QED BY <1>2, <3>1, LastTurn
    <3> HIDE DEF last, v, w, h
    <3> QED BY <3>2 DEF UlebEnd
  <2>2. extra <=> ~(v < 2^Width)
    <3> HIDE DEF w
    <3>1. n <= Longest
      BY <1>3
    <3> QED BY <1>1, <1>2, <3>1, ExtraBits DEF Surplus
  <2> HIDE DEF last, v, w, Wrong, Right, extra
  <2> QED BY <2>1, <2>2
<1>7. LebResult(last) = IF v < 2^Width THEN At(d, limit, at + n, v) ELSE Wrong
  <2>1. LebResult(Right) = At(d, limit, at + n, v) /\ LebResult(Wrong) = Wrong
    BY Results DEF Ended
  <2> HIDE DEF last, v, Wrong, Right
  <2> QED BY <1>6, <2>1
<1>8. ~Ok(last) \/ last.v.done
  <2>1. ~Ok(Wrong)
    BY DEF Wrong, Ok, Failed, TooLarge
  <2>2. Right.v.done
    BY DEF Right, Ended, At
  <2> HIDE DEF last, v, Wrong, Right
  <2> QED BY <1>6, <2>1, <2>2
<1>9. Uleb(Reader(d, at, limit), Width) = Outcome(d, at, limit, n, last, T)
  <2>1. Leads(d, at, limit, n, last, T)
    <3> HIDE DEF last, T, v
    <3> QED BY <1>2, <1>4, <1>8 DEF Leads
  <2>2. n <= T => UlebTurn(s, Byte(s), Width) = last
    OBVIOUS
  <2> HIDE DEF last, T, v, s
  <2> QED BY <1>5, <2>1, <2>2, UlebReturns DEF s
<1>10. Outcome(d, at, limit, n, last, T) = LebResult(last)
  <2> HIDE DEF last, T
  <2> QED BY <1>4 DEF Outcome
<1> HIDE DEF last, T, v, w
<1> QED BY <1>7, <1>9, <1>10 DEF v, w

(* sleb on a window whose n-th byte ends an integer: the integer meant when
   it is in range, a failure otherwise.                                    *)
LEMMA SlebEnds ==
  ASSUME NEW d \in Bytestrings, NEW limit \in 0..Len(d), NEW at \in 0..limit,
         NEW n \in 1..Longest, Ends(Window(d, at, limit), n)
  PROVE  Sleb(Reader(d, at, limit), Width) =
           IF SignedNumber(Window(d, at, limit), n) \in SignedInts
           THEN At(d, limit, at + n, SignedNumber(Window(d, at, limit), n))
           ELSE Failed(d, limit, at + n, TooLarge)
<1> DEFINE w == Window(d, at, limit)
           v == SignedNumber(w, n)
           s == Running(d, at, limit, n - 1)
           last == SlebTurn(s, Byte(s), Width)
           L == Len(w)
           T == IF Longest <= L THEN Longest ELSE L + 1
           Right == Ended(d, limit, at + n, v)
           Wrong == Failed(d, limit, at + n, TooLarge)
           fits == Fits(v, Width)
<1>1. w \in Bytestrings /\ L \in Nat
  BY WindowFacts
<1>2. n \in 1..L /\ w[n] < Continue /\ \A k \in 1..(n - 1) : w[k] >= Continue
  BY DEF Ends
<1>3. Longest \in Nat \ {0} /\ MaxBytes(Width) = Longest
  BY LongestFacts
<1>4. T \in Nat /\ n <= T /\ n \in 1..(T + 1) /\ n - 1 <= L
  BY <1>1, <1>2, <1>3
<1>5. T = Turns(Running(d, at, limit, 0), MaxBytes(Width))
  BY <1>3, TurnsOf
<1>6. last = IF v \in SignedInts THEN Right ELSE Wrong
  <2>0. /\ Group * n < Width => last = Right
        /\ Group * n > Width /\ ~(Group * n < Width) /\ fits => last = Right
        /\ Group * n > Width /\ ~(Group * n < Width) /\ ~fits => last = Wrong
    <3> DEFINE h == Group * (n - 1)
               k == Group * n
    <3>1. last = SlebEnd(d, limit, at + n, Number(w, n), v, k, Width)
      <4>1. w = Window(d, at, limit) /\ s = Running(d, at, limit, n - 1) /\ h = Group * (n - 1)
        OBVIOUS
      <4>2. last = SlebTurn(s, Byte(s), Width) /\ v = SignedNumber(w, n) /\ k = Group * n
        OBVIOUS
      <4>3. SlebTurn(s, Byte(s), Width)
              = SlebEnd(d, limit, at + n, Number(w, n), SignedNumber(w, n), Group * n, Width)
        <5> HIDE DEF w, s, h, last, v, k
        <5> QED BY <1>2, <4>1, LastTurn
      <4> HIDE DEF w, s, h, last, v, k
      <4> QED BY <4>2, <4>3
    <3>2. last = IF Less(k, Width) THEN Right
                 ELSE IF ~Less(Width, k) THEN Ended(d, limit, at + n, Number(w, n))
                 ELSE IF fits THEN Right ELSE Wrong
      <4> HIDE DEF last, v, w
      <4> QED BY <3>1 DEF SlebEnd
    <3> HIDE DEF last, Right, Wrong, fits
    <3> QED BY <3>2 DEF Less
  <2>1. n \in Nat /\ Group * n \in Nat /\ Width \in Nat
    BY <1>3, GroupAssumption, LebAssumption
  <2>2. (n < Longest <=> Group * n < Width) /\ Group * n # Width
    BY <2>1, LongestFacts
  <2>3. n < Longest => v \in SignedInts
    <3> HIDE DEF w
    <3> QED BY <1>1, <1>2, ShortFits
  <2>4. fits <=> v \in SignedInts
    <3>1. v \in Int
      <4> HIDE DEF w
      <4> QED BY <1>1, <1>2, SignedNumberType
    <3> HIDE DEF v
    <3>2. 2^(Width - 1) \in Nat
      BY HalfWidth
    <3> QED BY <3>1, <3>2 DEF SignedInts, Fits
  <2> HIDE DEF last, v, w, Wrong, Right, fits
  <2>5. CASE Group * n < Width
    BY <2>0, <2>2, <2>3, <2>5
  <2>6. CASE ~(Group * n < Width)
    <3>1. Group * n > Width
      BY <2>1, <2>2, <2>6
    <3> QED BY <2>0, <2>4, <2>6, <3>1
  <2> QED BY <2>5, <2>6
<1>7. LebResult(last) = IF v \in SignedInts THEN At(d, limit, at + n, v) ELSE Wrong
  <2>1. LebResult(Right) = At(d, limit, at + n, v) /\ LebResult(Wrong) = Wrong
    BY Results DEF Ended
  <2> HIDE DEF last, v, Wrong, Right
  <2> QED BY <1>6, <2>1
<1>8. ~Ok(last) \/ last.v.done
  <2>1. ~Ok(Wrong)
    BY DEF Wrong, Ok, Failed, TooLarge
  <2>2. Right.v.done
    BY DEF Right, Ended, At
  <2> HIDE DEF last, v, Wrong, Right
  <2> QED BY <1>6, <2>1, <2>2
<1>9. Sleb(Reader(d, at, limit), Width) = Outcome(d, at, limit, n, last, T)
  <2>1. Leads(d, at, limit, n, last, T)
    <3> HIDE DEF last, T, v
    <3> QED BY <1>2, <1>4, <1>8 DEF Leads
  <2>2. n <= T => SlebTurn(s, Byte(s), Width) = last
    OBVIOUS
  <2> HIDE DEF last, T, v, s
  <2> QED BY <1>5, <2>1, <2>2, SlebReturns DEF s
<1>10. Outcome(d, at, limit, n, last, T) = LebResult(last)
  <2> HIDE DEF last, T
  <2> QED BY <1>4 DEF Outcome
<1> HIDE DEF last, T, v, w
<1> QED BY <1>7, <1>9, <1>10 DEF v, w

(* The frozen readers take any length and extend the sign below the width. *)
LEMMA FrozenEnds ==
  ASSUME NEW d \in Bytestrings, NEW limit \in 0..Len(d), NEW at \in 0..limit, NEW bits,
         NEW n, Ends(Window(d, at, limit), n)
  PROVE  FrozenLeb(Reader(d, at, limit), bits) =
           At(d, limit, at + n, IF Group * n < bits THEN SignedNumber(Window(d, at, limit), n)
                                 ELSE Number(Window(d, at, limit), n))
<1> DEFINE w == Window(d, at, limit)
           v == IF Group * n < bits THEN SignedNumber(w, n) ELSE Number(w, n)
           s == Running(d, at, limit, n - 1)
           last == FrozenTurn(s, Byte(s), bits)
           L == Len(w)
           source == Reader(d, at, limit)
           T == n
           Right == Ended(d, limit, at + n, v)
<1>0. limit \in Nat /\ limit \in 0..Len(d) /\ at \in 0..limit /\ at \in Nat
  BY DEF Bytestrings
<1>1. w \in Bytestrings /\ L \in Nat /\ L = limit - at /\ \A k \in 1..L : w[k] = d[at + k]
  BY <1>0, WindowFacts
<1>2. n \in 1..L /\ w[n] < Continue /\ \A k \in 1..(n - 1) : w[k] >= Continue
  BY DEF Ends
<1>3. source.d = d /\ source.p = at /\ source.limit = limit
  BY DEF Reader
<1>4. n \in Nat /\ T \in Nat /\ n <= T /\ n \in 1..(T + 1) /\ n - 1 <= L /\ n <= L
  BY <1>1, <1>2
<1>5. FrozenTurns(source) = n
  <2>1. \A k \in 1..(n - 1) : ~(d[at + k] < Continue)
    <3> TAKE k \in 1..(n - 1)
    <3>1. k \in 1..L
      BY <1>4
    <3>2. w[k] \in Nat /\ w[k] >= Continue /\ w[k] = d[at + k] /\ Continue \in Nat
      BY <1>1, <1>2, <3>1, ByteFacts, ContinueFacts
    <3> QED BY <3>2
  <2>2. d[at + n] < Continue /\ n \in 1..(limit - at)
    BY <1>1, <1>2
  <2> HIDE DEF source, w
  <2> QED BY <1>0, <1>3, <2>1, <2>2, FrozenTurnsIs
<1>6. T = Turns(Running(d, at, limit, 0), FrozenTurns(source))
  <2> HIDE DEF source
  <2> QED BY <1>0, <1>4, <1>5, TurnsOf
<1>7. last = Right
  <2> DEFINE h == Group * (n - 1)
             k == Group * n
  <2>1. last = IF Less(k, bits) THEN Ended(d, limit, at + n, SignedNumber(w, n))
               ELSE Ended(d, limit, at + n, Number(w, n))
    <3>1. w = Window(d, at, limit) /\ s = Running(d, at, limit, n - 1) /\ h = Group * (n - 1)
      OBVIOUS
    <3>2. last = FrozenTurn(s, Byte(s), bits) /\ k = Group * n
      OBVIOUS
    <3>3. FrozenTurn(s, Byte(s), bits)
            = IF Less(Group * n, bits) THEN Ended(d, limit, at + n, SignedNumber(w, n))
              ELSE Ended(d, limit, at + n, Number(w, n))
      <4> HIDE DEF w, s, h, last, k
      <4> QED BY <1>2, <3>1, LastTurn
    <3> HIDE DEF w, s, h, last, k
    <3> QED BY <3>2, <3>3
  <2> HIDE DEF last, w
  <2> QED BY <2>1 DEF Less
<1>8. LebResult(Right) = At(d, limit, at + n, v)
  BY Results DEF Ended
<1>9. Right.v.done
  BY DEF Ended, At
<1> HIDE DEF Right
<1>10. FrozenLeb(source, bits) = Outcome(d, at, limit, n, last, T)
  <2>1. Leads(d, at, limit, n, last, T)
    <3>1. ~Ok(last) \/ last.v.done
      BY <1>7, <1>9
    <3> HIDE DEF last, v, T
    <3> QED BY <1>0, <1>2, <1>4, <3>1 DEF Leads
  <2>2. n <= T => FrozenTurn(s, Byte(s), bits) = last
    OBVIOUS
  <2> HIDE DEF last, v, T, s
  <2> QED BY <1>6, <2>1, <2>2, FrozenReturns DEF s, source
<1>12. Outcome(d, at, limit, n, last, T) = LebResult(last)
  <2> HIDE DEF last, T
  <2> QED BY <1>4 DEF Outcome
<1> HIDE DEF last, v, T
<1>11. FrozenLeb(source, bits) = At(d, limit, at + n, v)
  BY <1>7, <1>8, <1>10, <1>12
<1> QED BY <1>11 DEF v, w, source

(* Bytes that all continue are too few or too many.                        *)
LEMMA NeverEnds ==
  ASSUME NEW d \in Bytestrings, NEW limit \in 0..Len(d), NEW at \in 0..limit,
         NEW w, w = Window(d, at, limit),
         \A k \in 1..Len(w) : k <= Longest => w[k] >= Continue
  PROVE  /\ Len(w) < Longest =>
              /\ Uleb(Reader(d, at, limit), Width) = Failed(d, limit, limit, UnexpectedEnd)
              /\ Sleb(Reader(d, at, limit), Width) = Failed(d, limit, limit, UnexpectedEnd)
         /\ ~(Len(w) < Longest) =>
              /\ Uleb(Reader(d, at, limit), Width) = Failed(d, limit, at + Longest, TooLong)
              /\ Sleb(Reader(d, at, limit), Width) = Failed(d, limit, at + Longest, TooLong)
<1> DEFINE L == Len(w)
           fail == Failed(d, limit, limit, UnexpectedEnd)
           start == Running(d, at, limit, 0)
           source == Reader(d, at, limit)
<1>1. L \in Nat
  BY WindowFacts
<1>2. Longest \in Nat \ {0} /\ MaxBytes(Width) = Longest
  BY LongestFacts
<1>3. ~Ok(fail) /\ LebResult(fail) = fail
  <2>1. ~Ok(fail)
    BY DEF Ok, Failed, UnexpectedEnd
  <2>2. LebResult(fail) = fail
    BY Results
  <2> QED BY <2>1, <2>2
<1>4. CASE L < Longest
  <2> DEFINE T == L + 1
             n == L + 1
             s == Running(d, at, limit, n - 1)
  <2>1. T \in Nat /\ n \in 1..(T + 1) /\ n - 1 <= L /\ n - 1 = L /\ n <= T
    BY <1>1
  <2>2. T = Turns(start, MaxBytes(Width))
    BY <1>1, <1>2, <1>4, TurnsOf
  <2>3. \A k \in 1..(n - 1) : w[k] >= Continue
    BY <1>1, <1>2, <1>4
  <2>0. Leads(d, at, limit, n, fail, T)
    <3> HIDE DEF fail, T, n
    <3> QED BY <1>3, <2>1, <2>3 DEF Leads
  <2>4. UlebTurn(s, Byte(s), Width) = fail /\ SlebTurn(s, Byte(s), Width) = fail
    <3>1. s = Running(d, at, limit, Len(Window(d, at, limit)))
      BY <2>1
    <3> HIDE DEF s, n
    <3> QED BY <3>1, RunsOut
  <2>5. Uleb(source, Width) = Outcome(d, at, limit, n, fail, T)
    <3> HIDE DEF fail, T, n, s
    <3> QED BY <2>0, <2>2, <2>4, UlebReturns DEF s
  <2>6. Sleb(source, Width) = Outcome(d, at, limit, n, fail, T)
    <3> HIDE DEF fail, T, n, s
    <3> QED BY <2>0, <2>2, <2>4, SlebReturns DEF s
  <2> HIDE DEF fail, T, n, source
  <2>7. Uleb(source, Width) = fail /\ Sleb(source, Width) = fail
    BY <1>3, <2>1, <2>5, <2>6 DEF Outcome
  <2> QED BY <1>4, <2>7 DEF fail, source
<1>5. CASE ~(L < Longest)
  <2> DEFINE T == Longest
             n == T + 1
             s == Running(d, at, limit, n - 1)
  <2>1. T \in Nat /\ n \in 1..(T + 1) /\ n - 1 <= L /\ ~(n <= T)
    BY <1>1, <1>2, <1>5
  <2>2. T = Turns(start, MaxBytes(Width))
    BY <1>1, <1>2, <1>5, TurnsOf
  <2>3. \A k \in 1..(n - 1) : w[k] >= Continue
    BY <1>1, <1>2, <1>5
  <2>0. Leads(d, at, limit, n, fail, T)
    <3> HIDE DEF fail, T, n
    <3> QED BY <1>3, <2>1, <2>3 DEF Leads
  <2>4. (n <= T => UlebTurn(s, Byte(s), Width) = fail) /\ (n <= T => SlebTurn(s, Byte(s), Width) = fail)
    BY <2>1
  <2>5. Uleb(source, Width) = Outcome(d, at, limit, n, fail, T)
    <3> HIDE DEF fail, T, n, s
    <3> QED BY <2>0, <2>2, <2>4, UlebReturns DEF s
  <2>6. Sleb(source, Width) = Outcome(d, at, limit, n, fail, T)
    <3> HIDE DEF fail, T, n, s
    <3> QED BY <2>0, <2>2, <2>4, SlebReturns DEF s
  <2>7. LebResult(Running(d, at, limit, T)) = Failed(d, limit, at + T, TooLong)
    BY NeverDone
  <2> HIDE DEF fail, T, n, source
  <2>8. Uleb(source, Width) = Failed(d, limit, at + T, TooLong)
        /\ Sleb(source, Width) = Failed(d, limit, at + T, TooLong)
    BY <2>1, <2>5, <2>6, <2>7 DEF Outcome
  <2> QED BY <1>5, <2>8 DEF T, source
<1> QED BY <1>4, <1>5

(* The outcomes: why a reader fails, or that it does not.                  *)
LEMMA FailedFacts ==
  ASSUME NEW d, NEW limit, NEW p, NEW v
  PROVE  /\ ~Ok(Failed(d, limit, p, UnexpectedEnd)) /\ Failed(d, limit, p, UnexpectedEnd).err = UnexpectedEnd
         /\ ~Ok(Failed(d, limit, p, TooLarge)) /\ Failed(d, limit, p, TooLarge).err # UnexpectedEnd
         /\ ~Ok(Failed(d, limit, p, TooLong)) /\ Failed(d, limit, p, TooLong).err # UnexpectedEnd
         /\ At(d, limit, p, v).err # UnexpectedEnd
  BY DEF Ok, Failed, At, UnexpectedEnd, TooLarge, TooLong

(* "unexpected end" says that the bytes ran out.                           *)
LEMMA EndsAre ==
  ASSUME NEW d \in Bytestrings, NEW limit \in 0..Len(d), NEW at \in 0..limit,
         NEW w, w = Window(d, at, limit), NEW got,
         got = Uleb(Reader(d, at, limit), Width) \/ got = Sleb(Reader(d, at, limit), Width)
  PROVE  /\ Ok(got) => \E n \in 1..Longest : Ends(w, n)
         /\ got.err = UnexpectedEnd <=> Len(w) < Longest /\ \A k \in 1..Len(w) : w[k] >= Continue
<1> DEFINE L == Len(w)
           m == IF L < Longest THEN L ELSE Longest
<1>1. L \in Nat /\ w \in Bytestrings
  BY WindowFacts
<1>2. Longest \in Nat \ {0} /\ Continue \in Nat
  BY LongestFacts, ContinueFacts
<1>3. m \in 0..L
  BY <1>1, <1>2
<1>4. CASE \E n \in 1..m : Ends(w, n)
  <2>1. PICK n \in 1..m : Ends(w, n)
    BY <1>4
  <2>2. n \in 1..Longest /\ n \in 1..L /\ ~(w[n] >= Continue)
    <3>1. n \in 1..Longest /\ n \in 1..L
      BY <1>1, <1>2, <2>1
    <3>2. w[n] \in Nat /\ w[n] < Continue
      BY <1>1, <2>1, <3>1, ByteFacts DEF Ends
    <3> QED BY <1>2, <3>1, <3>2
  <2>3. got.err # UnexpectedEnd
    <3>1. CASE got = Uleb(Reader(d, at, limit), Width)
      <4>1. got = At(d, limit, at + n, Number(w, n)) \/ got = Failed(d, limit, at + n, TooLarge)
        BY <2>1, <2>2, <3>1, UlebEnds
      <4> QED BY <4>1, FailedFacts
    <3>2. CASE got = Sleb(Reader(d, at, limit), Width)
      <4>1. got = At(d, limit, at + n, SignedNumber(w, n)) \/ got = Failed(d, limit, at + n, TooLarge)
        BY <2>1, <2>2, <3>2, SlebEnds
      <4> QED BY <4>1, FailedFacts
    <3> QED BY <3>1, <3>2
  <2> QED BY <2>1, <2>2, <2>3
<1>5. CASE \A k \in 1..m : w[k] >= Continue
  <2>1. \A k \in 1..L : k <= Longest => w[k] >= Continue
    BY <1>1, <1>2, <1>5
  <2>2. CASE L < Longest
    <3>1. got = Failed(d, limit, limit, UnexpectedEnd)
      BY <2>1, <2>2, NeverEnds
    <3>2. ~Ok(got) /\ got.err = UnexpectedEnd
      BY <3>1, FailedFacts
    <3> QED BY <1>5, <2>2, <3>2
  <2>3. CASE ~(L < Longest)
    <3>1. got = Failed(d, limit, at + Longest, TooLong)
      BY <2>1, <2>3, NeverEnds
    <3>2. ~Ok(got) /\ got.err # UnexpectedEnd
      BY <3>1, FailedFacts
    <3> QED BY <2>3, <3>2
  <2> QED BY <2>2, <2>3
<1> HIDE DEF m
<1> QED BY <1>1, <1>3, <1>4, <1>5, EndsOrContinues

----------------------------------------------------------------------------
(* LEB128: the integers and what the readers return.                       *)

(* What uleb accepts, in the terms of the property.                        *)
LEMMA UlebAccepts ==
  ASSUME NEW d \in Bytestrings, NEW limit \in 0..Len(d), NEW at \in 0..limit,
         NEW w, w = Window(d, at, limit), NEW got, got = Uleb(Reader(d, at, limit), Width)
  PROVE  /\ \A n \in 0..Len(w) : SubSeq(w, 1, n) \in UForms => Ok(got) /\ got.p = at + n
         /\ Ok(got) => \E n \in 1..Longest :
              /\ Ends(w, n) /\ got = At(d, limit, at + n, Number(w, n))
              /\ <<SubSeq(w, 1, n), Number(w, n)>> \in UMeanings
<1>1. w \in Bytestrings /\ Len(w) \in Nat
  BY WindowFacts
<1>2. Longest \in Nat \ {0}
  BY LongestFacts
<1>3. 2^Width \in Nat
  BY PowIsNat, LebAssumption
<1>4. ASSUME NEW n \in 0..Len(w), SubSeq(w, 1, n) \in UForms
      PROVE  Ok(got) /\ got.p = at + n
  <2>1. PICK x \in UPairs : SubSeq(w, 1, n) = Form(x[1], x[2])
    BY <1>4 DEF UForms, UMeanings
  <2> DEFINE v == x[1]
             m == x[2]
  <2>2. v \in 0..(2^Width - 1) /\ m \in 1..Longest /\ v < Place(m)
    BY <2>1 DEF UPairs, UnsignedInts, Place
  <2> HIDE DEF v, m
  <2>3. SubSeq(w, 1, n) = Form(v, m)
    BY <2>1 DEF v, m
  <2>4. n = m
    <3>1. Len(SubSeq(w, 1, n)) = n
      BY <1>1 DEF Bytestrings
    <3>2. Len(Form(v, m)) = m
      BY <1>2, <2>2 DEF Form
    <3> QED BY <2>3, <3>1, <3>2
  <2>5. n \in 1..Len(w) /\ n \in Nat /\ v \in Int /\ v \in Nat
    BY <1>1, <1>2, <1>3, <2>2, <2>4
  <2>6. Ends(w, n) /\ Number(w, n) = v % Place(n)
    BY <1>1, <2>3, <2>4, <2>5, FormSpells
  <2>7. v % Place(n) = v
    <3> DEFINE b == Place(n)
    <3>1. b \in Nat \ {0} /\ v \in 0..(b - 1) /\ v = (b * 0) + v /\ 0 \in Int
      <4>1. b \in Nat \ {0} /\ v < b
        BY <2>2, <2>4, <2>5, PlaceFacts
      <4> HIDE DEF b
      <4> QED BY <2>5, <4>1
    <3> HIDE DEF b
    <3>2. v % b = v
      BY ONLY <3>1, <2>5, QuotientIs, Zenon
    <3> QED BY <3>2 DEF b
  <2>8. Number(w, n) < 2^Width
    BY <1>3, <2>2, <2>6, <2>7
  <2>9. got = At(d, limit, at + n, Number(w, n))
    BY <2>2, <2>4, <2>6, <2>8, UlebEnds
  <2> QED BY <2>9, AtFacts
<1>5. ASSUME Ok(got)
      PROVE  \E n \in 1..Longest : /\ Ends(w, n) /\ got = At(d, limit, at + n, Number(w, n))
                                   /\ <<SubSeq(w, 1, n), Number(w, n)>> \in UMeanings
  <2>1. PICK n \in 1..Longest : Ends(w, n)
    BY <1>5, EndsAre
  <2>2. Number(w, n) < 2^Width /\ got = At(d, limit, at + n, Number(w, n))
    BY <1>5, <2>1, UlebEnds, FailedFacts
  <2>3. n \in 0..Len(w) /\ n \in Nat
    BY <1>1, <2>1 DEF Ends
  <2> DEFINE v == Number(w, n)
             b == Place(n)
  <2>4. v \in Nat /\ v \in 0..(b - 1) /\ b \in Nat \ {0}
    BY <1>1, <2>3, NumberFacts, PlaceFacts DEF Spells
  <2>5. v % b = v
    <3> HIDE DEF v, b
    <3>1. v = (b * 0) + v /\ 0 \in Int /\ v \in Int
      BY <2>4
    <3> QED BY ONLY <2>4, <3>1, QuotientIs, Zenon
  <2>6. SubSeq(w, 1, n) = Form(v, n)
    <3>1. v \in Int
      BY <2>4
    <3> QED BY <1>1, <2>1, <2>5, <3>1, SpellsForm
  <2>7. <<v, n>> \in UPairs
    <3>1. v < 2^(Group * n) /\ v \in 0..(2^Width - 1)
      BY <1>3, <2>2, <2>4 DEF Place
    <3> HIDE DEF v
    <3> QED BY <2>1, <3>1 DEF UPairs, UnsignedInts
  <2>8. <<SubSeq(w, 1, n), v>> \in UMeanings
    <3> HIDE DEF v
    <3> QED BY <2>6, <2>7 DEF UMeanings
  <2> QED BY <2>1, <2>2, <2>8
<1> QED BY <1>4, <1>5

(* A signed integer of n payloads is the one its number stands for.        *)
LEMMA SignedIs ==
  ASSUME NEW w \in Bytestrings, NEW n \in 1..Len(w), NEW v \in Int,
         -(Place(n)) <= 2 * v, 2 * v < Place(n), Number(w, n) = v % Place(n)
  PROVE  SignedNumber(w, n) = v
<1> DEFINE b == Place(n)
           u == Number(w, n)
<1>1. n \in Nat
  BY DEF Bytestrings
<1>2. b \in Nat \ {0}
  BY <1>1, PlaceFacts
<1> HIDE DEF b, u
<1>3. u = v % b /\ -b <= 2 * v /\ 2 * v < b
  BY DEF b, u
<1>4. SignedNumber(w, n) = IF 2 * u >= b THEN u - b ELSE u
  BY DEF SignedNumber, b, u
<1>5. CASE v >= 0
  <2>1. v \in 0..(b - 1) /\ v = (b * 0) + v /\ 0 \in Int
    BY <1>2, <1>3, <1>5
  <2>2. v % b = v
    BY ONLY <1>2, <2>1, v \in Int, QuotientIs, Zenon
  <2> QED BY <1>2, <1>3, <1>4, <2>2
<1>6. CASE ~(v >= 0)
  <2> DEFINE x == v + b
  <2>1. x \in 0..(b - 1) /\ v = (b * (-1)) + x /\ -1 \in Int
    BY <1>2, <1>3, <1>6
  <2> HIDE DEF x
  <2>2. v % b = x
    BY ONLY <1>2, <2>1, v \in Int, QuotientIs, Zenon
  <2> QED BY <1>2, <1>3, <1>4, <2>2 DEF x
<1> QED BY <1>5, <1>6

(* What sleb accepts.                                                      *)
LEMMA SlebAccepts ==
  ASSUME NEW d \in Bytestrings, NEW limit \in 0..Len(d), NEW at \in 0..limit,
         NEW w, w = Window(d, at, limit), NEW got, got = Sleb(Reader(d, at, limit), Width)
  PROVE  /\ \A n \in 0..Len(w) : SubSeq(w, 1, n) \in SForms => Ok(got) /\ got.p = at + n
         /\ Ok(got) => \E n \in 1..Longest :
              /\ Ends(w, n) /\ got = At(d, limit, at + n, SignedNumber(w, n))
              /\ <<SubSeq(w, 1, n), SignedNumber(w, n)>> \in SMeanings
<1>1. w \in Bytestrings /\ Len(w) \in Nat
  BY WindowFacts
<1>2. Longest \in Nat \ {0}
  BY LongestFacts
<1>3. SignedInts \in SUBSET Int
  BY HalfWidth DEF SignedInts
<1>4. ASSUME NEW n \in 0..Len(w), SubSeq(w, 1, n) \in SForms
      PROVE  Ok(got) /\ got.p = at + n
  <2>1. PICK x \in SPairs : SubSeq(w, 1, n) = Form(x[1], x[2])
    BY <1>4 DEF SForms, SMeanings
  <2> DEFINE v == x[1]
             m == x[2]
             half == 2^(Group * m - 1)
  <2>2. v \in SignedInts /\ m \in 1..Longest /\ -half <= v /\ v < half
    BY <2>1 DEF SPairs
  <2> HIDE DEF v, m, half
  <2>3. SubSeq(w, 1, n) = Form(v, m)
    BY <2>1 DEF v, m
  <2>4. n = m
    <3>1. Len(SubSeq(w, 1, n)) = n
      BY <1>1 DEF Bytestrings
    <3>2. Len(Form(v, m)) = m
      BY <1>2, <2>2 DEF Form
    <3> QED BY <2>3, <3>1, <3>2
  <2>5. n \in 1..Len(w) /\ n \in Nat \ {0} /\ v \in Int
    BY <1>1, <1>2, <1>3, <2>2, <2>4
  <2>6. Ends(w, n) /\ Number(w, n) = v % Place(n)
    BY <1>1, <2>3, <2>4, <2>5, FormSpells
  <2>7. half \in Nat /\ Place(n) = 2 * half
    BY <2>4, <2>5, HalfPlace DEF half
  <2>8. -(Place(n)) <= 2 * v /\ 2 * v < Place(n)
    BY <2>2, <2>5, <2>7
  <2>9. SignedNumber(w, n) = v
    BY <1>1, <2>5, <2>6, <2>8, SignedIs
  <2>10. got = At(d, limit, at + n, SignedNumber(w, n))
    BY <2>2, <2>4, <2>6, <2>9, SlebEnds
  <2> QED BY <2>10, AtFacts
<1>5. ASSUME Ok(got)
      PROVE  \E n \in 1..Longest : /\ Ends(w, n) /\ got = At(d, limit, at + n, SignedNumber(w, n))
                                   /\ <<SubSeq(w, 1, n), SignedNumber(w, n)>> \in SMeanings
  <2>1. PICK n \in 1..Longest : Ends(w, n)
    BY <1>5, EndsAre
  <2>2. SignedNumber(w, n) \in SignedInts /\ got = At(d, limit, at + n, SignedNumber(w, n))
    BY <1>5, <2>1, SlebEnds, FailedFacts
  <2>3. n \in 1..Len(w) /\ n \in Nat \ {0}
    BY <1>1, <2>1 DEF Ends
  <2> DEFINE v == SignedNumber(w, n)
             half == 2^(Group * n - 1)
  <2>4. v \in Int /\ -(Place(n)) <= 2 * v /\ 2 * v < Place(n) /\ v % Place(n) = Number(w, n)
    BY <1>1, <2>3, SignedNumberType
  <2>5. half \in Nat /\ Place(n) = 2 * half
    BY <2>3, HalfPlace
  <2> HIDE DEF v, half
  <2>6. SubSeq(w, 1, n) = Form(v, n)
    BY <1>1, <2>1, <2>4, SpellsForm
  <2>7. <<v, n>> \in SPairs
    <3>1. -half <= v /\ v < half
      BY <2>4, <2>5
    <3>2. v \in SignedInts
      BY <2>2 DEF v
    <3> QED BY <2>1, <3>1, <3>2 DEF SPairs, half
  <2>8. <<SubSeq(w, 1, n), v>> \in SMeanings
    BY <2>6, <2>7 DEF SMeanings
  <2> QED BY <2>1, <2>2, <2>8 DEF v
<1> QED BY <1>4, <1>5

(* The whole file ends the integer where the section does.                 *)
LEMMA SameInFile ==
  ASSUME NEW d \in Bytestrings, NEW limit \in 0..Len(d), NEW at \in 0..limit,
         NEW w, w = Window(d, at, limit), NEW n, Ends(w, n),
         NEW file, file = Window(d, at, Len(d))
  PROVE  /\ Ends(file, n) /\ Number(file, n) = Number(w, n)
         /\ SignedNumber(file, n) = SignedNumber(w, n)
<1>1. /\ w \in Bytestrings /\ Len(w) = limit - at /\ Len(w) \in Nat
      /\ \A k \in 1..Len(w) : w[k] = d[at + k]
  BY WindowFacts
<1>2. Len(d) \in Nat /\ Len(d) \in 0..Len(d) /\ at \in 0..Len(d) /\ limit \in Nat
  BY DEF Bytestrings
<1>3. /\ file \in Bytestrings /\ Len(file) = Len(d) - at /\ Len(file) \in Nat
      /\ \A k \in 1..Len(file) : file[k] = d[at + k]
  BY <1>2, WindowFacts
<1>4. n \in 1..Len(w) /\ n \in Nat
  BY <1>1 DEF Ends
<1>5. n \in 1..Len(file) /\ \A k \in 1..n : file[k] = w[k]
  BY <1>1, <1>2, <1>3, <1>4
<1>6. Ends(file, n)
  BY <1>4, <1>5 DEF Ends
<1> DEFINE v == Number(w, n)
           b == Place(n)
<1>7. v \in 0..(b - 1) /\ \A k \in 1..n : Digit(v, k) = w[k] % Continue
  BY <1>1, <1>4, NumberFacts DEF Spells
<1>8. b \in Nat \ {0}
  BY <1>4, PlaceFacts
<1> HIDE DEF v, b
<1>9. Number(file, n) = v % b
  <2>1. v \in Int /\ n \in 0..Len(file) /\ \A k \in 1..n : Digit(v, k) = file[k] % Continue
    BY <1>5, <1>7, <1>8
  <2> QED BY <1>3, <2>1, NumberIs DEF b
<1>10. v % b = v
  <2>1. v = (b * 0) + v /\ 0 \in Int /\ v \in Int
    BY <1>7, <1>8
  <2> QED BY ONLY <1>7, <1>8, <2>1, QuotientIs, Zenon
<1>11. Number(file, n) = Number(w, n)
  BY <1>9, <1>10 DEF v
<1> QED BY <1>6, <1>11 DEF SignedNumber

(* Where the strict readers accept, the frozen ones read the same.         *)
LEMMA FrozenAgrees ==
  ASSUME NEW d \in Bytestrings, NEW limit \in 0..Len(d), NEW at \in 0..limit,
         NEW w, w = Window(d, at, limit), NEW n \in 1..Longest, Ends(w, n),
         NEW whole, whole = Reader(d, at, Len(d))
  PROVE  /\ FrozenUleb(whole) = At(d, Len(d), at + n, Number(w, n))
         /\ \E v \in Int : /\ FrozenSleb(whole, Width) = At(d, Len(d), at + n, v)
                           /\ (v - SignedNumber(w, n)) % 2^Width = 0
<1>1. Len(d) \in 0..Len(d) /\ at \in 0..Len(d)
  BY DEF Bytestrings
<1> DEFINE file == Window(d, at, Len(d))
           u == Number(w, n)
           s == SignedNumber(w, n)
<1>2. Ends(file, n) /\ Number(file, n) = u /\ SignedNumber(file, n) = s
  <2> HIDE DEF file
  <2> QED BY SameInFile DEF file
<1>3. \A bits : FrozenLeb(whole, bits) = At(d, Len(d), at + n, IF Group * n < bits THEN s ELSE u)
  <2> HIDE DEF u, s
  <2> QED BY <1>1, <1>2, FrozenEnds
<1>4. w \in Bytestrings /\ Len(w) \in Nat
  BY WindowFacts
<1>5. n \in 1..Len(w) /\ n \in Nat /\ n \in 0..Len(w)
  BY <1>4 DEF Ends
<1>6. s \in Int /\ s = IF 2 * u >= Place(n) THEN u - Place(n) ELSE u
  BY <1>4, <1>5, SignedNumberType DEF SignedNumber
<1>7. u \in Nat
  BY <1>4, <1>5, NumberFacts
<1>8. Group * n \in Nat /\ Width \in Nat /\ Place(n) \in Nat
  BY <1>5, PlaceFacts, LebAssumption
<1>9. FrozenUleb(whole) = At(d, Len(d), at + n, u)
  <2>1. ~(Group * n < 0)
    BY <1>8
  <2> HIDE DEF u, s
  <2> QED BY <1>3, <2>1 DEF FrozenUleb
<1> DEFINE v == IF Group * n < Width THEN s ELSE u
           m == 2^Width
<1>10. m \in Nat \ {0}
  BY <1>8, PowIsNat
<1>11. \E k \in Int : v - s = m * k
  <2>1. CASE v = s
    <3>1. v - s = m * 0
      BY <1>6, <1>10, <2>1
    <3> QED BY <3>1
  <2>2. CASE v # s
    <3>1. ~(Group * n < Width) /\ v = u
      BY <2>2
    <3>2. v - s = Place(n)
      BY <1>6, <1>7, <1>8, <2>2, <3>1
    <3>3. Width <= Group * n
      BY <1>8, <3>1
    <3>4. PICK k \in Nat \ {0} : 2^(Group * n) = k * m
      <4> DEFINE e == Group * n
      <4>1. e \in Nat /\ Width \in Nat /\ Width <= e
        BY <1>8, <3>3
      <4> HIDE DEF e
      <4>2. \E k \in Nat \ {0} : 2^e = k * m
        BY <4>1, PowDivides
      <4> QED BY <4>2 DEF e
    <3>5. v - s = m * k
      BY <1>10, <3>2, <3>4 DEF Place
    <3> QED BY <3>5
  <2> QED BY <2>1, <2>2
<1>12. (v - s) % m = 0
  <2>1. PICK k \in Int : v - s = m * k
    BY <1>11
  <2> DEFINE x == v - s
  <2>2. x \in Int /\ 0 \in 0..(m - 1) /\ x = (m * k) + 0
    <3>1. v \in Int
      BY <1>6, <1>7
    <3> HIDE DEF v, m, s
    <3> QED BY <1>6, <1>10, <2>1, <3>1
  <2> HIDE DEF x, m
  <2>3. x % m = 0
    BY ONLY <1>10, <2>1, <2>2, QuotientIs, Zenon
  <2> QED BY <2>3 DEF x
<1>13. FrozenSleb(whole, Width) = At(d, Len(d), at + n, v) /\ v \in Int
  BY <1>3, <1>6, <1>7 DEF FrozenSleb
<1> QED BY <1>9, <1>12, <1>13

(* The state is what the readers made of some bytes of some file.          *)
Reading ==
  ints.read => \E d \in Bytestrings : \E limit \in 0..Len(d) : \E at \in 0..limit :
                 ints = ReadAt(d, at, limit)

(* Whatever has been read was read from a file of bytes at some position
   under some limit.                                                       *)
LEMMA ReadsBytes == LebSpec => []Reading
<1>1. LebInit => Reading
  BY DEF LebInit, Unread, Reading
<1>2. Reading /\ [LebNext]_ints => Reading'
  <2> SUFFICES ASSUME Reading, [LebNext]_ints PROVE Reading'
    OBVIOUS
  <2>1. CASE LebNext
    <3>1. PICK bytes \in Bytestrings : ReadInt(bytes)
      BY <2>1 DEF LebNext, Bytestrings
    <3> QED BY <3>1 DEF ReadInt, Reading
  <2>2. CASE UNCHANGED ints
    BY <2>2 DEF Reading
  <2> QED BY <2>1, <2>2
<1> QED BY <1>1, <1>2, PTL DEF LebSpec

(* What a read leaves.                                                     *)
LEMMA ReadFields ==
  ASSUME NEW d, NEW limit, NEW at
  PROVE  LET x == ReadAt(d, at, limit)
         IN  /\ x.at = at /\ x.window = Window(d, at, limit)
             /\ x.u = Uleb(Reader(d, at, limit), Width)
             /\ x.s = Sleb(Reader(d, at, limit), Width)
             /\ x.fu = FrozenUleb(Reader(d, at, Len(d)))
             /\ x.fs = FrozenSleb(Reader(d, at, Len(d)), Width)
  BY DEF ReadAt, Window

(* The starts of the bytes a reader may read.                              *)
LEMMA StartsAre ==
  ASSUME NEW w \in Bytestrings, w = ints.window, NEW b \in Starts
  PROVE  \E n \in 0..Len(w) : b = SubSeq(w, 1, n) /\ Len(b) = n
<1>1. PICK n \in 0..Len(w) : b = SubSeq(w, 1, n)
  BY DEF Starts
<1>2. Len(SubSeq(w, 1, n)) = n
  BY DEF Bytestrings
<1> QED BY <1>1, <1>2

(* Both strict readers accept exactly the encodings of the integers of the *)
(* width, return the integer, stop behind it and never pass the section.   *)
THEOREM ReadersAreExact == LebSpec => []LebExact
<1>1. Reading => LebExact
  <2> SUFFICES ASSUME Reading, ints.read PROVE LebExact
    BY DEF LebExact, UlebExact, SlebExact, EndIsTheEnd
  <2>13. PICK d \in Bytestrings : \E limit \in 0..Len(d) : \E at \in 0..limit : ints = ReadAt(d, at, limit)
    BY DEF Reading
  <2>12. PICK limit \in 0..Len(d) : \E at \in 0..limit : ints = ReadAt(d, at, limit)
    BY <2>13
  <2>1. PICK at \in 0..limit : ints = ReadAt(d, at, limit)
    BY <2>12
  <2> DEFINE w == Window(d, at, limit)
             u == Uleb(Reader(d, at, limit), Width)
             s == Sleb(Reader(d, at, limit), Width)
  <2>2. ints.at = at /\ ints.window = w /\ ints.u = u /\ ints.s = s
    BY <2>1, ReadFields
  <2>3. w \in Bytestrings
    BY WindowFacts
  <2>4. /\ \A n \in 0..Len(w) : SubSeq(w, 1, n) \in UForms => Ok(u) /\ u.p = at + n
        /\ Ok(u) => \E n \in 1..Longest :
             /\ Ends(w, n) /\ u = At(d, limit, at + n, Number(w, n))
             /\ <<SubSeq(w, 1, n), Number(w, n)>> \in UMeanings
    <3>1. w = Window(d, at, limit) /\ u = Uleb(Reader(d, at, limit), Width)
      OBVIOUS
    <3> HIDE DEF w, u
    <3> QED BY <3>1, UlebAccepts
  <2>5. /\ \A n \in 0..Len(w) : SubSeq(w, 1, n) \in SForms => Ok(s) /\ s.p = at + n
        /\ Ok(s) => \E n \in 1..Longest :
             /\ Ends(w, n) /\ s = At(d, limit, at + n, SignedNumber(w, n))
             /\ <<SubSeq(w, 1, n), SignedNumber(w, n)>> \in SMeanings
    <3>1. w = Window(d, at, limit) /\ s = Sleb(Reader(d, at, limit), Width)
      OBVIOUS
    <3> HIDE DEF w, s
    <3> QED BY <3>1, SlebAccepts
  <2>6. \A got \in {u, s} :
          got.err = UnexpectedEnd <=> Len(w) < Longest /\ \A k \in 1..Len(w) : w[k] >= Continue
    <3> TAKE got \in {u, s}
    <3> QED BY EndsAre
  <2> HIDE DEF w, u, s
  <2>7. \A b \in Starts : \E n \in 0..Len(w) : b = SubSeq(w, 1, n) /\ Len(b) = n
    BY <2>2, <2>3, StartsAre
  <2>8. at \in Nat
    BY DEF Bytestrings
  <2>9. Exact(ints.u, UMeanings, UForms)
    <3>1. \A b \in Starts : b \in UForms => Ok(u) /\ u.p = at + Len(b)
      BY <2>4, <2>7
    <3>2. ASSUME Ok(u) PROVE <<SubSeq(w, 1, u.p - at), u.v>> \in UMeanings
      <4>1. PICK n \in 1..Longest : /\ u = At(d, limit, at + n, Number(w, n))
                                    /\ <<SubSeq(w, 1, n), Number(w, n)>> \in UMeanings
        BY <2>4, <3>2
      <4>2. u.p = at + n /\ u.v = Number(w, n)
        BY <4>1, AtFacts
      <4>3. u.p - at = n
        BY <2>8, <4>2, LongestFacts
      <4> QED BY <4>1, <4>2, <4>3
    <3> QED BY <2>2, <3>1, <3>2 DEF Exact
  <2>10. Exact(ints.s, SMeanings, SForms)
    <3>1. \A b \in Starts : b \in SForms => Ok(s) /\ s.p = at + Len(b)
      BY <2>5, <2>7
    <3>2. ASSUME Ok(s) PROVE <<SubSeq(w, 1, s.p - at), s.v>> \in SMeanings
      <4>1. PICK n \in 1..Longest : /\ s = At(d, limit, at + n, SignedNumber(w, n))
                                    /\ <<SubSeq(w, 1, n), SignedNumber(w, n)>> \in SMeanings
        BY <2>5, <3>2
      <4>2. s.p = at + n /\ s.v = SignedNumber(w, n)
        BY <4>1, AtFacts
      <4>3. s.p - at = n
        BY <2>8, <4>2, LongestFacts
      <4> QED BY <4>1, <4>2, <4>3
    <3> QED BY <2>2, <3>1, <3>2 DEF Exact
  <2>11. EndIsTheEnd
    <3>1. DOMAIN ints.window = 1..Len(w)
      BY <2>2, <2>3 DEF Bytestrings
    <3> QED BY <2>2, <2>6, <3>1 DEF EndIsTheEnd
  <2> QED BY <2>9, <2>10, <2>11 DEF LebExact, UlebExact, SlebExact
<1> QED BY <1>1, ReadsBytes, PTL

(* The frozen readers read every integer the strict ones accept to the     *)
(* same byte and the same low bits.                                        *)
THEOREM FrozenReadersAgree == LebSpec => []FrozenReadsTheSame
<1>1. Reading => FrozenReadsTheSame
  <2> SUFFICES ASSUME Reading, ints.read PROVE FrozenReadsTheSame
    BY DEF FrozenReadsTheSame
  <2>13. PICK d \in Bytestrings : \E limit \in 0..Len(d) : \E at \in 0..limit : ints = ReadAt(d, at, limit)
    BY DEF Reading
  <2>12. PICK limit \in 0..Len(d) : \E at \in 0..limit : ints = ReadAt(d, at, limit)
    BY <2>13
  <2>1. PICK at \in 0..limit : ints = ReadAt(d, at, limit)
    BY <2>12
  <2> DEFINE w == Window(d, at, limit)
             whole == Reader(d, at, Len(d))
             u == Uleb(Reader(d, at, limit), Width)
             s == Sleb(Reader(d, at, limit), Width)
             fu == FrozenUleb(whole)
             fs == FrozenSleb(whole, Width)
  <2>2. ints.u = u /\ ints.s = s /\ ints.fu = fu /\ ints.fs = fs
    BY <2>1, ReadFields
  <2>3. Ok(u) => \E n \in 1..Longest : Ends(w, n) /\ u = At(d, limit, at + n, Number(w, n))
    <3>1. w = Window(d, at, limit) /\ u = Uleb(Reader(d, at, limit), Width)
      OBVIOUS
    <3> HIDE DEF w, u
    <3>2. /\ \A n \in 0..Len(w) : SubSeq(w, 1, n) \in UForms => Ok(u) /\ u.p = at + n
          /\ Ok(u) => \E n \in 1..Longest :
               /\ Ends(w, n) /\ u = At(d, limit, at + n, Number(w, n))
               /\ <<SubSeq(w, 1, n), Number(w, n)>> \in UMeanings
      BY <3>1, UlebAccepts
    <3> QED BY <3>2
  <2>4. Ok(s) => \E n \in 1..Longest : Ends(w, n) /\ s = At(d, limit, at + n, SignedNumber(w, n))
    <3>1. w = Window(d, at, limit) /\ s = Sleb(Reader(d, at, limit), Width)
      OBVIOUS
    <3> HIDE DEF w, s
    <3>2. /\ \A n \in 0..Len(w) : SubSeq(w, 1, n) \in SForms => Ok(s) /\ s.p = at + n
          /\ Ok(s) => \E n \in 1..Longest :
               /\ Ends(w, n) /\ s = At(d, limit, at + n, SignedNumber(w, n))
               /\ <<SubSeq(w, 1, n), SignedNumber(w, n)>> \in SMeanings
      BY <3>1, SlebAccepts
    <3> QED BY <3>2
  <2>5. \A n \in 1..Longest : Ends(w, n) =>
          /\ fu = At(d, Len(d), at + n, Number(w, n))
          /\ \E v \in Int : /\ fs = At(d, Len(d), at + n, v)
                            /\ (v - SignedNumber(w, n)) % 2^Width = 0
    BY FrozenAgrees
  <2> HIDE DEF w, u, s, fu, fs
  <2>6. ASSUME Ok(u) PROVE Ok(fu) /\ fu.p = u.p /\ fu.v = u.v
    <3>1. PICK n \in 1..Longest : Ends(w, n) /\ u = At(d, limit, at + n, Number(w, n))
      BY <2>3, <2>6
    <3>2. fu = At(d, Len(d), at + n, Number(w, n))
      BY <2>5, <3>1
    <3> QED BY <3>1, <3>2, AtFacts
  <2>7. ASSUME Ok(s) PROVE Ok(fs) /\ fs.p = s.p /\ (fs.v - s.v) % 2^Width = 0
    <3>1. PICK n \in 1..Longest : Ends(w, n) /\ s = At(d, limit, at + n, SignedNumber(w, n))
      BY <2>4, <2>7
    <3>2. PICK v \in Int : /\ fs = At(d, Len(d), at + n, v)
                           /\ (v - SignedNumber(w, n)) % 2^Width = 0
      BY <2>5, <3>1
    <3>3. Ok(fs) /\ fs.p = at + n /\ fs.v = v
      BY <3>2, AtFacts
    <3>4. s.p = at + n /\ s.v = SignedNumber(w, n)
      BY <3>1, AtFacts
    <3> QED BY <3>2, <3>3, <3>4
  <2> QED BY <2>2, <2>6, <2>7 DEF FrozenReadsTheSame
<1> QED BY <1>1, ReadsBytes, PTL

----------------------------------------------------------------------------
(* Floats: patterns, numbers and the way between them, in any two formats  *)
(* that FormatAssumption allows.                                           *)

(* n bits are as many as a number takes.                                   *)
Takes(m, n) == m < 2^n /\ (n = 0 \/ m >= 2^(n - 1))

(* Every number takes some number of bits.                                 *)
LEMMA TakesSome ==
  ASSUME NEW m \in Nat
  PROVE  \E n \in Nat : Takes(m, n)
<1> DEFINE S == {n \in Nat : m < 2^n}
<1>1. m \in S /\ S \in SUBSET Nat
  BY PowAbove
<1>2. PICK n \in S : \A k \in S : ~(k < n)
  <2> HIDE DEF S
  <2> QED BY <1>1, Least
<1>3. CASE n = 0
  BY <1>3, <1>2 DEF Takes
<1>4. CASE n # 0
  <2>1. n - 1 \in Nat /\ n - 1 < n
    BY <1>4
  <2>2. ~(m < 2^(n - 1))
    BY <2>1, <1>2
  <2>3. 2^(n - 1) \in Nat
    BY <2>1, PowIsNat
  <2> QED BY <2>2, <2>3 DEF Takes
<1> QED BY <1>3, <1>4

(* It takes no other number of them.                                       *)
LEMMA TakesOne ==
  ASSUME NEW m \in Nat, NEW n \in Nat, NEW k \in Nat, Takes(m, n), Takes(m, k)
  PROVE  n = k
<1>1. ASSUME NEW i \in Nat, NEW j \in Nat, Takes(m, i), Takes(m, j) PROVE ~(i < j)
  <2> SUFFICES ASSUME i < j PROVE FALSE
    OBVIOUS
  <2>1. j - 1 \in Nat /\ i <= j - 1 /\ j # 0
    OBVIOUS
  <2>2. 2^i <= 2^(j - 1) /\ 2^i \in Nat /\ 2^(j - 1) \in Nat
    BY <2>1, PowMonotone, PowIsNat
  <2>3. m < 2^i /\ m >= 2^(j - 1)
    BY <1>1, <2>1 DEF Takes
  <2> QED BY <2>2, <2>3
<1> QED BY <1>1

(* One more than half of it takes, rounded down.                           *)
LEMMA TakesHalf ==
  ASSUME NEW m \in Nat \ {0}, NEW n \in Nat, Takes(m \div 2, n)
  PROVE  Takes(m, n + 1)
<1> DEFINE h == m \div 2
<1>1. h \in Nat /\ (m = 2 * h \/ m = 2 * h + 1)
  OBVIOUS
<1>2. 2^(n + 1) = 2 * 2^n /\ 2^n \in Nat
  BY PowNext, PowIsNat
<1>3. m < 2^(n + 1)
  BY <1>1, <1>2 DEF Takes
<1>4. m >= 2^n
  <2>1. CASE n = 0
    BY <2>1
  <2>2. CASE n # 0
    <3>1. n - 1 \in Nat /\ (n - 1) + 1 = n
      BY <2>2
    <3>2. 2^n = 2 * 2^(n - 1) /\ 2^(n - 1) \in Nat
      BY <3>1, PowNext, PowIsNat
    <3>3. h >= 2^(n - 1)
      BY <2>2 DEF Takes
    <3> QED BY <1>1, <3>2, <3>3
  <2> QED BY <2>1, <2>2
<1> QED BY <1>3, <1>4 DEF Takes

BitsTaken(m) == CHOOSE n \in Nat : Takes(m, n)
Counts(f) == f = [n \in Nat |-> IF n = 0 THEN 0 ELSE f[n \div 2] + 1]

(* bit_length counts the bits a number takes.                              *)
LEMMA LengthCounts ==
  ASSUME NEW m \in Nat
  PROVE  FP!bit_length(m) \in Nat /\ Takes(m, FP!bit_length(m))
<1> DEFINE Length == CHOOSE f : Counts(f)
           g == [n \in Nat |-> BitsTaken(n)]
           Right == {n \in Nat : Length[n] = BitsTaken(n)}
<1>1. \A n \in Nat : BitsTaken(n) \in Nat /\ Takes(n, BitsTaken(n))
  BY TakesSome DEF BitsTaken
<1>2. BitsTaken(0) = 0
  <2>1. Takes(0, 0)
    BY DEF Takes
  <2> QED BY <1>1, <2>1, TakesOne
<1>3. ASSUME NEW n \in Nat \ {0} PROVE BitsTaken(n) = BitsTaken(n \div 2) + 1
  <2>1. n \div 2 \in Nat
    OBVIOUS
  <2>2. Takes(n, BitsTaken(n \div 2) + 1)
    BY <1>1, <2>1, TakesHalf
  <2> QED BY <1>1, <2>1, <2>2, TakesOne
<1>4. Counts(g)
  <2>1. \A n \in Nat : g[n] = IF n = 0 THEN 0 ELSE g[n \div 2] + 1
    <3> SUFFICES ASSUME NEW n \in Nat PROVE g[n] = IF n = 0 THEN 0 ELSE g[n \div 2] + 1
      OBVIOUS
    <3>1. n \div 2 \in Nat
      OBVIOUS
    <3> QED BY <1>2, <1>3, <3>1
  <2> QED BY <2>1 DEF Counts
<1>5. Counts(Length)
  <2> HIDE DEF g
  <2> QED BY <1>4, Zenon
<1> HIDE DEF Length
<1>6. Length[0] = 0 /\ \A n \in Nat \ {0} : Length[n] = Length[n \div 2] + 1
  BY <1>5 DEF Counts
<1>7. ASSUME Nat \ Right # {} PROVE FALSE
  <2>1. PICK n \in Nat \ Right : \A k \in Nat \ Right : ~(k < n)
    <3> HIDE DEF Right
    <3> QED BY <1>7, Least
  <2>2. n \in Nat \ {0} /\ n \div 2 \in Nat /\ n \div 2 < n
    BY <1>2, <1>6, <2>1
  <2>3. Length[n \div 2] = BitsTaken(n \div 2)
    BY <2>1, <2>2
  <2> QED BY <1>3, <1>6, <2>1, <2>2, <2>3
<1>8. FP!bit_length(m) = Length[m]
  BY DEF FP!bit_length, Length, Counts
<1>9. Length[m] = BitsTaken(m)
  BY <1>7
<1> QED BY <1>1, <1>8, <1>9

Formats == {FP!F32, FP!F64}
Hidden(fmt) == 2^(fmt.p - 1)
Floats == [kind : {"nan", "inf", "num"}, neg : BOOLEAN, m : Nat, q : Int]

(* The bits of a format: a sign above its exponents above its fractions.   *)
LEMMA FormatFacts ==
  ASSUME NEW fmt \in Formats
  PROVE  /\ fmt.p \in Nat /\ fmt.p > 1 /\ fmt.e \in Nat \ {0} /\ fmt.p <= P2
         /\ Hidden(fmt) \in Nat /\ FP!QUIET(fmt) \in Nat \ {0} /\ Hidden(fmt) = 2 * FP!QUIET(fmt)
         /\ 2^fmt.e \in Nat /\ 2^fmt.e >= 2 /\ 2^(fmt.e - 1) \in Nat \ {0}
         /\ FP!EXP(fmt) = Hidden(fmt) * (2^fmt.e - 1)
         /\ FP!EXP(fmt) \in Nat \ {0} /\ FP!SIGN(fmt) = FP!EXP(fmt) + Hidden(fmt)
         /\ FP!CANON_NAN(fmt) = FP!EXP(fmt) + FP!QUIET(fmt)
<1> DEFINE p == fmt.p
           e == fmt.e
<1>1. p \in Nat /\ p > 1 /\ e \in Nat \ {0} /\ p <= P2
  <2>1. CASE fmt = FP!F32
    <3>1. p = P1 /\ e = E1
      BY <2>1 DEF FP!F32
    <3> HIDE DEF p, e
    <3> QED BY <3>1, FormatAssumption DEF FP!FormatAssumption
  <2>2. CASE fmt = FP!F64
    <3>1. p = P2 /\ e = E2
      BY <2>2 DEF FP!F64
    <3> HIDE DEF p, e
    <3> QED BY <3>1, FormatAssumption DEF FP!FormatAssumption
  <2> QED BY <2>1, <2>2 DEF Formats
<1> HIDE DEF p, e
<1>2. p - 2 \in Nat /\ p - 1 \in Nat /\ (p - 2) + 1 = p - 1 /\ e - 1 \in Nat /\ (e - 1) + 1 = e
  BY <1>1
<1>3. /\ 2^(p - 2) \in Nat \ {0} /\ 2^(p - 1) \in Nat /\ 2^(p - 1) = 2 * 2^(p - 2)
      /\ 2^(e - 1) \in Nat \ {0} /\ 2^e = 2 * 2^(e - 1) /\ 2^e \in Nat
  BY <1>2, PowNext, PowIsNat, <1>1
<1>4. 2^e >= 2
  BY <1>3
<1>5. 2^(p - 1 + e) = 2^(p - 1) * 2^e
  BY <1>1, <1>2, PowSum
<1> DEFINE H == 2^(p - 1)
           X == 2^e
<1>6. H \in Nat /\ H > 0 /\ X \in Nat /\ X >= 2 /\ 2^(p - 1 + e) = H * X
  BY <1>3, <1>4, <1>5
<1> HIDE DEF H, X
<1>7. (X - 1) * H = H * (X - 1) /\ H * (X - 1) \in Nat /\ H * X = H * (X - 1) + H
  BY <1>6
<1>8. H * (X - 1) # 0
  BY <1>6
<1>9. Hidden(fmt) = H /\ FP!SIGN(fmt) = 2^(p - 1 + e) /\ FP!EXP(fmt) = (X - 1) * H /\ FP!QUIET(fmt) = 2^(p - 2)
  BY DEF Hidden, FP!SIGN, FP!EXP, FP!QUIET, p, e, H, X
<1>10. FP!CANON_NAN(fmt) = FP!EXP(fmt) + FP!QUIET(fmt)
  BY DEF FP!CANON_NAN
<1>11. FP!EXP(fmt) = H * (X - 1) /\ FP!EXP(fmt) \in Nat \ {0} /\ FP!SIGN(fmt) = FP!EXP(fmt) + H
  BY <1>6, <1>7, <1>8, <1>9
<1>12. Hidden(fmt) = 2 * FP!QUIET(fmt)
  BY <1>3, <1>9 DEF H
<1>13. fmt.p = p /\ fmt.e = e /\ 2^fmt.e = X
  BY DEF p, e, X
<1> QED BY <1>1, <1>3, <1>6, <1>9, <1>10, <1>11, <1>12, <1>13

(* A pattern is a magnitude, and a sign bit or none.                       *)
LEMMA PatternFacts ==
  ASSUME NEW fmt \in Formats, NEW bits \in FP!Patterns(fmt)
  PROVE  /\ bits \in Nat /\ FP!Abs(fmt, bits) \in 0..(FP!SIGN(fmt) - 1) /\ FP!Abs(fmt, bits) \in Nat
         /\ bits >= FP!SIGN(fmt) => bits = FP!Abs(fmt, bits) + FP!SIGN(fmt) /\ FP!Sign(fmt, bits) = FP!SIGN(fmt)
         /\ bits < FP!SIGN(fmt) => bits = FP!Abs(fmt, bits) /\ FP!Sign(fmt, bits) = 0
         /\ (FP!Abs(fmt, bits) # bits) = (bits >= FP!SIGN(fmt))
<1> DEFINE S == FP!SIGN(fmt)
           a == FP!Abs(fmt, bits)
<1>1. S \in Nat \ {0}
  BY FormatFacts
<1>2. bits \in Nat /\ bits < 2 * S
  BY <1>1 DEF FP!Patterns
<1>3. a = bits % S
  BY DEF FP!Abs
<1>4. bits < S => a = bits
  <2> SUFFICES ASSUME bits < S PROVE a = bits
    OBVIOUS
  <2>1. bits = S * 0 + bits /\ bits \in 0..(S - 1)
    BY <1>1, <1>2
  <2> HIDE DEF S, a
  <2> QED BY <1>1, <1>2, <1>3, <2>1, QuotientIs
<1>5. bits >= S => a = bits - S
  <2> SUFFICES ASSUME bits >= S PROVE a = bits - S
    OBVIOUS
  <2>1. bits = S * 1 + (bits - S) /\ bits - S \in 0..(S - 1)
    BY <1>1, <1>2
  <2> HIDE DEF S, a
  <2> QED BY <1>1, <1>2, <1>3, <2>1, QuotientIs
<1>6. FP!Sign(fmt, bits) = bits - a
  BY DEF FP!Sign
<1> HIDE DEF S, a
<1>7. a \in 0..(S - 1) /\ a \in Nat
  BY <1>1, <1>2, <1>4, <1>5
<1> QED BY <1>1, <1>2, <1>4, <1>5, <1>6, <1>7 DEF S, a

Exponent(fmt, a) == a \div Hidden(fmt)
Fraction(fmt, a) == a % Hidden(fmt)

(* The exponent and the fraction of a magnitude.                           *)
LEMMA FieldFacts ==
  ASSUME NEW fmt \in Formats, NEW a \in 0..(FP!SIGN(fmt) - 1)
  PROVE  /\ Exponent(fmt, a) \in 0..(2^fmt.e - 1) /\ Fraction(fmt, a) \in 0..(Hidden(fmt) - 1)
         /\ a = Hidden(fmt) * Exponent(fmt, a) + Fraction(fmt, a)
         /\ (Exponent(fmt, a) = 2^fmt.e - 1) = (a >= FP!EXP(fmt))
         /\ Exponent(fmt, a) = 2^fmt.e - 1 => (Fraction(fmt, a) = 0) = (a = FP!EXP(fmt))
<1> DEFINE H == Hidden(fmt)
           X == 2^fmt.e
           x == Exponent(fmt, a)
           f == Fraction(fmt, a)
           E == FP!EXP(fmt)
           S == FP!SIGN(fmt)
<1>1. /\ H \in Nat \ {0} /\ X \in Nat /\ X >= 2 /\ E = H * (X - 1) /\ E \in Nat /\ S = E + H
  BY FormatFacts
<1>2. a \in Nat /\ a < S
  BY <1>1
<1>3. x = a \div H /\ f = a % H
  BY DEF Exponent, Fraction
<1> HIDE DEF H, X, x, f, E, S
<1>4. x \in Int /\ f \in 0..(H - 1) /\ a = H * x + f
  BY <1>1, <1>2, <1>3, DivMod
<1>5. x \in 0..(X - 1)
  <2>1. ~(x < 0)
    <3> SUFFICES ASSUME x <= -1 PROVE FALSE
      BY <1>4
    <3>1. H * x <= -H
      BY <1>1, <1>4
    <3> QED BY <1>1, <1>2, <1>4, <3>1
  <2>2. ~(x >= X)
    <3> SUFFICES ASSUME x >= X PROVE FALSE
      OBVIOUS
    <3>1. H * x >= H * X /\ H * X = H * (X - 1) + H
      BY <1>1, <1>4
    <3> QED BY <1>1, <1>2, <1>4, <3>1
  <2> QED BY <1>1, <1>4, <2>1, <2>2
<1>6. x = X - 1 => a = E + f
  BY <1>1, <1>4
<1>7. x # X - 1 => a < E
  <2> SUFFICES ASSUME x <= X - 2 PROVE a < E
    BY <1>1, <1>5
  <2>1. H * x <= H * (X - 2) /\ H * (X - 2) = H * (X - 1) - H
    BY <1>1, <1>5
  <2> QED BY <1>1, <1>4, <2>1
<1>8. (x = X - 1) = (a >= E)
  BY <1>1, <1>4, <1>6, <1>7
<1>9. x = X - 1 => (f = 0) = (a = E)
  BY <1>1, <1>4, <1>6
<1> QED BY <1>4, <1>5, <1>8, <1>9 DEF H, X, x, f, E, S

(* The significand and the exponent of its last bit.                       *)
Significand(fmt, a) ==
  Fraction(fmt, a) + IF Exponent(fmt, a) = 0 THEN 0 ELSE Hidden(fmt)
LastPlace(fmt, a) ==
  (IF Exponent(fmt, a) = 0 THEN 1 ELSE Exponent(fmt, a)) + 1 - (2^(fmt.e - 1) - 1) - fmt.p

(* Both are numbers of their kinds.                                        *)
LEMMA LastPlaceFacts ==
  ASSUME NEW fmt \in Formats, NEW a \in 0..(FP!SIGN(fmt) - 1)
  PROVE  Significand(fmt, a) \in Nat /\ LastPlace(fmt, a) \in Int
<1>1. /\ Fraction(fmt, a) \in Nat /\ Exponent(fmt, a) \in Nat /\ Hidden(fmt) \in Nat
      /\ 2^(fmt.e - 1) \in Nat /\ fmt.p \in Nat
  BY FieldFacts, FormatFacts
<1> QED BY <1>1 DEF Significand, LastPlace

(* What a pattern stands for.                                              *)
LEMMA Unpacked ==
  ASSUME NEW fmt \in Formats, NEW bits \in FP!Patterns(fmt),
         NEW a, a = FP!Abs(fmt, bits), NEW minus, minus = (bits >= FP!SIGN(fmt))
  PROVE  /\ a > FP!EXP(fmt) => FP!b2f(fmt, bits) = FP!Nan
         /\ a = FP!EXP(fmt) => FP!b2f(fmt, bits) = FP!Inf(minus)
         /\ a < FP!EXP(fmt) => FP!b2f(fmt, bits) = FP!Num(minus, Significand(fmt, a), LastPlace(fmt, a))
<1> DEFINE x == Exponent(fmt, a)
           f == Fraction(fmt, a)
           H == Hidden(fmt)
           X == 2^fmt.e
           bias == 2^(fmt.e - 1) - 1
           E == FP!EXP(fmt)
<1>1. a \in 0..(FP!SIGN(fmt) - 1) /\ a \in Nat /\ (a # bits) = minus
  BY PatternFacts
<1>2. FP!b2f(fmt, bits) = IF x = X - 1 THEN IF f = 0 THEN FP!Inf(minus) ELSE FP!Nan
                       ELSE IF x = 0 THEN FP!Num(minus, f, 2 - bias - fmt.p)
                       ELSE FP!Num(minus, f + H, x + 1 - bias - fmt.p)
  BY <1>1 DEF FP!b2f, Exponent, Fraction, Hidden
<1>3. /\ x \in Nat /\ f \in Nat /\ (x = X - 1) = (a >= E) /\ (x = X - 1 => (f = 0) = (a = E))
      /\ X \in Nat /\ X >= 2 /\ E \in Nat /\ bias \in Int /\ fmt.p \in Nat /\ H \in Nat
  BY <1>1, FieldFacts, FormatFacts
<1>4. Significand(fmt, a) = f + IF x = 0 THEN 0 ELSE H
  BY DEF Significand
<1>5. LastPlace(fmt, a) = (IF x = 0 THEN 1 ELSE x) + 1 - bias - fmt.p
  BY DEF LastPlace
<1> HIDE DEF x, f, H, X, bias, E
<1>6. a > E => x = X - 1 /\ f # 0
  BY <1>1, <1>3
<1>7. a = E => x = X - 1 /\ f = 0
  BY <1>1, <1>3
<1>8. a < E => x # X - 1
  BY <1>1, <1>3
<1>9. x = 0 => Significand(fmt, a) = f /\ LastPlace(fmt, a) = 2 - bias - fmt.p
  BY <1>3, <1>4, <1>5
<1>10. x # 0 => Significand(fmt, a) = f + H /\ LastPlace(fmt, a) = x + 1 - bias - fmt.p
  BY <1>4, <1>5
<1>11. a < E => FP!b2f(fmt, bits) = FP!Num(minus, Significand(fmt, a), LastPlace(fmt, a))
  <2>1. CASE x = 0
    BY <1>2, <1>8, <1>9, <2>1
  <2>2. CASE x # 0
    BY <1>2, <1>8, <1>10, <2>2
  <2> QED BY <2>1, <2>2
<1> QED BY <1>2, <1>6, <1>7, <1>11 DEF E

(* A pattern stands for a float, for a NaN where it is one.                *)
LEMMA UnpackedType ==
  ASSUME NEW fmt \in Formats, NEW bits \in FP!Patterns(fmt)
  PROVE  /\ FP!b2f(fmt, bits) \in Floats
         /\ FP!isnan(FP!b2f(fmt, bits)) <=> FP!is_nan(fmt, bits)
         /\ FP!isinf(FP!b2f(fmt, bits)) <=> (FP!Abs(fmt, bits) = FP!EXP(fmt))
         /\ ~FP!is_nan(fmt, bits) => FP!b2f(fmt, bits).neg = (bits >= FP!SIGN(fmt))
<1> DEFINE a == FP!Abs(fmt, bits)
           minus == bits >= FP!SIGN(fmt)
           E == FP!EXP(fmt)
           x == FP!b2f(fmt, bits)
<1>1. a \in Nat /\ E \in Nat /\ minus \in BOOLEAN /\ a \in 0..(FP!SIGN(fmt) - 1)
  BY PatternFacts, FormatFacts
<1>2. FP!is_nan(fmt, bits) <=> a > E
  BY DEF FP!is_nan
<1>3. Significand(fmt, a) \in Nat /\ LastPlace(fmt, a) \in Int
  BY <1>1, LastPlaceFacts
<1>4. /\ a > E => x = FP!Nan
      /\ a = E => x = FP!Inf(minus)
      /\ a < E => x = FP!Num(minus, Significand(fmt, a), LastPlace(fmt, a))
  BY Unpacked
<1> HIDE DEF a, minus, E, x
<1>5. CASE a > E
  <2>1. x = FP!Nan
    BY <1>4, <1>5
  <2>2. x \in Floats /\ FP!isnan(x) /\ ~FP!isinf(x)
    BY <2>1 DEF FP!Nan, Floats, FP!isnan, FP!isinf
  <2>3. FP!is_nan(fmt, bits) /\ ~(a = E)
    BY <1>1, <1>2, <1>5
  <2> QED BY <2>2, <2>3, Zenon DEF x, a, E
<1>6. CASE a = E
  <2>1. x = FP!Inf(minus)
    BY <1>4, <1>6
  <2>2. x \in Floats /\ ~FP!isnan(x) /\ FP!isinf(x) /\ x.neg = minus
    BY <1>1, <2>1 DEF FP!Inf, Floats, FP!isnan, FP!isinf
  <2>3. ~FP!is_nan(fmt, bits)
    BY <1>1, <1>2, <1>6
  <2> QED BY <1>6, <2>2, <2>3, Zenon DEF x, a, E, minus
<1>7. CASE a < E
  <2>1. x = FP!Num(minus, Significand(fmt, a), LastPlace(fmt, a))
    BY <1>4, <1>7
  <2>2. x \in Floats /\ ~FP!isnan(x) /\ ~FP!isinf(x) /\ x.neg = minus
    BY <1>1, <1>3, <2>1 DEF FP!Num, Floats, FP!isnan, FP!isinf
  <2>3. ~FP!is_nan(fmt, bits) /\ ~(a = E)
    BY <1>1, <1>2, <1>7
  <2> QED BY <2>2, <2>3, Zenon DEF x, a, E, minus
<1> QED BY <1>1, <1>5, <1>6, <1>7

(* The floats by kind.                                                     *)
LEMMA FloatFacts ==
  ASSUME NEW x \in Floats
  PROVE  /\ x.neg \in BOOLEAN /\ x.m \in Nat /\ x.q \in Int
         /\ ~(FP!isnan(x) /\ FP!isinf(x)) /\ (FP!iszero(x) => ~FP!isnan(x) /\ ~FP!isinf(x))
         /\ ~FP!isnan(x) /\ ~FP!isinf(x) => (FP!iszero(x) <=> x.m = 0)
         /\ ~FP!isnan(x) /\ ~FP!isinf(x) => x.kind = "num"
  BY DEF Floats, FP!isnan, FP!isinf, FP!iszero

(* What Num, Inf and Nan make.                                             *)
LEMMA Makes ==
  ASSUME NEW n \in BOOLEAN, NEW m \in Nat, NEW q \in Int
  PROVE  /\ FP!Num(n, m, q) \in Floats /\ ~FP!isnan(FP!Num(n, m, q)) /\ ~FP!isinf(FP!Num(n, m, q))
         /\ FP!Num(n, m, q).neg = n /\ FP!Num(n, m, q).m = m /\ FP!Num(n, m, q).q = q
         /\ FP!Inf(n) \in Floats /\ ~FP!isnan(FP!Inf(n)) /\ FP!isinf(FP!Inf(n)) /\ FP!Inf(n).neg = n
         /\ FP!Nan \in Floats /\ FP!isnan(FP!Nan)
  BY DEF Floats, FP!isnan, FP!isinf, FP!Num, FP!Inf, FP!Nan

(* Quotients of naturals are natural.                                      *)
LEMMA QuotientType ==
  ASSUME NEW a \in Nat, NEW b \in Nat \ {0}
  PROVE  a \div b \in Nat /\ a % b \in Nat
<1>1. a \div b \in Int /\ a % b \in 0..(b - 1) /\ a = b * (a \div b) + (a % b)
  BY DivMod
<1> DEFINE q == a \div b
           s == a % b
<1>2. q \in Int /\ s \in 0..(b - 1) /\ a = b * q + s
  BY <1>1
<1> HIDE DEF q, s
<1>3. ~(q <= -1)
  <2> SUFFICES ASSUME q <= -1 PROVE FALSE
    OBVIOUS
  <2>1. b * q <= -b
    BY <1>2
  <2> QED BY <1>2, <2>1
<1> QED BY <1>2, <1>3 DEF q, s

(* Rounding half to even gives a number.                                   *)
LEMMA HalfEvenType ==
  ASSUME NEW m \in Nat, NEW n \in Nat
  PROVE  FP!HalfEven(m, n) \in Nat
<1>1. 2^n \in Nat \ {0}
  BY PowIsNat
<1>2. m \div 2^n \in Nat
  BY <1>1, QuotientType
<1> DEFINE keep == m \div 2^n
<1>3. FP!HalfEven(m, n) \in {0, keep, keep + 1}
  BY DEF FP!HalfEven
<1> HIDE DEF keep
<1>4. keep \in Nat
  BY <1>2 DEF keep
<1> QED BY <1>3, <1>4

(* A packed magnitude is at most the infinity.                             *)
LEMMA PackType ==
  ASSUME NEW fmt \in Formats, NEW x \in Floats
  PROVE  FP!Pack(fmt, x) \in 0..FP!EXP(fmt)
<1> DEFINE low == 3 - 2^(fmt.e - 1) - fmt.p
           top == FP!bit_length(x.m) + x.q - fmt.p
           t == IF top > low THEN top ELSE low
           keep == IF t <= x.q THEN x.m * 2^(x.q - t) ELSE FP!HalfEven(x.m, t - x.q)
           bits == (t - low) * 2^(fmt.p - 1) + keep
           H == 2^(fmt.p - 1)
           E == FP!EXP(fmt)
<1>1. /\ fmt.p \in Nat /\ 2^(fmt.e - 1) \in Nat /\ H \in Nat /\ E \in Nat
      /\ x.m \in Nat /\ x.q \in Int /\ FP!bit_length(x.m) \in Nat
  BY FormatFacts, FloatFacts, LengthCounts DEF Hidden
<1>2. low \in Int /\ top \in Int
  BY <1>1
<1>3. t \in Int /\ t - low \in Nat
  BY <1>2
<1>4. keep \in Nat
  <2> HIDE DEF t
  <2>1. CASE t <= x.q
    <3>1. x.q - t \in Nat
      BY <1>1, <1>3, <2>1
    <3>2. 2^(x.q - t) \in Nat
      BY <3>1, PowIsNat
    <3>3. keep = x.m * 2^(x.q - t)
      BY <2>1
    <3> HIDE DEF keep
    <3> QED BY <1>1, <3>2, <3>3
  <2>2. CASE ~(t <= x.q)
    <3>1. t - x.q \in Nat
      BY <1>1, <1>3, <2>2
    <3>2. keep = FP!HalfEven(x.m, t - x.q)
      BY <2>2
    <3> HIDE DEF keep
    <3> QED BY <1>1, <3>1, <3>2, HalfEvenType
  <2> QED BY <2>1, <2>2
<1>5. bits \in Nat
  <2> HIDE DEF t, low, keep, H
  <2>1. (t - low) * H \in Nat
    BY <1>1, <1>3
  <2>2. bits = (t - low) * H + keep
    BY DEF H
  <2> HIDE DEF bits
  <2> QED BY <1>4, <2>1, <2>2
<1>6. FP!Pack(fmt, x) \in {0, bits, E} /\ (FP!Pack(fmt, x) = bits => ~(bits > E))
  <2>1. FP!Pack(fmt, x) = IF x.m = 0 THEN 0 ELSE IF bits > E THEN E ELSE bits
    BY DEF FP!Pack
  <2> HIDE DEF bits, E
  <2>2. CASE x.m = 0
    BY <2>1, <2>2, <1>5, <1>1
  <2>3. CASE x.m # 0 /\ bits > E
    BY <2>1, <2>3, <1>5, <1>1
  <2>4. CASE x.m # 0 /\ ~(bits > E)
    BY <2>1, <2>4, <1>5, <1>1
  <2> QED BY <2>2, <2>3, <2>4
<1> HIDE DEF bits, E
<1> QED BY <1>1, <1>5, <1>6 DEF E

(* A float as a pattern.                                                   *)
LEMMA Packed ==
  ASSUME NEW fmt \in Formats, NEW x \in Floats
  PROVE  /\ FP!f2b(fmt, x) \in FP!Patterns(fmt)
         /\ FP!is_nan(fmt, FP!f2b(fmt, x)) <=> FP!isnan(x)
         /\ FP!isnan(x) => FP!f2b(fmt, x) = FP!CANON_NAN(fmt)
         /\ ~FP!isnan(x) => (FP!f2b(fmt, x) >= FP!SIGN(fmt) <=> x.neg)
         /\ FP!isinf(x) => FP!Abs(fmt, FP!f2b(fmt, x)) = FP!EXP(fmt)
<1> DEFINE S == FP!SIGN(fmt)
           E == FP!EXP(fmt)
           Q == FP!QUIET(fmt)
           s == IF x.neg THEN S ELSE 0
           k == IF FP!isinf(x) THEN E ELSE FP!Pack(fmt, x)
           b == FP!f2b(fmt, x)
           a == FP!Abs(fmt, b)
<1>1. /\ E \in Nat /\ Q \in Nat \ {0} /\ S = E + 2 * Q /\ FP!CANON_NAN(fmt) = E + Q
      /\ FP!Pack(fmt, x) \in 0..E
  BY FormatFacts, PackType
<1>2. FP!Patterns(fmt) = 0..(2 * S - 1)
  BY DEF FP!Patterns
<1>3. FP!is_nan(fmt, b) <=> a > E
  BY DEF FP!is_nan
<1>4. CASE FP!isnan(x)
  <2>1. b = E + Q
    BY <1>1, <1>4 DEF FP!f2b
  <2> HIDE DEF S, E, Q, b, a
  <2>2. b \in 0..(2 * S - 1) /\ b < S
    BY <1>1, <2>1 DEF E, Q, S
  <2>3. a = b
    <3>1. b \in FP!Patterns(fmt)
      BY <1>2, <2>2
    <3> QED BY <2>2, <3>1, PatternFacts DEF a, S
  <2>4. a > E
    BY <1>1, <2>1, <2>3 DEF E, Q
  <2>5. ~FP!isinf(x)
    BY <1>4, FloatFacts
  <2>6. FP!is_nan(fmt, b) /\ b \in FP!Patterns(fmt) /\ b = FP!CANON_NAN(fmt)
    BY <1>1, <1>2, <1>3, <2>1, <2>2, <2>4 DEF E, Q
  <2> QED BY <1>4, <2>5, <2>6 DEF b
<1>5. CASE ~FP!isnan(x)
  <2>1. b = s + k
    BY <1>5 DEF FP!f2b
  <2>2. k \in 0..E /\ (FP!isinf(x) => k = E)
    BY <1>1
  <2>3. x.neg \in BOOLEAN
    BY FloatFacts
  <2>4. (x.neg => s = S) /\ (~x.neg => s = 0)
    BY <2>3
  <2> HIDE DEF s, k, S, E, Q, b, a
  <2>5. b \in 0..(2 * S - 1) /\ (x.neg => b = S + k) /\ (~x.neg => b = k) /\ k < S
    BY <1>1, <2>1, <2>2, <2>3, <2>4 DEF E, Q, S
  <2>6. b \in FP!Patterns(fmt)
    BY <1>2, <2>5
  <2>7. /\ b >= S => b = a + S
        /\ b < S => b = a
        /\ a \in Nat
    BY <2>6, PatternFacts DEF a, S
  <2>8. a = k /\ (b >= S <=> x.neg) /\ ~(a > E)
    <3>1. S \in Nat /\ S > 0 /\ E \in Nat /\ k \in Nat /\ k <= E /\ b \in Nat
      BY <1>1, <2>2, <2>5 DEF E, Q, S
    <3>2. CASE x.neg
      BY <2>5, <2>7, <3>1, <3>2
    <3>3. CASE ~x.neg
      BY <2>5, <2>7, <3>1, <3>3
    <3> QED BY <3>2, <3>3
  <2>9. ~FP!is_nan(fmt, b) /\ (FP!isinf(x) => a = E)
    BY <1>3, <2>2, <2>8
  <2> QED BY <1>5, <2>6, <2>8, <2>9, Zenon DEF b, S, E, a
<1> QED BY <1>4, <1>5

(* What CPython's rounding to its format keeps.                            *)
LEMMA Coded ==
  ASSUME NEW x \in Floats
  PROVE  /\ FP!PyFloat(x) \in Floats
         /\ FP!isnan(FP!PyFloat(x)) <=> FP!isnan(x)
         /\ ~FP!isnan(x) => FP!PyFloat(x).neg = x.neg
         /\ FP!isinf(x) => FP!isinf(FP!PyFloat(x))
<1> DEFINE b == FP!f2b(FP!F64, x)
           y == FP!b2f(FP!F64, b)
<1>1. FP!F64 \in Formats
  BY DEF Formats
<1>2. /\ b \in FP!Patterns(FP!F64) /\ (FP!is_nan(FP!F64, b) <=> FP!isnan(x))
      /\ ~FP!isnan(x) => (b >= FP!SIGN(FP!F64) <=> x.neg)
      /\ FP!isinf(x) => FP!Abs(FP!F64, b) = FP!EXP(FP!F64)
  BY <1>1, Packed
<1>3. /\ y \in Floats /\ (FP!isnan(y) <=> FP!is_nan(FP!F64, b))
      /\ FP!isinf(y) <=> (FP!Abs(FP!F64, b) = FP!EXP(FP!F64))
      /\ ~FP!is_nan(FP!F64, b) => y.neg = (b >= FP!SIGN(FP!F64))
  BY <1>1, <1>2, UnpackedType
<1>4. FP!PyFloat(x) = y
  BY DEF FP!PyFloat
<1>5. x.neg \in BOOLEAN /\ y.neg \in BOOLEAN
  BY <1>3, FloatFacts
<1> HIDE DEF b, y
<1>6. ~FP!isnan(x) => y.neg = x.neg
  <2> SUFFICES ASSUME ~FP!isnan(x) PROVE y.neg <=> x.neg
    BY <1>5
  <2>1. (b >= FP!SIGN(FP!F64) <=> x.neg) /\ y.neg = (b >= FP!SIGN(FP!F64))
    BY <1>2, <1>3
  <2> QED BY <1>5, <2>1
<1> QED BY <1>2, <1>3, <1>4, <1>6

(* The bound of the sticky bit is a number of places.                      *)
LEMMA FarType == FP!Far \in Nat /\ FP!Far - 2 \in Nat /\ FP!Far \div 2 + 2 \in Nat
<1>1. P2 \in Nat
  BY FormatAssumption DEF FP!FormatAssumption
<1>2. FP!Far \in Nat /\ FP!Far - 2 \in Nat
  BY <1>1 DEF FP!Far
<1>3. FP!Far \div 2 \in Nat
  BY <1>2, QuotientType
<1> QED BY <1>2, <1>3

(* Sums, products and quotients of numbers are floats, and a float with    *)
(* the other sign is one.                                                  *)
LEMMA SignedSumType ==
  ASSUME NEW x \in Floats, NEW y \in Floats, NEW d \in Nat
  PROVE  FP!SignedSum(x, y, d) \in Floats /\ ~FP!isinf(FP!SignedSum(x, y, d))
<1> DEFINE s == (IF x.neg THEN -x.m ELSE x.m) * 2^d + (IF y.neg THEN -y.m ELSE y.m)
           none == FP!Num(x.neg /\ y.neg, 0, 0)
           some == FP!Num(s < 0, IF s < 0 THEN -s ELSE s, x.q - d)
<1>1. x.m \in Nat /\ y.m \in Nat /\ x.q \in Int /\ x.neg \in BOOLEAN /\ y.neg \in BOOLEAN
  BY FloatFacts
<1>2. s \in Int
  <2>1. 2^d \in Int
    BY PowIsNat
  <2>2. (IF x.neg THEN -x.m ELSE x.m) \in Int /\ (IF y.neg THEN -y.m ELSE y.m) \in Int
    BY <1>1
  <2> QED BY <2>1, <2>2
<1>3. none \in Floats /\ ~FP!isinf(none)
  <2> DEFINE both == x.neg /\ y.neg
  <2>1. both \in BOOLEAN
    OBVIOUS
  <2> HIDE DEF both
  <2>2. FP!Num(both, 0, 0) \in Floats /\ ~FP!isinf(FP!Num(both, 0, 0))
    BY <2>1, Makes
  <2> QED BY <2>2 DEF both
<1>4. some \in Floats /\ ~FP!isinf(some)
  <2> HIDE DEF s
  <2>1. (s < 0) \in BOOLEAN /\ (IF s < 0 THEN -s ELSE s) \in Nat /\ x.q - d \in Int
    BY <1>1, <1>2
  <2> QED BY <2>1, Makes
<1>5. FP!SignedSum(x, y, d) \in {none, some}
  BY DEF FP!SignedSum
<1> HIDE DEF none, some
<1> QED BY <1>3, <1>4, <1>5

(* A subtraction adds the number under the other sign.                     *)
LEMMA NegatedType ==
  ASSUME NEW y \in Floats
  PROVE  LET z == [y EXCEPT !.neg = ~y.neg]
         IN  z \in Floats /\ FP!isnan(z) = FP!isnan(y) /\ FP!isinf(z) = FP!isinf(y) /\ z.neg = ~y.neg
  BY DEF Floats, FP!isnan, FP!isinf

(* Exact results are floats: sums, infinities among them,                  *)
LEMMA SumType ==
  ASSUME NEW x \in Floats, NEW y \in Floats
  PROVE  FP!Sum(x, y) \in Floats
<1> DEFINE zero == FP!Num(x.neg /\ y.neg, 0, 0)
           big == IF x.q >= y.q THEN x ELSE y
           small == IF x.q >= y.q THEN y ELSE x
           one == [small EXCEPT !.m = 1]
           near == FP!SignedSum(big, small, big.q - small.q)
           far == FP!SignedSum(big, one, FP!Far \div 2 + 2)
<1>1. x.q \in Int /\ y.q \in Int /\ FP!Nan \in Floats
  BY FloatFacts, Makes
<1>2. zero \in Floats
  <2> DEFINE both == x.neg /\ y.neg
  <2>1. both \in BOOLEAN
    OBVIOUS
  <2> HIDE DEF both
  <2>2. FP!Num(both, 0, 0) \in Floats /\ ~FP!isinf(FP!Num(both, 0, 0))
    BY <2>1, Makes
  <2> QED BY <2>2 DEF both
<1>3. big \in Floats /\ small \in Floats /\ big.q - small.q \in Nat
  <2>1. CASE x.q >= y.q
    BY <1>1, <2>1
  <2>2. CASE ~(x.q >= y.q)
    BY <1>1, <2>2
  <2> QED BY <2>1, <2>2
<1>4. one \in Floats
  <2> HIDE DEF small
  <2> QED BY <1>3 DEF Floats
<1>5. near \in Floats /\ far \in Floats
  <2> HIDE DEF big, small, one
  <2> QED BY <1>3, <1>4, SignedSumType, FarType
<1>6. FP!Sum(x, y) \in {FP!Nan, x, y, zero, near, far}
  BY DEF FP!Sum
<1> HIDE DEF zero, near, far
<1> QED BY <1>1, <1>2, <1>5, <1>6

(* products,                                                               *)
LEMMA ProductType ==
  ASSUME NEW x \in Floats, NEW y \in Floats
  PROVE  FP!Product(x, y) \in Floats
<1> DEFINE minus == x.neg # y.neg
           some == FP!Num(minus, x.m * y.m, x.q + y.q)
           infinite == FP!Inf(minus)
<1>1. x.m \in Nat /\ y.m \in Nat /\ x.q \in Int /\ y.q \in Int
  BY FloatFacts
<1>2. minus \in BOOLEAN /\ x.m * y.m \in Nat /\ x.q + y.q \in Int
  BY <1>1
<1>3. some \in Floats /\ infinite \in Floats /\ FP!Nan \in Floats
  <2> HIDE DEF minus
  <2> QED BY <1>2, Makes
<1>4. FP!Product(x, y) \in {some, infinite, FP!Nan}
  BY DEF FP!Product
<1> HIDE DEF some, infinite
<1> QED BY <1>3, <1>4

(* and quotients.                                                          *)
LEMMA QuotientIsFloat ==
  ASSUME NEW x \in Floats, NEW y \in Floats, ~FP!isnan(y), ~FP!iszero(y)
  PROVE  FP!Quotient(x, y) \in Floats
<1> DEFINE minus == x.neg # y.neg
           n == x.m * 2^(FP!Far - 2)
           some == FP!Num(minus, 2 * (n \div y.m) + (IF n % y.m = 0 THEN 0 ELSE 1), x.q - y.q - FP!Far + 1)
           none == FP!Num(minus, 0, 0)
           infinite == FP!Inf(minus)
<1>1. x.m \in Nat /\ y.m \in Nat /\ x.q \in Int /\ y.q \in Int /\ minus \in BOOLEAN
  BY FloatFacts
<1>2. n \in Nat
  <2>1. 2^(FP!Far - 2) \in Nat
    BY FarType, PowIsNat
  <2> QED BY <1>1, <2>1
<1>3. none \in Floats /\ infinite \in Floats /\ FP!Nan \in Floats
  <2> HIDE DEF minus
  <2> QED BY <1>1, Makes
<1>4. ASSUME ~FP!isinf(y) PROVE some \in Floats
  <2>1. y.m \in Nat \ {0}
    BY <1>1, <1>4, FloatFacts
  <2> HIDE DEF minus, n
  <2>2. n \div y.m \in Nat
    BY <1>2, <2>1, QuotientType
  <2> DEFINE d == n \div y.m
             rest == IF n % y.m = 0 THEN 0 ELSE 1
  <2>3. 2 * d + rest \in Nat
    BY <2>2
  <2>4. x.q - y.q - FP!Far + 1 \in Int
    BY <1>1, FarType
  <2>5. some = FP!Num(minus, 2 * d + rest, x.q - y.q - FP!Far + 1)
    OBVIOUS
  <2> HIDE DEF some, d, rest
  <2> QED BY <1>1, <2>3, <2>4, <2>5, Makes
<1>5. FP!Quotient(x, y) \in {none, infinite, FP!Nan} \/ (~FP!isinf(y) /\ FP!Quotient(x, y) = some)
  BY DEF FP!Quotient
<1> HIDE DEF none, infinite, some
<1> QED BY <1>3, <1>4, <1>5

(* What arithmetic leaves before it is rounded.                            *)
LEMMA ExactType ==
  ASSUME NEW x \in Floats, NEW y \in Floats, NEW op \in FP!Arithmetic,
         op = "div" => ~FP!isnan(y) /\ ~FP!iszero(y)
  PROVE  FP!Exact(op, x, y) \in Floats
<1>1. CASE op = "add"
  BY <1>1, SumType DEF FP!Exact
<1>2. CASE op = "sub"
  <2> DEFINE z == [y EXCEPT !.neg = ~y.neg]
  <2>1. z \in Floats
    BY NegatedType
  <2>2. FP!Exact(op, x, y) = FP!Sum(x, z)
    BY <1>2 DEF FP!Exact
  <2> HIDE DEF z
  <2> QED BY <2>1, <2>2, SumType
<1>3. CASE op = "mul"
  BY <1>3, ProductType DEF FP!Exact
<1>4. CASE op = "div"
  BY <1>4, QuotientIsFloat DEF FP!Exact
<1> QED BY <1>1, <1>2, <1>3, <1>4 DEF FP!Arithmetic

(* A significand has as many bits as its format, and no more than an f64's. *)
LEMMA SignificandFits ==
  ASSUME NEW fmt \in Formats, NEW a \in 0..(FP!SIGN(fmt) - 1)
  PROVE  Significand(fmt, a) < 2^fmt.p /\ 2^fmt.p <= 2^P2 /\ 2^P2 \in Nat
<1>1. fmt.p \in Nat /\ fmt.p - 1 \in Nat /\ (fmt.p - 1) + 1 = fmt.p /\ fmt.p <= P2 /\ P2 \in Nat
  BY FormatFacts, FormatAssumption DEF FP!FormatAssumption
<1>2. 2^fmt.p = 2 * Hidden(fmt) /\ Hidden(fmt) \in Nat /\ 2^P2 \in Nat
  BY <1>1, PowNext, PowIsNat DEF Hidden
<1>3. 2^fmt.p <= 2^P2
  BY <1>1, PowMonotone
<1>4. Fraction(fmt, a) \in 0..(Hidden(fmt) - 1)
  BY FieldFacts
<1> QED BY <1>2, <1>3, <1>4 DEF Significand

(* No significand is longer than an f64's.                                 *)
LEMMA FloatFits ==
  ASSUME NEW fmt \in Formats, NEW bits \in FP!Patterns(fmt)
  PROVE  FP!b2f(fmt, bits).m < 2^P2
<1> DEFINE a == FP!Abs(fmt, bits)
           minus == bits >= FP!SIGN(fmt)
           x == FP!b2f(fmt, bits)
<1>1. a \in 0..(FP!SIGN(fmt) - 1) /\ a \in Nat /\ FP!EXP(fmt) \in Nat /\ minus \in BOOLEAN
  BY PatternFacts, FormatFacts
<1>2. /\ a > FP!EXP(fmt) => x = FP!Nan
      /\ a = FP!EXP(fmt) => x = FP!Inf(minus)
      /\ a < FP!EXP(fmt) => x = FP!Num(minus, Significand(fmt, a), LastPlace(fmt, a))
  BY Unpacked
<1>3. 2^P2 \in Nat \ {0}
  BY FormatAssumption, PowIsNat DEF FP!FormatAssumption
<1>4. /\ Significand(fmt, a) < 2^P2 /\ Significand(fmt, a) \in Nat
  BY <1>1, SignificandFits, LastPlaceFacts, FormatFacts, PowIsNat
<1> HIDE DEF a, minus, x
<1>5. x = FP!Nan => x.m = 0
  BY DEF FP!Nan
<1>6. x = FP!Inf(minus) => x.m = 0
  BY DEF FP!Inf
<1>7. x = FP!Num(minus, Significand(fmt, a), LastPlace(fmt, a)) => x.m = Significand(fmt, a)
  BY DEF FP!Num
<1>8. x.m < 2^P2
  BY <1>1, <1>2, <1>3, <1>4, <1>5, <1>6, <1>7
<1> QED BY <1>8 DEF x

(* Every number below a square has an integer root.                        *)
LEMMA RootExists ==
  ASSUME NEW n \in Nat, NEW k \in Nat \ {0}, n < k * k
  PROVE  \E i \in 0..k : i * i <= n /\ n < (i + 1) * (i + 1)
<1> DEFINE S == {i \in Nat : n < (i + 1) * (i + 1)}
<1>1. k - 1 \in S
  <2>1. k - 1 \in Nat /\ (k - 1) + 1 = k
    OBVIOUS
  <2> QED BY <2>1
<1>2. PICK i \in S : \A j \in S : ~(j < i)
  <2>1. S \in SUBSET Nat /\ S # {}
    BY <1>1
  <2> HIDE DEF S
  <2> QED BY <2>1, Least
<1>3. i \in 0..k
  BY <1>1, <1>2
<1>4. i * i <= n
  <2>1. CASE i = 0
    BY <2>1
  <2>2. CASE i # 0
    <3>1. i - 1 \in Nat /\ i - 1 < i /\ (i - 1) + 1 = i
      BY <2>2
    <3>2. ~(n < ((i - 1) + 1) * ((i - 1) + 1))
      BY <1>2, <3>1
    <3>3. i * i \in Nat /\ ~(n < i * i)
      BY <3>1, <3>2
    <3> QED BY <3>3
  <2> QED BY <2>1, <2>2
<1> QED BY <1>2, <1>3, <1>4

(* A root is a number.                                                     *)
LEMMA RootType ==
  ASSUME NEW x \in Floats, ~FP!isnan(x), x.m < 2^P2
  PROVE  FP!Root(x) \in Floats /\ ~FP!isnan(FP!Root(x))
<1> DEFINE odd == x.q % 2
           e == FP!Far - 2 + odd
           n == x.m * 2^e
           K == (P2 + FP!Far) \div 2
           Is_(i) == i * i <= n /\ n < (i + 1) * (i + 1)
           r0 == CHOOSE i \in 0..2^K : Is_(i)
           m == 2 * r0 + (IF r0 * r0 = n THEN 0 ELSE 1)
           q == (x.q - odd) \div 2 - (FP!Far - 2) \div 2 - 1
           some == FP!Num(FALSE, m, q)
<1>1. x.m \in Nat /\ x.q \in Int /\ P2 \in Nat /\ FP!Far \in Nat /\ FP!Far - 2 \in Nat /\ FP!Far = 2 * P2 + 4
  BY FloatFacts, FarType, FormatAssumption DEF FP!FormatAssumption, FP!Far
<1>2. odd \in 0..1
  BY <1>1
<1>3. e \in Nat /\ e <= FP!Far - 1
  <2> HIDE DEF odd
  <2> QED BY <1>1, <1>2
<1>4. K \in Nat /\ P2 + e <= K + K
  <2> HIDE DEF e
  <2>1. K \in Nat /\ P2 + FP!Far <= 2 * K + 1
    BY <1>1
  <2> HIDE DEF K
  <2> QED BY <1>1, <1>3, <2>1
<1>5. n \in Nat /\ n < 2^K * 2^K
  <2> HIDE DEF e, K
  <2>1. 2^P2 \in Nat /\ 2^e \in Nat \ {0} /\ 2^(P2 + e) = 2^P2 * 2^e
    BY <1>1, <1>3, PowIsNat, PowSum
  <2>2. 2^(P2 + e) <= 2^(K + K)
    BY <1>1, <1>3, <1>4, PowMonotone
  <2>3. 2^(K + K) = 2^K * 2^K /\ 2^(K + K) \in Nat
    BY <1>4, PowSum, PowIsNat
  <2> DEFINE A == 2^P2
             B == 2^e
  <2>4. A \in Nat /\ B \in Nat \ {0} /\ x.m < A
    BY <2>1
  <2>5. n = x.m * B
    OBVIOUS
  <2>6. 2^(P2 + e) = A * B
    BY <2>1
  <2> HIDE DEF A, B, n
  <2>7. x.m * B < A * B /\ x.m * B \in Nat /\ A * B \in Nat
    BY <1>1, <2>4
  <2> QED BY <2>2, <2>3, <2>5, <2>6, <2>7
<1>6. 2^K \in Nat \ {0}
  BY <1>4, PowIsNat
<1>7. r0 \in 0..2^K
  <2> HIDE DEF n, K
  <2>1. \E i \in 0..2^K : Is_(i)
    BY <1>5, <1>6, RootExists
  <2> QED BY <2>1
<1>8. m \in Nat
  <2>1. r0 \in Nat
    BY <1>6, <1>7
  <2> HIDE DEF r0, n
  <2> QED BY <2>1
<1>9. q \in Int
  <2>1. (FP!Far - 2) \div 2 \in Int
    BY <1>1
  <2>2. (x.q - odd) \div 2 \in Int
    <3> HIDE DEF odd
    <3> QED BY <1>1, <1>2
  <2> QED BY <2>1, <2>2
<1>10. FP!Root(x) = IF FP!isinf(x) \/ FP!iszero(x) THEN x ELSE some
  BY DEF FP!Root
<1>11. some \in Floats /\ ~FP!isnan(some)
  <2> HIDE DEF m, q
  <2> QED BY <1>8, <1>9, Makes
<1> HIDE DEF some
<1> QED BY <1>10, <1>11

(* A number with a fraction rounds to an integer.                          *)
LEMMA ToIntegerType ==
  ASSUME NEW x \in Floats, x.q < 0, NEW op
  PROVE  FP!ToInteger(op, x) \in Nat
<1> DEFINE n == -x.q
           down == IF n > FP!bit_length(x.m) THEN 0 ELSE x.m \div 2^n
<1>1. x.m \in Nat /\ n \in Nat
  BY FloatFacts
<1>2. down \in Nat
  <2>1. 2^n \in Nat \ {0}
    BY <1>1, PowIsNat
  <2>2. x.m \div 2^n \in Nat
    BY <1>1, <2>1, QuotientType
  <2> QED BY <2>2
<1>3. FP!HalfEven(x.m, n) \in Nat
  BY <1>1, HalfEvenType
<1>4. FP!ToInteger(op, x) \in {FP!HalfEven(x.m, n), down, down + 1}
  BY DEF FP!ToInteger
<1> HIDE DEF down
<1> QED BY <1>2, <1>3, <1>4

(* Rounding to an integer keeps a number a number.                         *)
LEMMA RoundedType ==
  ASSUME NEW x \in Floats, ~FP!isnan(x), NEW op
  PROVE  FP!_round_int(op, x) \in Floats /\ ~FP!isnan(FP!_round_int(op, x))
<1>1. x.q \in Int /\ x.neg \in BOOLEAN
  BY FloatFacts
<1>2. CASE x.q >= 0
  BY <1>2 DEF FP!_round_int
<1>3. CASE ~(x.q >= 0)
  <2>1. FP!ToInteger(op, x) \in Nat
    BY <1>1, <1>3, ToIntegerType
  <2>2. FP!_round_int(op, x) = FP!Num(x.neg, FP!ToInteger(op, x), 0)
    BY <1>3 DEF FP!_round_int
  <2> QED BY <1>1, <2>1, <2>2, Makes
<1> QED BY <1>2, <1>3

(* An integer is a float.                                                  *)
LEMMA IntegerType ==
  ASSUME NEW v \in Int
  PROVE  FP!Integer(v) \in Floats /\ ~FP!isnan(FP!Integer(v)) /\ ~FP!isinf(FP!Integer(v)) /\ FP!Integer(v).neg = (v < 0)
<1>1. (v < 0) \in BOOLEAN /\ (IF v < 0 THEN -v ELSE v) \in Nat
  OBVIOUS
<1> DEFINE n == v < 0
           m == IF v < 0 THEN -v ELSE v
<1>2. FP!Integer(v) = FP!Num(n, m, 0) /\ n \in BOOLEAN /\ m \in Nat
  BY <1>1 DEF FP!Integer
<1> HIDE DEF n, m
<1>3. FP!Integer(v) \in Floats /\ ~FP!isnan(FP!Integer(v)) /\ ~FP!isinf(FP!Integer(v)) /\ FP!Integer(v).neg = n
  BY <1>2, Makes
<1> QED BY <1>3 DEF n

(* A number below a power takes at most that many bits.                    *)
LEMMA LengthBelow ==
  ASSUME NEW m \in Nat, NEW k \in Nat, m < 2^k
  PROVE  FP!bit_length(m) <= k
<1> DEFINE n == FP!bit_length(m)
<1>1. n \in Nat /\ Takes(m, n)
  BY LengthCounts
<1> HIDE DEF n
<1>2. ~(n > k)
  <2> SUFFICES ASSUME n > k PROVE FALSE
    OBVIOUS
  <2>1. n - 1 \in Nat /\ n # 0 /\ k <= n - 1
    BY <1>1
  <2>2. 2^k <= 2^(n - 1) /\ 2^k \in Nat /\ 2^(n - 1) \in Nat
    BY <2>1, PowMonotone, PowIsNat
  <2>3. m >= 2^(n - 1)
    BY <1>1, <2>1 DEF Takes
  <2> QED BY <2>2, <2>3
<1> QED BY <1>1, <1>2 DEF n

(* A longer number is larger.                                              *)
LEMMA LengthMonotone ==
  ASSUME NEW m \in Nat, NEW n \in Nat, m <= n
  PROVE  FP!bit_length(m) <= FP!bit_length(n)
<1>1. FP!bit_length(n) \in Nat /\ n < 2^FP!bit_length(n) /\ 2^FP!bit_length(n) \in Nat
  BY LengthCounts, PowIsNat DEF Takes
<1>2. m < 2^FP!bit_length(n)
  BY <1>1
<1> QED BY <1>1, <1>2, LengthBelow

(* A normal number's significand has all its bits, a subnormal one's       *)
(* fewer.                                                                  *)
LEMMA SignificandLength ==
  ASSUME NEW fmt \in Formats, NEW a \in 0..(FP!SIGN(fmt) - 1)
  PROVE  LET l == FP!bit_length(Significand(fmt, a))
         IN  /\ l \in Nat
             /\ Exponent(fmt, a) # 0 => l = fmt.p
             /\ Exponent(fmt, a) = 0 => l <= fmt.p - 1
<1> DEFINE m == Significand(fmt, a)
           l == FP!bit_length(m)
           p == fmt.p
           H == Hidden(fmt)
<1>1. /\ p \in Nat /\ p - 1 \in Nat /\ p # 0 /\ H = 2^(p - 1) /\ H \in Nat
      /\ Fraction(fmt, a) \in 0..(H - 1)
  BY FormatFacts, FieldFacts DEF Hidden
<1>2. m \in Nat /\ m < 2^p
  BY LastPlaceFacts, SignificandFits
<1>3. m = Fraction(fmt, a) + IF Exponent(fmt, a) = 0 THEN 0 ELSE H
  BY DEF Significand
<1>4. l \in Nat /\ Takes(m, l)
  BY <1>2, LengthCounts
<1> HIDE DEF m, l, p, H
<1>5. ASSUME Exponent(fmt, a) # 0 PROVE l = p
  <2>1. m >= 2^(p - 1)
    BY <1>1, <1>3, <1>5
  <2>2. Takes(m, p)
    BY <1>2, <2>1 DEF Takes
  <2> QED BY <1>1, <1>2, <1>4, <2>2, TakesOne
<1>6. ASSUME Exponent(fmt, a) = 0 PROVE l <= p - 1
  <2>1. m < 2^(p - 1)
    BY <1>1, <1>3, <1>6
  <2> QED BY <1>1, <1>2, <2>1, LengthBelow DEF l
<1> QED BY <1>4, <1>5, <1>6 DEF l, m, p

(* Numbers at one place compare as their significands do.                  *)
LEMMA CmpAtOnePlace ==
  ASSUME NEW m \in Nat, NEW n \in Nat, NEW q \in Int
  PROVE  /\ m < n => FP!Cmp(m, q, n, q) = -1
         /\ m = n => FP!Cmp(m, q, n, q) = 0
         /\ m > n => FP!Cmp(m, q, n, q) = 1
<1> DEFINE d1 == FP!bit_length(m) + q
           d2 == FP!bit_length(n) + q
<1>1. FP!Cmp(m, q, n, q) = IF m = 0 \/ n = 0 THEN (IF m = n THEN 0 ELSE IF m = 0 THEN -1 ELSE 1)
                        ELSE IF d1 # d2 THEN IF d1 < d2 THEN -1 ELSE 1
                        ELSE IF m = n THEN 0 ELSE IF m < n THEN -1 ELSE 1
  BY DEF FP!Cmp
<1>2. /\ FP!bit_length(m) \in Nat /\ FP!bit_length(n) \in Nat
      /\ m <= n => FP!bit_length(m) <= FP!bit_length(n)
      /\ n <= m => FP!bit_length(n) <= FP!bit_length(m)
  BY LengthCounts, LengthMonotone
<1>3. /\ d1 \in Int /\ d2 \in Int /\ (m <= n => d1 <= d2) /\ (n <= m => d2 <= d1)
  BY <1>2
<1> HIDE DEF d1, d2
<1> QED BY <1>1, <1>3

(* Otherwise as far as their highest bits go.                              *)
LEMMA CmpByLength ==
  ASSUME NEW m \in Nat \ {0}, NEW n \in Nat \ {0}, NEW q \in Int, NEW s \in Int,
         FP!bit_length(m) + q < FP!bit_length(n) + s
  PROVE  FP!Cmp(m, q, n, s) = -1 /\ FP!Cmp(n, s, m, q) = 1
<1> DEFINE d1 == FP!bit_length(m) + q
           d2 == FP!bit_length(n) + s
<1>1. d1 \in Int /\ d2 \in Int /\ d1 < d2 /\ m # 0 /\ n # 0
  BY LengthCounts
<1>2. /\ m # 0 /\ n # 0 /\ d1 # d2 => FP!Cmp(m, q, n, s) = IF d1 < d2 THEN -1 ELSE 1
      /\ m # 0 /\ n # 0 /\ d2 # d1 => FP!Cmp(n, s, m, q) = IF d2 < d1 THEN -1 ELSE 1
  BY DEF FP!Cmp
<1> HIDE DEF d1, d2
<1> QED BY <1>1, <1>2

(* The smaller magnitude has the lower highest bit, or the same place and  *)
(* the smaller significand.                                                *)
LEMMA MagnitudesGrow ==
  ASSUME NEW fmt \in Formats, NEW a \in 0..(FP!SIGN(fmt) - 1), NEW b \in 0..(FP!SIGN(fmt) - 1), a < b
  PROVE  LET m == Significand(fmt, a)
             n == Significand(fmt, b)
             q == LastPlace(fmt, a)
             s == LastPlace(fmt, b)
         IN  \/ FP!bit_length(m) + q < FP!bit_length(n) + s
             \/ q = s /\ m < n
<1> DEFINE H == Hidden(fmt)
           x == Exponent(fmt, a)
           y == Exponent(fmt, b)
           f == Fraction(fmt, a)
           g == Fraction(fmt, b)
           m == Significand(fmt, a)
           n == Significand(fmt, b)
           q == LastPlace(fmt, a)
           s == LastPlace(fmt, b)
           p == fmt.p
           c == 1 - (2^(fmt.e - 1) - 1) - p
           k == FP!bit_length(m)
           l == FP!bit_length(n)
<1>1. H \in Nat /\ p \in Nat /\ p - 1 \in Nat /\ 2^(fmt.e - 1) \in Nat
  BY FormatFacts
<1>2. c \in Int /\ a \in Nat /\ b \in Nat
  BY <1>1, FormatFacts
<1>3. /\ x \in Nat /\ f \in 0..(H - 1) /\ a = H * x + f
      /\ y \in Nat /\ g \in 0..(H - 1) /\ b = H * y + g
  BY FieldFacts
<1>4. /\ m = f + (IF x = 0 THEN 0 ELSE H) /\ n = g + (IF y = 0 THEN 0 ELSE H)
  BY DEF Significand
<1>5. /\ q = (IF x = 0 THEN 1 ELSE x) + c /\ s = (IF y = 0 THEN 1 ELSE y) + c
  <2>1. q = (IF x = 0 THEN 1 ELSE x) + 1 - (2^(fmt.e - 1) - 1) - p
    BY DEF LastPlace
  <2>2. s = (IF y = 0 THEN 1 ELSE y) + 1 - (2^(fmt.e - 1) - 1) - p
    BY DEF LastPlace
  <2> HIDE DEF q, s, p, x, y
  <2> QED BY <1>1, <1>3, <2>1, <2>2
<1>6. /\ k \in Nat /\ (x # 0 => k = p) /\ (x = 0 => k <= p - 1)
      /\ l \in Nat /\ (y # 0 => l = p)
  BY SignificandLength
<1> HIDE DEF H, x, y, f, g, m, n, q, s, p, c, k, l
<1>7. x <= y
  <2> SUFFICES ASSUME y + 1 <= x PROVE FALSE
    BY <1>3
  <2>1. H * (y + 1) <= H * x /\ H * (y + 1) = H * y + H
    BY <1>1, <1>3
  <2> QED BY <1>1, <1>3, <2>1
<1>8. CASE x = y
  <2>1. f < g
    BY <1>1, <1>3, <1>8
  <2>2. q = s /\ m < n
    BY <1>1, <1>3, <1>4, <1>5, <1>8, <2>1
  <2> QED BY <2>2 DEF m, n, q, s
<1>9. CASE x # y
  <2>1. y # 0 /\ x < y
    BY <1>3, <1>7, <1>9
  <2>2. l + s = p + y + c
    BY <1>1, <1>2, <1>3, <1>5, <1>6, <2>1
  <2>3. k + q < p + y + c
    <3>1. CASE x = 0
      BY <1>1, <1>2, <1>3, <1>5, <1>6, <2>1, <3>1
    <3>2. CASE x # 0
      BY <1>1, <1>2, <1>3, <1>5, <1>6, <2>1, <3>2
    <3> QED BY <3>1, <3>2
  <2>4. k + q < l + s
    BY <2>2, <2>3
  <2> QED BY <2>4 DEF k, l, m, n, q, s
<1> QED BY <1>8, <1>9

(* A number is zero if its pattern is, up to the sign.                     *)
LEMMA ZeroPattern ==
  ASSUME NEW fmt \in Formats, NEW a \in 0..(FP!SIGN(fmt) - 1)
  PROVE  (Significand(fmt, a) = 0) <=> (a = 0)
<1> DEFINE H == Hidden(fmt)
           x == Exponent(fmt, a)
           f == Fraction(fmt, a)
           m == Significand(fmt, a)
<1>1. H \in Nat \ {0} /\ x \in Nat /\ f \in 0..(H - 1) /\ a = H * x + f /\ a \in Nat
  BY FormatFacts, FieldFacts
<1>2. m = f + (IF x = 0 THEN 0 ELSE H)
  BY DEF Significand
<1> HIDE DEF H, x, f, m
<1>3. m = 0 <=> x = 0 /\ f = 0
  BY <1>1, <1>2
<1>4. x # 0 => H * x >= H
  BY <1>1
<1>5. a = 0 <=> x = 0 /\ f = 0
  BY <1>1, <1>4
<1> QED BY <1>3, <1>5 DEF m

(* Numbers of a format compare as their patterns do.                       *)
LEMMA PatternsCompare ==
  ASSUME NEW fmt \in Formats, NEW a \in 0..(FP!SIGN(fmt) - 1), NEW b \in 0..(FP!SIGN(fmt) - 1)
  PROVE  LET c == FP!Cmp(Significand(fmt, a), LastPlace(fmt, a), Significand(fmt, b), LastPlace(fmt, b))
         IN  /\ a < b => c = -1
             /\ a = b => c = 0
             /\ a > b => c = 1
<1> DEFINE m == Significand(fmt, a)
           n == Significand(fmt, b)
           q == LastPlace(fmt, a)
           s == LastPlace(fmt, b)
           c == FP!Cmp(m, q, n, s)
<1>1. m \in Nat /\ n \in Nat /\ q \in Int /\ s \in Int /\ a \in Nat /\ b \in Nat
  BY LastPlaceFacts, FormatFacts
<1>2. (m = 0 <=> a = 0) /\ (n = 0 <=> b = 0)
  BY ZeroPattern
<1>3. /\ a < b => FP!bit_length(m) + q < FP!bit_length(n) + s \/ (q = s /\ m < n)
      /\ b < a => FP!bit_length(n) + s < FP!bit_length(m) + q \/ (s = q /\ n < m)
  BY MagnitudesGrow
<1>4. a = b => m = n /\ q = s
  OBVIOUS
<1>5. m = 0 \/ n = 0 => c = IF m = n THEN 0 ELSE IF m = 0 THEN -1 ELSE 1
  BY DEF FP!Cmp
<1> HIDE DEF m, n, q, s
<1>6. ASSUME a < b PROVE c = -1
  <2>1. CASE m = 0
    BY <1>1, <1>2, <1>5, <1>6, <2>1
  <2>2. CASE m # 0 /\ q = s /\ m < n
    BY <1>1, <2>2, CmpAtOnePlace
  <2>3. CASE m # 0 /\ FP!bit_length(m) + q < FP!bit_length(n) + s
    <3>1. m \in Nat \ {0} /\ n \in Nat \ {0}
      BY <1>1, <1>2, <1>6, <2>3
    <3> QED BY <1>1, <2>3, <3>1, CmpByLength
  <2> QED BY <1>3, <1>6, <2>1, <2>2, <2>3
<1>7. ASSUME a > b PROVE c = 1
  <2>0. b < a
    BY <1>1, <1>7
  <2>1. CASE n = 0
    BY <1>1, <1>2, <1>5, <2>0, <2>1
  <2>2. CASE n # 0 /\ q = s /\ n < m
    BY <1>1, <2>2, CmpAtOnePlace
  <2>3. CASE n # 0 /\ FP!bit_length(n) + s < FP!bit_length(m) + q
    <3>1. m \in Nat \ {0} /\ n \in Nat \ {0}
      BY <1>1, <1>2, <2>0, <2>3
    <3> QED BY <1>1, <2>3, <3>1, CmpByLength
  <2> QED BY <1>3, <2>0, <2>1, <2>2, <2>3
<1>8. ASSUME a = b PROVE c = 0
  BY <1>1, <1>4, <1>8, CmpAtOnePlace
<1> QED BY <1>6, <1>7, <1>8 DEF m, n, q, s

(* Magnitudes, infinities with them, compare as the patterns do.           *)
LEMMA MagnitudesCompare ==
  ASSUME NEW fmt \in Formats, NEW u \in FP!Patterns(fmt), NEW v \in FP!Patterns(fmt),
         ~FP!is_nan(fmt, u), ~FP!is_nan(fmt, v)
  PROVE  LET c == FP!Magnitude(FP!b2f(fmt, u), FP!b2f(fmt, v))
         IN  /\ FP!Abs(fmt, u) < FP!Abs(fmt, v) => c = -1
             /\ FP!Abs(fmt, u) = FP!Abs(fmt, v) => c = 0
             /\ FP!Abs(fmt, u) > FP!Abs(fmt, v) => c = 1
<1> DEFINE a == FP!Abs(fmt, u)
           b == FP!Abs(fmt, v)
           x == FP!b2f(fmt, u)
           y == FP!b2f(fmt, v)
           E == FP!EXP(fmt)
           c == FP!Magnitude(x, y)
           su == u >= FP!SIGN(fmt)
           sv == v >= FP!SIGN(fmt)
<1>1. /\ a \in 0..(FP!SIGN(fmt) - 1) /\ b \in 0..(FP!SIGN(fmt) - 1) /\ a \in Nat /\ b \in Nat /\ E \in Nat
      /\ ~(a > E) /\ ~(b > E)
  BY PatternFacts, FormatFacts DEF FP!is_nan
<1>2. (FP!isinf(x) <=> a = E) /\ (FP!isinf(y) <=> b = E)
  BY UnpackedType
<1>3. c = IF FP!isinf(x) \/ FP!isinf(y) THEN (IF FP!isinf(x) = FP!isinf(y) THEN 0 ELSE IF FP!isinf(y) THEN -1 ELSE 1)
          ELSE FP!Cmp(x.m, x.q, y.m, y.q)
  BY DEF FP!Magnitude
<1>4. CASE a = E \/ b = E
  <2> HIDE DEF a, b, x, y, E, c
  <2>1. CASE a = E /\ b = E
    <3>1. FP!isinf(x) = FP!isinf(y)
      BY <1>2, <2>1
    <3> QED BY <1>1, <1>2, <1>3, <2>1, <3>1 DEF a, b, x, y, c
  <2>2. CASE a # E /\ b = E
    <3>1. ~FP!isinf(x) /\ FP!isinf(y) /\ a < b
      BY <1>1, <1>2, <2>2
    <3>2. c = -1
      BY <1>3, <3>1
    <3> QED BY <1>1, <3>1, <3>2 DEF a, b, x, y, c
  <2>3. CASE a = E /\ b # E
    <3>1. FP!isinf(x) /\ ~FP!isinf(y) /\ b < a
      BY <1>1, <1>2, <2>3
    <3>2. c = 1
      BY <1>3, <3>1
    <3> QED BY <1>1, <3>1, <3>2 DEF a, b, x, y, c
  <2> QED BY <1>4, <2>1, <2>2, <2>3
<1>5. CASE a # E /\ b # E
  <2>1. a < E /\ b < E
    BY <1>1, <1>5
  <2>2. x = FP!Num(su, Significand(fmt, a), LastPlace(fmt, a))
    BY <2>1, Unpacked
  <2>3. y = FP!Num(sv, Significand(fmt, b), LastPlace(fmt, b))
    BY <2>1, Unpacked
  <2>4. x.m = Significand(fmt, a) /\ x.q = LastPlace(fmt, a)
    BY <2>2 DEF FP!Num
  <2>5. y.m = Significand(fmt, b) /\ y.q = LastPlace(fmt, b)
    BY <2>3 DEF FP!Num
  <2>6. c = FP!Cmp(Significand(fmt, a), LastPlace(fmt, a), Significand(fmt, b), LastPlace(fmt, b))
    BY <1>2, <1>3, <1>5, <2>4, <2>5
  <2>7. /\ a < b => c = -1
        /\ a = b => c = 0
        /\ a > b => c = 1
    BY <1>1, <2>6, PatternsCompare
  <2> HIDE DEF a, b, x, y, E, c
  <2> QED BY <2>7 DEF a, b, x, y, c
<1> QED BY <1>4, <1>5

(* A pattern is a zero if its magnitude is nothing.                        *)
LEMMA ZeroUnpacked ==
  ASSUME NEW fmt \in Formats, NEW u \in FP!Patterns(fmt)
  PROVE  FP!iszero(FP!b2f(fmt, u)) <=> FP!Abs(fmt, u) = 0
<1> DEFINE a == FP!Abs(fmt, u)
           x == FP!b2f(fmt, u)
           E == FP!EXP(fmt)
           su == u >= FP!SIGN(fmt)
<1>1. a \in 0..(FP!SIGN(fmt) - 1) /\ a \in Nat /\ E \in Nat \ {0}
  BY PatternFacts, FormatFacts
<1>2. CASE a < E
  <2>1. x = FP!Num(su, Significand(fmt, a), LastPlace(fmt, a))
    BY <1>2, Unpacked
  <2>2. FP!iszero(x) <=> Significand(fmt, a) = 0
    BY <2>1 DEF FP!Num, FP!iszero
  <2> QED BY <1>1, <2>2, ZeroPattern
<1>3. CASE a >= E
  <2>1. x \in Floats /\ (FP!isnan(x) \/ FP!isinf(x))
    BY <1>1, <1>3, UnpackedType DEF FP!is_nan
  <2>2. ~FP!iszero(x) /\ a # 0
    BY <1>1, <1>3, <2>1, FloatFacts
  <2> QED BY <2>2
<1> QED BY <1>1, <1>2, <1>3

(* A pattern's position in the order, the zeros at one.                  *)
Position(fmt, u) == IF u >= FP!SIGN(fmt) THEN -(FP!Abs(fmt, u)) ELSE u

(* Less and Equal are the order of the positions.                          *)
LEMMA PatternsOrder ==
  ASSUME NEW fmt \in Formats, NEW u \in FP!Patterns(fmt), NEW v \in FP!Patterns(fmt),
         ~FP!is_nan(fmt, u), ~FP!is_nan(fmt, v)
  PROVE  /\ Position(fmt, u) \in Int /\ Position(fmt, v) \in Int
         /\ FP!Less(FP!b2f(fmt, u), FP!b2f(fmt, v)) <=> Position(fmt, u) < Position(fmt, v)
         /\ FP!Equal(FP!b2f(fmt, u), FP!b2f(fmt, v)) <=> Position(fmt, u) = Position(fmt, v)
<1> DEFINE a == FP!Abs(fmt, u)
           b == FP!Abs(fmt, v)
           x == FP!b2f(fmt, u)
           y == FP!b2f(fmt, v)
           c == FP!Magnitude(x, y)
           k == Position(fmt, u)
           l == Position(fmt, v)
           su == u >= FP!SIGN(fmt)
           sv == v >= FP!SIGN(fmt)
           zero == FP!iszero(x) /\ FP!iszero(y)
<1>1. a \in Nat /\ b \in Nat
  BY PatternFacts
<1>2. k = (IF su THEN -a ELSE a) /\ l = (IF sv THEN -b ELSE b)
  <2>1. (su => k = -a) /\ (~su => k = u) /\ (sv => l = -b) /\ (~sv => l = v)
    BY DEF Position
  <2>2. u \in Nat /\ v \in Nat /\ FP!SIGN(fmt) \in Nat
    BY PatternFacts, FormatFacts
  <2>3. (~su => u = a) /\ (~sv => v = b)
    BY <2>2, PatternFacts
  <2> HIDE DEF su, sv, a, b, k, l
  <2> QED BY <2>1, <2>3
<1>3. /\ a < b => c = -1
      /\ a = b => c = 0
      /\ a > b => c = 1
  BY MagnitudesCompare
<1>4. zero <=> a = 0 /\ b = 0
  BY ZeroUnpacked
<1>5. ~FP!isnan(x) /\ ~FP!isnan(y) /\ (x.neg <=> su) /\ (y.neg <=> sv)
  BY UnpackedType
<1>6. FP!Less(x, y) <=> ~zero /\ IF ~(su <=> sv) THEN su ELSE IF su THEN c > 0 ELSE c < 0
  <2>0. x \in Floats /\ y \in Floats
    BY UnpackedType
  <2>1. x.neg \in BOOLEAN /\ y.neg \in BOOLEAN
    BY <2>0, FloatFacts
  <2>2. FP!Less(x, y) <=> ~zero /\ IF x.neg # y.neg THEN x.neg ELSE IF x.neg THEN c > 0 ELSE c < 0
    BY <1>5 DEF FP!Less
  <2> HIDE DEF x, y, c, su, sv, zero
  <2> QED BY <1>5, <2>1, <2>2
<1>7. FP!Equal(x, y) <=> zero \/ ((su <=> sv) /\ c = 0)
  <2>0. x \in Floats /\ y \in Floats
    BY UnpackedType
  <2>1. x.neg \in BOOLEAN /\ y.neg \in BOOLEAN
    BY <2>0, FloatFacts
  <2>2. FP!Equal(x, y) <=> zero \/ (x.neg = y.neg /\ c = 0)
    BY <1>5 DEF FP!Equal
  <2> HIDE DEF x, y, c, su, sv, zero
  <2> QED BY <1>5, <2>1, <2>2
<1> HIDE DEF a, b, x, y, c, k, l, su, sv, zero
<1>8. k \in Int /\ l \in Int
  BY <1>1, <1>2
<1>9. c \in {-1, 0, 1}
  BY <1>1, <1>3
<1>10. FP!Less(x, y) <=> k < l
  <2>1. CASE su /\ sv
    <3>1. k = -a /\ l = -b /\ (FP!Less(x, y) <=> ~zero /\ c > 0)
      BY <1>2, <1>6, <2>1
    <3> QED BY <1>1, <1>3, <1>4, <1>9, <3>1
  <2>2. CASE su /\ ~sv
    <3>1. k = -a /\ l = b /\ (FP!Less(x, y) <=> ~zero)
      BY <1>2, <1>6, <2>2
    <3> QED BY <1>1, <1>4, <3>1
  <2>3. CASE ~su /\ sv
    <3>1. k = a /\ l = -b /\ ~FP!Less(x, y)
      BY <1>2, <1>6, <2>3
    <3> QED BY <1>1, <1>4, <3>1
  <2>4. CASE ~su /\ ~sv
    <3>1. k = a /\ l = b /\ (FP!Less(x, y) <=> ~zero /\ c < 0)
      BY <1>2, <1>6, <2>4
    <3> QED BY <1>1, <1>3, <1>4, <1>9, <3>1
  <2> QED BY <2>1, <2>2, <2>3, <2>4
<1>11. FP!Equal(x, y) <=> k = l
  <2>1. CASE su /\ sv
    <3>1. k = -a /\ l = -b /\ (FP!Equal(x, y) <=> zero \/ c = 0)
      BY <1>2, <1>7, <2>1
    <3> QED BY <1>1, <1>3, <1>4, <1>9, <3>1
  <2>2. CASE su /\ ~sv
    <3>1. k = -a /\ l = b /\ (FP!Equal(x, y) <=> zero)
      BY <1>2, <1>7, <2>2
    <3> QED BY <1>1, <1>4, <3>1
  <2>3. CASE ~su /\ sv
    <3>1. k = a /\ l = -b /\ (FP!Equal(x, y) <=> zero)
      BY <1>2, <1>7, <2>3
    <3> QED BY <1>1, <1>4, <3>1
  <2>4. CASE ~su /\ ~sv
    <3>1. k = a /\ l = b /\ (FP!Equal(x, y) <=> zero \/ c = 0)
      BY <1>2, <1>7, <2>4
    <3> QED BY <1>1, <1>3, <1>4, <1>9, <3>1
  <2> QED BY <2>1, <2>2, <2>3, <2>4
<1> QED BY <1>8, <1>10, <1>11 DEF x, y, k, l

(* The canonical NaN is a NaN, and an arithmetic one.                      *)
LEMMA CanonFacts ==
  ASSUME NEW fmt \in Formats
  PROVE  /\ FP!CANON_NAN(fmt) \in FP!Patterns(fmt) /\ FP!Abs(fmt, FP!CANON_NAN(fmt)) = FP!CANON_NAN(fmt)
         /\ FP!is_nan(fmt, FP!CANON_NAN(fmt)) /\ FP!is_canonical_nan(fmt, FP!CANON_NAN(fmt))
         /\ FP!is_arithmetic_nan(fmt, FP!CANON_NAN(fmt))
<1> DEFINE c == FP!CANON_NAN(fmt)
           S == FP!SIGN(fmt)
           H == Hidden(fmt)
           Q == FP!QUIET(fmt)
           E == FP!EXP(fmt)
<1>1. /\ H \in Nat /\ Q \in Nat \ {0} /\ H = 2 * Q /\ E \in Nat \ {0} /\ S = E + H /\ c = E + Q
  BY FormatFacts
<1>2. FP!Patterns(fmt) = 0..(2 * S - 1)
  BY DEF FP!Patterns
<1>3. FP!Abs(fmt, c) = c % S
  BY DEF FP!Abs
<1> HIDE DEF c, S, H, Q, E
<1>4. c \in 0..(2 * S - 1) /\ c < S /\ c \in Nat /\ S \in Nat \ {0} /\ c > E
  BY <1>1
<1>5. c % S = c
  BY <1>4
<1>6. FP!Abs(fmt, c) = c
  BY <1>3, <1>5
<1> QED BY <1>2, <1>4, <1>6 DEF c, S, E, FP!is_nan, FP!is_canonical_nan, FP!is_arithmetic_nan

(* A result that is no number is the canonical NaN.                        *)
Canonical(fmt, bits, undefined) ==
  /\ bits \in FP!Patterns(fmt)
  /\ FP!is_nan(fmt, bits) <=> undefined
  /\ undefined => bits = FP!CANON_NAN(fmt)

(* Packing, once or by way of an f64, makes no other NaN than that.        *)
LEMMA PackedIsCanonical ==
  ASSUME NEW fmt \in Formats, NEW x \in Floats
  PROVE  Canonical(fmt, FP!f2b(fmt, x), FP!isnan(x)) /\ Canonical(fmt, FP!f2b(fmt, FP!PyFloat(x)), FP!isnan(x))
<1>1. FP!PyFloat(x) \in Floats /\ (FP!isnan(FP!PyFloat(x)) <=> FP!isnan(x))
  BY Coded
<1> QED BY <1>1, Packed DEF Canonical

(* An infinity packs and unpacks as it is.                                 *)
LEMMA InfinityPacked ==
  ASSUME NEW fmt \in Formats, NEW n \in BOOLEAN
  PROVE  FP!b2f(fmt, FP!f2b(fmt, FP!Inf(n))) = FP!Inf(n)
<1> DEFINE x == FP!Inf(n)
           u == FP!f2b(fmt, x)
           minus == u >= FP!SIGN(fmt)
<1>1. x \in Floats /\ FP!isinf(x) /\ ~FP!isnan(x) /\ x.neg = n
  BY Makes
<1>2. u \in FP!Patterns(fmt) /\ (minus <=> n) /\ FP!Abs(fmt, u) = FP!EXP(fmt)
  BY <1>1, Packed
<1>3. FP!b2f(fmt, u) = FP!Inf(minus)
  BY <1>2, Unpacked
<1>4. minus = n
  <2>1. minus \in BOOLEAN
    OBVIOUS
  <2> HIDE DEF minus
  <2> QED BY <1>2, <2>1
<1> HIDE DEF u, minus
<1> QED BY <1>3, <1>4 DEF u

(* add, sub, mul, div.                                                     *)
LEMMA BinopResult ==
  ASSUME NEW fmt \in Formats, NEW op \in FP!Arithmetic, NEW u \in FP!Patterns(fmt), NEW v \in FP!Patterns(fmt)
  PROVE  LET a == FP!b2f(fmt, u)
             b == FP!b2f(fmt, v)
             zero == op = "div" /\ FP!iszero(b)
             res == FP!binop(fmt, op, u, v)
         IN  /\ Canonical(fmt, res, FP!isnan(a) \/ FP!isnan(b) \/ (~zero /\ FP!isnan(FP!Exact(op, a, b)))
                                    \/ (zero /\ FP!iszero(a)))
             /\ ~FP!isnan(a) /\ ~FP!isnan(b) /\ zero /\ ~FP!iszero(a) =>
                  FP!b2f(fmt, res) = FP!Inf((u >= FP!SIGN(fmt)) # (v >= FP!SIGN(fmt)))
<1> DEFINE a == FP!b2f(fmt, u)
           b == FP!b2f(fmt, v)
           zero == op = "div" /\ FP!iszero(b)
           res == FP!binop(fmt, op, u, v)
           su == u >= FP!SIGN(fmt)
           sv == v >= FP!SIGN(fmt)
<1>1. a \in Floats /\ b \in Floats
  BY UnpackedType
<1>2. res = IF FP!isnan(a) \/ FP!isnan(b) THEN FP!CANON_NAN(fmt) ELSE FP!f2b(fmt, FP!_binop_f(op, a, b))
  BY DEF FP!binop
<1>3. CASE FP!isnan(a) \/ FP!isnan(b)
  <2>1. res = FP!CANON_NAN(fmt)
    BY <1>2, <1>3
  <2> HIDE DEF res, a, b, zero
  <2> QED BY <1>3, <2>1, CanonFacts DEF Canonical, res, a, b, zero
<1>4. CASE ~FP!isnan(a) /\ ~FP!isnan(b) /\ ~zero
  <2>1. op = "div" => ~FP!isnan(b) /\ ~FP!iszero(b)
    BY <1>4
  <2>2. FP!Exact(op, a, b) \in Floats
    BY <1>1, <2>1, ExactType
  <2>3. FP!_binop_f(op, a, b) = FP!PyFloat(FP!Exact(op, a, b))
    <3>1. CASE op = "div"
      <4>1. FP!Exact(op, a, b) = FP!Quotient(a, b)
        BY <3>1 DEF FP!Exact
      <4>2. ~FP!iszero(b)
        BY <1>4, <3>1
      <4> HIDE DEF a, b
      <4> QED BY <3>1, <4>1, <4>2 DEF FP!_binop_f, FP!_div
    <3>2. CASE op # "div"
      BY <3>2 DEF FP!_binop_f
    <3> QED BY <3>1, <3>2
  <2>4. res = FP!f2b(fmt, FP!PyFloat(FP!Exact(op, a, b)))
    BY <1>2, <1>4, <2>3
  <2>5. Canonical(fmt, res, FP!isnan(FP!Exact(op, a, b)))
    BY <2>2, <2>4, PackedIsCanonical
  <2> HIDE DEF res, a, b, zero
  <2> QED BY <1>4, <2>5 DEF Canonical, res, a, b, zero
<1>5. CASE ~FP!isnan(a) /\ ~FP!isnan(b) /\ zero
  <2>0. op = "div" /\ FP!iszero(b)
    BY <1>5
  <2>1. FP!_binop_f(op, a, b) = IF FP!iszero(a) THEN FP!Nan ELSE FP!Inf(a.neg # b.neg)
    BY <2>0 DEF FP!_binop_f, FP!_div
  <2>2. a.neg \in BOOLEAN /\ b.neg \in BOOLEAN /\ (a.neg <=> su) /\ (b.neg <=> sv)
    BY <1>1, <1>5, FloatFacts, UnpackedType
  <2>3. (a.neg # b.neg) = (su # sv)
    <3>1. su \in BOOLEAN /\ sv \in BOOLEAN
      OBVIOUS
    <3> HIDE DEF a, b, su, sv
    <3> QED BY <2>2, <3>1
  <2> HIDE DEF a, b, su, sv, res
  <2>4. CASE FP!iszero(a)
    <3>1. res = FP!f2b(fmt, FP!Nan)
      BY <1>2, <1>5, <2>1, <2>4
    <3>2. FP!Nan \in Floats /\ FP!isnan(FP!Nan)
      BY DEF FP!Nan, Floats, FP!isnan
    <3>3. Canonical(fmt, res, TRUE)
      BY <3>1, <3>2, Packed DEF Canonical
    <3> QED BY <1>5, <2>4, <3>3 DEF Canonical, a, b, res
  <2>5. CASE ~FP!iszero(a)
    <3> DEFINE n == su # sv
    <3>1. res = FP!f2b(fmt, FP!Inf(n))
      BY <1>2, <1>5, <2>1, <2>3, <2>5
    <3>2. n \in BOOLEAN
      OBVIOUS
    <3> HIDE DEF n
    <3>3. FP!Inf(n) \in Floats /\ ~FP!isnan(FP!Inf(n))
      BY <3>2, Makes
    <3>4. Canonical(fmt, res, FALSE)
      BY <3>1, <3>3, Packed DEF Canonical
    <3>5. FP!b2f(fmt, res) = FP!Inf(n)
      BY <3>1, <3>2, InfinityPacked
    <3> QED BY <1>5, <2>5, <3>4, <3>5 DEF Canonical, n, su, sv, a, b, res
  <2> QED BY <2>4, <2>5
<1> QED BY <1>3, <1>4, <1>5

(* A number is below zero if it is negative.                               *)
LEMMA BelowZero ==
  ASSUME NEW x \in Floats, ~FP!isnan(x)
  PROVE  FP!Less(x, FP!Num(FALSE, 0, 0)) <=> x.neg /\ ~FP!iszero(x)
<1> DEFINE z == FP!Num(FALSE, 0, 0)
           c == FP!Magnitude(x, z)
<1>1. ~FP!isnan(z) /\ ~FP!isinf(z) /\ FP!iszero(z) /\ z.neg = FALSE /\ z.m = 0
  BY DEF FP!Num, FP!isnan, FP!isinf, FP!iszero
<1>2. x.neg \in BOOLEAN /\ x.m \in Nat
  BY FloatFacts
<1>3. c \in {0, 1}
  <2>1. CASE FP!isinf(x)
    BY <1>1, <2>1 DEF FP!Magnitude
  <2>2. CASE ~FP!isinf(x)
    <3>1. c = FP!Cmp(x.m, x.q, 0, z.q)
      BY <1>1, <2>2 DEF FP!Magnitude
    <3>2. FP!Cmp(x.m, x.q, 0, z.q) = IF x.m = 0 THEN 0 ELSE 1
      BY DEF FP!Cmp
    <3> QED BY <3>1, <3>2
  <2> QED BY <2>1, <2>2
<1>4. FP!Less(x, z) <=> ~FP!iszero(x) /\ IF x.neg # FALSE THEN x.neg ELSE IF x.neg THEN c > 0 ELSE c < 0
  BY <1>1 DEF FP!Less
<1> HIDE DEF z, c
<1>5. CASE x.neg = TRUE
  <2>1. FP!Less(x, z) <=> ~FP!iszero(x)
    BY <1>4, <1>5
  <2> QED BY <1>5, <2>1 DEF z
<1>6. CASE x.neg = FALSE
  <2>1. ~(c < 0)
    BY <1>3
  <2>2. ~FP!Less(x, z)
    BY <1>4, <1>6, <2>1
  <2> QED BY <1>6, <2>2 DEF z
<1> QED BY <1>2, <1>5, <1>6

(* A square root is no number for a NaN and below zero only.               *)
LEMMA SqrtResult ==
  ASSUME NEW fmt \in Formats, NEW u \in FP!Patterns(fmt)
  PROVE  LET x == FP!b2f(fmt, u)
         IN  Canonical(fmt, FP!sqrt(fmt, u), FP!isnan(x) \/ (x.neg /\ ~FP!iszero(x)))
<1> DEFINE x == FP!b2f(fmt, u)
           res == FP!sqrt(fmt, u)
<1>1. x \in Floats /\ x.m < 2^P2
  BY UnpackedType, FloatFits
<1>2. res = IF FP!isnan(x) \/ FP!Less(x, FP!Num(FALSE, 0, 0)) THEN FP!CANON_NAN(fmt) ELSE FP!f2b(fmt, FP!PyFloat(FP!Root(x)))
  BY DEF FP!sqrt
<1> HIDE DEF x, res
<1>3. CASE FP!isnan(x)
  <2>1. res = FP!CANON_NAN(fmt)
    BY <1>2, <1>3
  <2> QED BY <1>3, <2>1, CanonFacts DEF Canonical, x, res
<1>4. CASE ~FP!isnan(x) /\ x.neg /\ ~FP!iszero(x)
  <2>1. res = FP!CANON_NAN(fmt)
    BY <1>1, <1>2, <1>4, BelowZero
  <2> QED BY <1>4, <2>1, CanonFacts DEF Canonical, x, res
<1>5. CASE ~FP!isnan(x) /\ ~(x.neg /\ ~FP!iszero(x))
  <2>1. res = FP!f2b(fmt, FP!PyFloat(FP!Root(x)))
    BY <1>1, <1>2, <1>5, BelowZero
  <2>2. FP!Root(x) \in Floats /\ ~FP!isnan(FP!Root(x))
    BY <1>1, <1>5, RootType
  <2>3. Canonical(fmt, res, FP!isnan(FP!Root(x)))
    BY <2>1, <2>2, PackedIsCanonical
  <2> QED BY <1>5, <2>2, <2>3 DEF Canonical, x, res
<1> QED BY <1>3, <1>4, <1>5

(* ceil, floor, trunc and nearest are no numbers for a NaN only,           *)
LEMMA RoundResult ==
  ASSUME NEW fmt \in Formats, NEW op, NEW u \in FP!Patterns(fmt)
  PROVE  Canonical(fmt, FP!round(fmt, op, u), FP!isnan(FP!b2f(fmt, u)))
<1> DEFINE x == FP!b2f(fmt, u)
           res == FP!round(fmt, op, u)
<1>1. x \in Floats /\ (FP!isnan(x) <=> FP!is_nan(fmt, u))
  BY UnpackedType
<1>2. res = IF FP!isnan(x) THEN FP!CANON_NAN(fmt) ELSE IF FP!isinf(x) \/ FP!iszero(x) THEN u
            ELSE FP!f2b(fmt, FP!PyFloat(FP!_round_int(op, x)))
  BY DEF FP!round
<1> HIDE DEF x, res
<1>3. CASE FP!isnan(x)
  <2>1. res = FP!CANON_NAN(fmt)
    BY <1>2, <1>3
  <2> QED BY <1>3, <2>1, CanonFacts DEF Canonical, x, res
<1>4. CASE ~FP!isnan(x) /\ (FP!isinf(x) \/ FP!iszero(x))
  <2>1. res = u
    BY <1>2, <1>4
  <2> QED BY <1>1, <1>4, <2>1 DEF Canonical, x, res
<1>5. CASE ~FP!isnan(x) /\ ~(FP!isinf(x) \/ FP!iszero(x))
  <2>1. res = FP!f2b(fmt, FP!PyFloat(FP!_round_int(op, x)))
    BY <1>2, <1>5
  <2>2. FP!_round_int(op, x) \in Floats /\ ~FP!isnan(FP!_round_int(op, x))
    BY <1>1, <1>5, RoundedType
  <2>3. Canonical(fmt, res, FP!isnan(FP!_round_int(op, x)))
    BY <2>1, <2>2, PackedIsCanonical
  <2> QED BY <1>5, <2>2, <2>3 DEF Canonical, x, res
<1> QED BY <1>3, <1>4, <1>5

(* and so are promote and demote.                                          *)
LEMMA RecodeResult ==
  ASSUME NEW from \in Formats, NEW to \in Formats, NEW u \in FP!Patterns(from)
  PROVE  Canonical(to, FP!recode(from, to, u), FP!isnan(FP!b2f(from, u)))
<1> DEFINE x == FP!b2f(from, u)
           res == FP!recode(from, to, u)
<1>1. x \in Floats /\ (FP!isnan(x) <=> FP!is_nan(from, u))
  BY UnpackedType
<1>2. res = IF FP!is_nan(from, u) THEN FP!CANON_NAN(to) ELSE FP!f2b(to, x)
  BY DEF FP!recode
<1> HIDE DEF x, res
<1>3. CASE FP!isnan(x)
  <2>1. res = FP!CANON_NAN(to)
    BY <1>1, <1>2, <1>3
  <2> QED BY <1>3, <2>1, CanonFacts DEF Canonical, x, res
<1>4. CASE ~FP!isnan(x)
  <2>1. res = FP!f2b(to, x)
    BY <1>1, <1>2, <1>4
  <2>2. Canonical(to, res, FP!isnan(x))
    BY <1>1, <2>1, PackedIsCanonical
  <2> QED BY <1>4, <2>2 DEF Canonical, x, res
<1> QED BY <1>3, <1>4

(* A pattern's place in the order of min and max, -0 before +0.            *)
Rank(fmt, u) == IF u >= FP!SIGN(fmt) THEN -(FP!Abs(fmt, u)) - 1 ELSE u

(* A pattern is its magnitude under its sign, and its position and rank    *)
(* follow.                                                                 *)
LEMMA SignedPattern ==
  ASSUME NEW fmt \in Formats, NEW u \in FP!Patterns(fmt)
  PROVE  LET a == FP!Abs(fmt, u)
             S == FP!SIGN(fmt)
         IN  /\ S \in Nat \ {0} /\ a \in Nat /\ a < S
             /\ u >= S => u = a + S /\ FP!Sign(fmt, u) = S /\ Position(fmt, u) = -a /\ Rank(fmt, u) = -a - 1
             /\ ~(u >= S) => u = a /\ FP!Sign(fmt, u) = 0 /\ Position(fmt, u) = a /\ Rank(fmt, u) = a
<1> DEFINE a == FP!Abs(fmt, u)
           S == FP!SIGN(fmt)
<1>1. S \in Nat \ {0} /\ a \in Nat /\ a \in 0..(S - 1) /\ u \in Nat
  BY PatternFacts, FormatFacts
<1>2. /\ u >= S => u = a + S /\ FP!Sign(fmt, u) = S
      /\ u < S => u = a /\ FP!Sign(fmt, u) = 0
  BY PatternFacts
<1>3. /\ u >= S => Position(fmt, u) = -a /\ Rank(fmt, u) = -a - 1
      /\ ~(u >= S) => Position(fmt, u) = u /\ Rank(fmt, u) = u
  BY DEF Position, Rank
<1>4. ~(u >= S) => u < S
  BY <1>1
<1> HIDE DEF a, S
<1>5. a < S
  BY <1>1
<1> QED BY <1>1, <1>2, <1>3, <1>4, <1>5 DEF a, S

(* min and max are the operand of the lower and of the higher rank.        *)
LEMMA MinMaxResult ==
  ASSUME NEW fmt \in Formats, NEW op \in {"min", "max"}, NEW u \in FP!Patterns(fmt), NEW v \in FP!Patterns(fmt)
  PROVE  LET undefined == FP!is_nan(fmt, u) \/ FP!is_nan(fmt, v)
             res == FP!minmax(fmt, op, u, v)
             k == Rank(fmt, u)
             l == Rank(fmt, v)
         IN  /\ Canonical(fmt, res, undefined)
             /\ ~undefined => /\ res \in {u, v}
                              /\ Rank(fmt, res) = IF op = "min" THEN (IF k < l THEN k ELSE l)
                                                  ELSE (IF k > l THEN k ELSE l)
<1> DEFINE a == FP!Abs(fmt, u)
           b == FP!Abs(fmt, v)
           S == FP!SIGN(fmt)
           x == FP!b2f(fmt, u)
           y == FP!b2f(fmt, v)
           res == FP!minmax(fmt, op, u, v)
           k == Rank(fmt, u)
           l == Rank(fmt, v)
           undefined == FP!is_nan(fmt, u) \/ FP!is_nan(fmt, v)
           zero == FP!iszero(x) /\ FP!iszero(y)
           minus == (op = "min" /\ (FP!Sign(fmt, u) # 0 \/ FP!Sign(fmt, v) # 0))
                    \/ (FP!Sign(fmt, u) # 0 /\ FP!Sign(fmt, v) # 0)
           first == (op = "min" /\ FP!Less(x, y)) \/ (op = "max" /\ FP!Less(y, x))
<1>1. (FP!isnan(x) <=> FP!is_nan(fmt, u)) /\ (FP!isnan(y) <=> FP!is_nan(fmt, v))
  BY UnpackedType
<1>2. res = IF FP!isnan(x) \/ FP!isnan(y) THEN FP!CANON_NAN(fmt)
            ELSE IF zero THEN IF minus THEN S ELSE 0
            ELSE IF first THEN u ELSE v
  BY DEF FP!minmax
<1>3. CASE undefined
  <2>1. res = FP!CANON_NAN(fmt)
    BY <1>1, <1>2, <1>3
  <2> HIDE DEF res, undefined
  <2>2. Canonical(fmt, res, undefined)
    BY <1>3, <2>1, CanonFacts DEF Canonical
  <2> QED BY <1>3, <2>2 DEF res, undefined
<1>4. CASE ~undefined
  <2> SUFFICES /\ res \in {u, v}
               /\ Rank(fmt, res) = IF op = "min" THEN (IF k < l THEN k ELSE l)
                                   ELSE (IF k > l THEN k ELSE l)
    <3>1. ASSUME res \in {u, v} PROVE Canonical(fmt, res, undefined)
      <4>1. res \in FP!Patterns(fmt) /\ ~FP!is_nan(fmt, res)
        <5> HIDE DEF res
        <5> QED BY <1>4, <3>1
      <4> HIDE DEF res, undefined
      <4> QED BY <1>4, <4>1 DEF Canonical
    <3> HIDE DEF res, k, l, undefined
    <3> QED BY <3>1 DEF res, k, l, undefined
  <2>1. /\ S \in Nat \ {0} /\ a \in Nat /\ a < S
        /\ u >= S => u = a + S /\ FP!Sign(fmt, u) = S /\ Position(fmt, u) = -a /\ k = -a - 1
        /\ ~(u >= S) => u = a /\ FP!Sign(fmt, u) = 0 /\ Position(fmt, u) = a /\ k = a
    BY SignedPattern
  <2>2. /\ b \in Nat /\ b < S
        /\ v >= S => v = b + S /\ FP!Sign(fmt, v) = S /\ Position(fmt, v) = -b /\ l = -b - 1
        /\ ~(v >= S) => v = b /\ FP!Sign(fmt, v) = 0 /\ Position(fmt, v) = b /\ l = b
    BY SignedPattern
  <2>3. zero <=> a = 0 /\ b = 0
    BY ZeroUnpacked
  <2>4. CASE zero
    <3>1. res = IF minus THEN S ELSE 0
      BY <1>1, <1>2, <1>4, <2>4
    <3>2. minus <=> (op = "min" /\ (u >= S \/ v >= S)) \/ (u >= S /\ v >= S)
      BY <2>1, <2>2
    <3>3. a = 0 /\ b = 0
      BY <2>3, <2>4
    <3> HIDE DEF a, b, S, x, y, res, k, l, zero, minus, first
    <3>4. res \in {u, v}
      BY <2>1, <2>2, <3>1, <3>2, <3>3
    <3>5. k = (IF u >= S THEN -1 ELSE 0) /\ l = (IF v >= S THEN -1 ELSE 0)
      BY <2>1, <2>2, <3>3
    <3>6. u = (IF u >= S THEN S ELSE 0) /\ v = (IF v >= S THEN S ELSE 0)
      BY <2>1, <2>2, <3>3
    <3> DEFINE m == IF op = "min" THEN (IF k < l THEN k ELSE l) ELSE (IF k > l THEN k ELSE l)
    <3>7. \/ res = u /\ k = m
          \/ res = v /\ l = m
      <4>1. CASE op = "min"
        BY <2>1, <3>1, <3>2, <3>5, <3>6, <4>1
      <4>2. CASE op # "min"
        BY <2>1, <3>1, <3>2, <3>5, <3>6, <4>2
      <4> QED BY <4>1, <4>2
    <3>8. Rank(fmt, res) = m
      BY <3>7 DEF k, l
    <3> QED BY <3>4, <3>8
  <2>5. CASE ~zero
    <3>1. res = IF first THEN u ELSE v
      BY <1>1, <1>2, <1>4, <2>5
    <3>2. /\ FP!Less(x, y) <=> Position(fmt, u) < Position(fmt, v)
          /\ FP!Less(y, x) <=> Position(fmt, v) < Position(fmt, u)
      BY <1>4, PatternsOrder
    <3>3. first <=> IF op = "min" THEN Position(fmt, u) < Position(fmt, v) ELSE Position(fmt, v) < Position(fmt, u)
      BY <3>2
    <3>4. a # 0 \/ b # 0
      BY <2>3, <2>5
    <3> DEFINE pu == Position(fmt, u)
               pv == Position(fmt, v)
               m == IF op = "min" THEN (IF k < l THEN k ELSE l) ELSE (IF k > l THEN k ELSE l)
    <3> HIDE DEF a, b, S, x, y, res, k, l, zero, minus, first, pu, pv
    <3>5. /\ (u >= S => pu = -a /\ k = -a - 1) /\ (~(u >= S) => pu = a /\ k = a)
          /\ (v >= S => pv = -b /\ l = -b - 1) /\ (~(v >= S) => pv = b /\ l = b)
          /\ a \in Nat /\ b \in Nat
      BY <2>1, <2>2 DEF pu, pv
    <3>6. /\ pu < pv => k < l
          /\ pv < pu => l < k
          /\ pu = pv => k = l
          /\ pu \in Int /\ pv \in Int /\ k \in Int /\ l \in Int
      <4>1. CASE u >= S /\ v >= S
        BY <3>4, <3>5, <4>1
      <4>2. CASE u >= S /\ ~(v >= S)
        BY <3>4, <3>5, <4>2
      <4>3. CASE ~(u >= S) /\ v >= S
        BY <3>4, <3>5, <4>3
      <4>4. CASE ~(u >= S) /\ ~(v >= S)
        BY <3>4, <3>5, <4>4
      <4> QED BY <4>1, <4>2, <4>3, <4>4
    <3>7. first <=> IF op = "min" THEN pu < pv ELSE pv < pu
      BY <3>3 DEF pu, pv
    <3>8. \/ res = u /\ k = m
          \/ res = v /\ l = m
      <4>1. CASE op = "min"
        BY <3>1, <3>6, <3>7, <4>1
      <4>2. CASE op # "min"
        BY <3>1, <3>6, <3>7, <4>2
      <4> QED BY <4>1, <4>2
    <3>9. Rank(fmt, res) = m
      BY <3>8 DEF k, l
    <3> QED BY <3>8, <3>9
  <2> QED BY <2>4, <2>5
<1> QED BY <1>3, <1>4

(* abs, neg, copysign: one magnitude under another sign.                   *)
LEMMA UnderASign ==
  ASSUME NEW fmt \in Formats, NEW a \in 0..(FP!SIGN(fmt) - 1), NEW minus \in BOOLEAN,
         NEW res, res = a + IF minus THEN FP!SIGN(fmt) ELSE 0
  PROVE  res \in FP!Patterns(fmt) /\ FP!Abs(fmt, res) = a /\ (res >= FP!SIGN(fmt) <=> minus)
<1> DEFINE S == FP!SIGN(fmt)
<1>1. S \in Nat \ {0}
  BY FormatFacts
<1>2. FP!Patterns(fmt) = 0..(2 * S - 1) /\ FP!Abs(fmt, res) = res % S
  BY DEF FP!Patterns, FP!Abs
<1> HIDE DEF S
<1>3. a \in Nat /\ a < S
  BY <1>1 DEF S
<1>4. res = a + IF minus THEN S ELSE 0
  BY DEF S
<1>5. CASE minus = TRUE
  <2>1. res = a + S
    BY <1>4, <1>5
  <2>2. res = S * 1 + a /\ res \in Int /\ a \in 0..(S - 1)
    BY <1>1, <1>3, <2>1
  <2>3. res % S = a
    BY <1>1, <2>2, QuotientIs
  <2>4. res >= S /\ res \in FP!Patterns(fmt) /\ FP!Abs(fmt, res) = a
    BY <1>1, <1>2, <1>3, <2>1, <2>3
  <2> QED BY <1>5, <2>4 DEF S
<1>6. CASE minus = FALSE
  <2>1. res = a
    BY <1>3, <1>4, <1>6
  <2>2. res % S = a
    BY <1>1, <1>3, <2>1
  <2>3. ~(res >= S) /\ res \in FP!Patterns(fmt) /\ FP!Abs(fmt, res) = a
    BY <1>1, <1>2, <1>3, <2>1, <2>2
  <2> QED BY <1>6, <2>3 DEF S
<1> QED BY <1>5, <1>6

(* abs, neg and copysign keep the magnitude and set the sign.              *)
LEMMA SignOpResults ==
  ASSUME NEW fmt \in Formats, NEW u \in FP!Patterns(fmt)
  PROVE  /\ FP!abs(fmt, u) \in FP!Patterns(fmt) /\ FP!Abs(fmt, FP!abs(fmt, u)) = FP!Abs(fmt, u)
         /\ ~(FP!abs(fmt, u) >= FP!SIGN(fmt))
         /\ FP!neg(fmt, u) \in FP!Patterns(fmt) /\ FP!Abs(fmt, FP!neg(fmt, u)) = FP!Abs(fmt, u)
         /\ FP!neg(fmt, u) >= FP!SIGN(fmt) <=> ~(u >= FP!SIGN(fmt))
         /\ \A v \in FP!Patterns(fmt) :
              /\ FP!copysign(fmt, u, v) \in FP!Patterns(fmt) /\ FP!Abs(fmt, FP!copysign(fmt, u, v)) = FP!Abs(fmt, u)
              /\ FP!copysign(fmt, u, v) >= FP!SIGN(fmt) <=> v >= FP!SIGN(fmt)
<1> DEFINE a == FP!Abs(fmt, u)
           S == FP!SIGN(fmt)
<1>1. S \in Nat \ {0} /\ a \in 0..(S - 1) /\ a \in Nat
  BY PatternFacts, FormatFacts
<1>2. (u >= S => u = a + S) /\ (~(u >= S) => u = a)
  BY SignedPattern
<1>3. FP!abs(fmt, u) = a
  BY DEF FP!abs
<1>4. FP!neg(fmt, u) = (u + S) % (2 * S)
  BY DEF FP!neg
<1>5. \A v \in FP!Patterns(fmt) : FP!copysign(fmt, u, v) = a + IF v >= S THEN S ELSE 0
  <2> TAKE v \in FP!Patterns(fmt)
  <2>1. (v >= S => FP!Sign(fmt, v) = S) /\ (~(v >= S) => FP!Sign(fmt, v) = 0)
    BY SignedPattern
  <2> QED BY <2>1 DEF FP!copysign
<1>6. FP!neg(fmt, u) = a + IF ~(u >= S) THEN S ELSE 0
  <2> HIDE DEF a, S
  <2>1. CASE u >= S
    <3>1. u + S = (2 * S) * 1 + a /\ u + S \in Int /\ a \in 0..(2 * S - 1) /\ 2 * S \in Nat \ {0}
      BY <1>1, <1>2, <2>1
    <3>2. (u + S) % (2 * S) = a
      BY <3>1, QuotientIs
    <3> QED BY <1>1, <1>4, <2>1, <3>2
  <2>2. CASE ~(u >= S)
    <3>1. u + S = (2 * S) * 0 + (a + S) /\ u + S \in Int /\ a + S \in 0..(2 * S - 1) /\ 2 * S \in Nat \ {0}
      BY <1>1, <1>2, <2>2
    <3>2. (u + S) % (2 * S) = a + S
      BY <3>1, QuotientIs
    <3> QED BY <1>1, <1>4, <2>2, <3>2
  <2> QED BY <2>1, <2>2
<1>7. a = a + IF FALSE THEN S ELSE 0
  BY <1>1
<1>8. /\ FP!abs(fmt, u) \in FP!Patterns(fmt) /\ FP!Abs(fmt, FP!abs(fmt, u)) = a
      /\ ~(FP!abs(fmt, u) >= S)
  BY <1>1, <1>3, <1>7, UnderASign
<1>9. /\ FP!neg(fmt, u) \in FP!Patterns(fmt) /\ FP!Abs(fmt, FP!neg(fmt, u)) = a
      /\ FP!neg(fmt, u) >= S <=> ~(u >= S)
  <2> DEFINE minus == ~(u >= S)
  <2>1. minus \in BOOLEAN /\ FP!neg(fmt, u) = a + IF minus THEN S ELSE 0
    BY <1>6
  <2> HIDE DEF minus
  <2>2. /\ FP!neg(fmt, u) \in FP!Patterns(fmt) /\ FP!Abs(fmt, FP!neg(fmt, u)) = a
        /\ FP!neg(fmt, u) >= S <=> minus
    BY <1>1, <2>1, UnderASign
  <2> QED BY <2>2 DEF minus
<1>10. ASSUME NEW v \in FP!Patterns(fmt)
       PROVE  /\ FP!copysign(fmt, u, v) \in FP!Patterns(fmt) /\ FP!Abs(fmt, FP!copysign(fmt, u, v)) = a
              /\ FP!copysign(fmt, u, v) >= S <=> v >= S
  <2> DEFINE minus == v >= S
  <2>1. minus \in BOOLEAN /\ FP!copysign(fmt, u, v) = a + IF minus THEN S ELSE 0
    BY <1>5
  <2> HIDE DEF minus
  <2>2. /\ FP!copysign(fmt, u, v) \in FP!Patterns(fmt) /\ FP!Abs(fmt, FP!copysign(fmt, u, v)) = a
        /\ FP!copysign(fmt, u, v) >= S <=> minus
    BY <1>1, <2>1, UnderASign
  <2> QED BY <2>2 DEF minus
<1> QED BY <1>8, <1>9, <1>10

(* A comparison is that of the places, and with a NaN only ne holds.       *)
LEMMA CmpResult ==
  ASSUME NEW fmt \in Formats, NEW op \in FP!Comparison, NEW u \in FP!Patterns(fmt), NEW v \in FP!Patterns(fmt)
  PROVE  LET k == Position(fmt, u)
             l == Position(fmt, v)
         IN  FP!cmp(fmt, op, u, v) <=>
               IF FP!is_nan(fmt, u) \/ FP!is_nan(fmt, v) THEN op = "ne"
               ELSE \/ k < l /\ op \in {"lt", "le", "ne"}
                    \/ k = l /\ op \in {"eq", "le", "ge"}
                    \/ k > l /\ op \in {"gt", "ge", "ne"}
<1> DEFINE x == FP!b2f(fmt, u)
           y == FP!b2f(fmt, v)
           k == Position(fmt, u)
           l == Position(fmt, v)
           res == FP!cmp(fmt, op, u, v)
           nan == FP!is_nan(fmt, u) \/ FP!is_nan(fmt, v)
<1>1. (FP!isnan(x) <=> FP!is_nan(fmt, u)) /\ (FP!isnan(y) <=> FP!is_nan(fmt, v))
  BY UnpackedType
<1>2. res = CASE op = "eq" -> FP!Equal(x, y) [] op = "ne" -> ~FP!Equal(x, y)
              [] op = "lt" -> FP!Less(x, y)  [] op = "ge" -> FP!Less(y, x) \/ FP!Equal(x, y)
              [] op = "gt" -> FP!Less(y, x)  [] op = "le" -> FP!Less(x, y) \/ FP!Equal(x, y)
  BY DEF FP!cmp
<1>3. op \in {"eq", "ne", "lt", "gt", "le", "ge"}
  BY DEF FP!Comparison
<1>4. /\ op = "eq" => (res <=> FP!Equal(x, y))
      /\ op = "ne" => (res <=> ~FP!Equal(x, y))
      /\ op = "lt" => (res <=> FP!Less(x, y))
      /\ op = "ge" => (res <=> FP!Less(y, x) \/ FP!Equal(x, y))
      /\ op = "gt" => (res <=> FP!Less(y, x))
      /\ op = "le" => (res <=> FP!Less(x, y) \/ FP!Equal(x, y))
  <2> HIDE DEF res, x, y
  <2> QED BY <1>2
<1>5. CASE nan
  <2>1. ~FP!Less(x, y) /\ ~FP!Less(y, x) /\ ~FP!Equal(x, y)
    BY <1>1, <1>5 DEF FP!Less, FP!Equal
  <2>2. res <=> op = "ne"
    <3> HIDE DEF res, x, y
    <3> QED BY <1>3, <1>4, <2>1
  <2> HIDE DEF res, k, l
  <2> QED BY <1>5, <2>2 DEF res, nan
<1>6. CASE ~nan
  <2>1. /\ k \in Int /\ l \in Int
        /\ FP!Less(x, y) <=> k < l
        /\ FP!Less(y, x) <=> l < k
        /\ FP!Equal(x, y) <=> k = l
    BY <1>6, PatternsOrder
  <2> HIDE DEF res, k, l, x, y, nan
  <2>2. res <=> \/ k < l /\ op \in {"lt", "le", "ne"}
                \/ k = l /\ op \in {"eq", "le", "ge"}
                \/ k > l /\ op \in {"gt", "ge", "ne"}
    <3>1. CASE k < l
      BY <1>3, <1>4, <2>1, <3>1
    <3>2. CASE k = l
      BY <1>3, <1>4, <2>1, <3>2
    <3>3. CASE k > l
      BY <1>3, <1>4, <2>1, <3>3
    <3> QED BY <2>1, <3>1, <3>2, <3>3
  <2> QED BY <1>6, <2>2 DEF res, k, l, nan
<1> QED BY <1>5, <1>6

(* An integer's float, and one scaled by a power, are numbers.             *)
LEMMA ScaledType ==
  ASSUME NEW k \in Nat, NEW s \in Int
  PROVE  LET x == FP!Product(FP!Num(FALSE, k, 0), FP!Num(FALSE, 1, s))
         IN  x \in Floats /\ ~FP!isnan(x) /\ x.neg = FALSE
<1> DEFINE a == FP!Num(FALSE, k, 0)
           b == FP!Num(FALSE, 1, s)
           x == FP!Product(a, b)
<1>1. a.neg = FALSE /\ b.neg = FALSE /\ ~FP!isinf(a) /\ ~FP!isinf(b) /\ a.m = k /\ a.q = 0 /\ b.m = 1 /\ b.q = s
  BY DEF FP!Num, FP!isinf
<1>2. x = FP!Num(FALSE, k, s)
  <2>1. x = FP!Num(a.neg # b.neg, a.m * b.m, a.q + b.q)
    BY <1>1 DEF FP!Product
  <2>2. (a.neg # b.neg) = FALSE /\ a.m * b.m = k /\ a.q + b.q = s
    <3>1. a.neg = b.neg
      BY <1>1
    <3> HIDE DEF a, b
    <3>2. (a.neg # b.neg) = FALSE
      BY <3>1
    <3> QED BY <1>1, <3>2
  <2> HIDE DEF a, b, x
  <2> QED BY <2>1, <2>2
<1> HIDE DEF x
<1>3. FALSE \in BOOLEAN
  OBVIOUS
<1>4. FP!Num(FALSE, k, s) \in Floats /\ ~FP!isnan(FP!Num(FALSE, k, s)) /\ FP!Num(FALSE, k, s).neg = FALSE
  BY DEF FP!Num, Floats, FP!isnan
<1> QED BY <1>2, <1>4 DEF x, a, b

(* What is not below zero packs without a sign, and may be given one.      *)
LEMMA Unsigned ==
  ASSUME NEW fmt \in Formats, NEW x \in Floats, ~FP!isnan(x), x.neg = FALSE, NEW minus \in BOOLEAN
  PROVE  (IF minus THEN FP!SIGN(fmt) ELSE 0) + FP!f2b(fmt, x) \in FP!Patterns(fmt)
<1> DEFINE u == FP!f2b(fmt, x)
           S == FP!SIGN(fmt)
<1>1. u \in FP!Patterns(fmt) /\ ~(u >= S)
  BY Packed
<1>2. FP!Patterns(fmt) = 0..(2 * S - 1) /\ S \in Nat \ {0}
  BY FormatFacts DEF FP!Patterns
<1> HIDE DEF u, S
<1>3. (IF minus THEN S ELSE 0) + u \in FP!Patterns(fmt)
  BY <1>1, <1>2
<1> QED BY <1>3 DEF u, S

(* An integer's f32, rounded by hand, is a pattern of the format.          *)
LEMMA IntToF32Type ==
  ASSUME NEW v \in Int
  PROVE  FP!_int_to_f32_bits(v) \in FP!Patterns(FP!F32)
<1> DEFINE a == IF v < 0 THEN -v ELSE v
           n == FP!bit_length(a)
           shift == n - P1
           keep == a \div 2^shift
           rem == a % 2^shift
           half == 2^(shift - 1)
           up == rem > half \/ (rem = half /\ keep % 2 = 1)
           carry == up /\ keep + 1 = 2^P1
           minus == v < 0
           res == FP!_int_to_f32_bits(v)
           base == IF n <= P1 THEN FP!PyFloat(FP!Integer(a))
                   ELSE IF carry THEN FP!Product(FP!Num(FALSE, (keep + 1) \div 2, 0), FP!Num(FALSE, 1, shift + 1))
                   ELSE FP!Product(FP!Num(FALSE, IF up THEN keep + 1 ELSE keep, 0), FP!Num(FALSE, 1, shift))
<1>0. FP!F32 \in Formats
  BY DEF Formats
<1>1. a \in Nat /\ n \in Nat /\ P1 \in Nat
  <2>1. a \in Nat
    OBVIOUS
  <2> HIDE DEF a
  <2> QED BY <2>1, LengthCounts, FormatAssumption DEF FP!FormatAssumption
<1>2. res = IF v = 0 THEN 0
            ELSE (IF minus THEN FP!SIGN(FP!F32) ELSE 0) +
                 IF n <= P1 THEN FP!f2b(FP!F32, FP!PyFloat(FP!Integer(a)))
                 ELSE IF carry THEN FP!f2b(FP!F32, FP!Product(FP!Num(FALSE, (keep + 1) \div 2, 0), FP!Num(FALSE, 1, shift + 1)))
                 ELSE FP!f2b(FP!F32, FP!Product(FP!Num(FALSE, IF up THEN keep + 1 ELSE keep, 0), FP!Num(FALSE, 1, shift)))
  BY DEF FP!_int_to_f32_bits
<1>3. base \in Floats /\ ~FP!isnan(base) /\ base.neg = FALSE
  <2>1. CASE n <= P1
    <3>1. FP!Integer(a) \in Floats /\ ~FP!isnan(FP!Integer(a)) /\ FP!Integer(a).neg = (a < 0)
      <4> HIDE DEF a
      <4> QED BY <1>1, IntegerType
    <3>2. (a < 0) = FALSE
      <4> HIDE DEF a
      <4> QED BY <1>1
    <3> DEFINE x == FP!Integer(a)
    <3>3. x \in Floats /\ ~FP!isnan(x) /\ x.neg = FALSE
      <4> HIDE DEF a
      <4> QED BY <3>1, <3>2
    <3> HIDE DEF x
    <3>4. FP!PyFloat(x) \in Floats /\ ~FP!isnan(FP!PyFloat(x)) /\ FP!PyFloat(x).neg = FALSE
      BY <3>3, Coded
    <3>5. base = FP!PyFloat(x)
      BY <2>1 DEF x
    <3> HIDE DEF base
    <3> QED BY <3>4, <3>5
  <2>2. CASE ~(n <= P1)
    <3>1. shift \in Nat
      <4> HIDE DEF a, n
      <4> QED BY <1>1, <2>2
    <3>2. 2^shift \in Nat \ {0}
      <4> HIDE DEF shift
      <4> QED BY <3>1, PowIsNat
    <3>3. keep \in Nat
      <4> DEFINE s == 2^shift
      <4>1. s \in Nat \ {0}
        BY <3>2
      <4> HIDE DEF s, a
      <4>2. a \div s \in Nat
        BY <1>1, <4>1, QuotientType
      <4> QED BY <4>2 DEF s
    <3> HIDE DEF keep, shift, n, a
    <3>4. CASE carry
      <4>1. base = FP!Product(FP!Num(FALSE, (keep + 1) \div 2, 0), FP!Num(FALSE, 1, shift + 1))
        BY <2>2, <3>4
      <4>2. (keep + 1) \div 2 \in Nat /\ shift + 1 \in Int
        BY <3>1, <3>3
      <4> HIDE DEF base
      <4> QED BY <4>1, <4>2, ScaledType
    <3>5. CASE ~carry
      <4> DEFINE k == IF up THEN keep + 1 ELSE keep
      <4>1. base = FP!Product(FP!Num(FALSE, k, 0), FP!Num(FALSE, 1, shift))
        BY <2>2, <3>5
      <4>2. k \in Nat /\ shift \in Int
        BY <3>1, <3>3
      <4> HIDE DEF base, k
      <4> QED BY <4>1, <4>2, ScaledType
    <3> QED BY <3>4, <3>5
  <2> QED BY <2>1, <2>2
<1>4. res = IF v = 0 THEN 0 ELSE (IF minus THEN FP!SIGN(FP!F32) ELSE 0) + FP!f2b(FP!F32, base)
  <2> HIDE DEF res, a, n, shift, keep, carry, up, minus
  <2> QED BY <1>2
<1>5. minus \in BOOLEAN
  OBVIOUS
<1>6. 0 \in FP!Patterns(FP!F32)
  <2>1. FP!SIGN(FP!F32) \in Nat \ {0}
    BY <1>0, FormatFacts
  <2> DEFINE S == FP!SIGN(FP!F32)
  <2>2. S \in Nat \ {0} /\ FP!Patterns(FP!F32) = 0..(2 * S - 1)
    BY <2>1 DEF FP!Patterns
  <2> HIDE DEF S
  <2> QED BY <2>2
<1> HIDE DEF res, base, minus
<1>7. (IF minus THEN FP!SIGN(FP!F32) ELSE 0) + FP!f2b(FP!F32, base) \in FP!Patterns(FP!F32)
  BY <1>0, <1>3, <1>5, Unsigned
<1>8. res \in FP!Patterns(FP!F32)
  BY <1>4, <1>6, <1>7
<1> QED BY <1>8 DEF res

(* So is every conversion of an integer.                                   *)
LEMMA ConvertResult ==
  ASSUME NEW t \in {"f32", "f64"}, NEW from \in {"i32", "i64"}, NEW signed \in BOOLEAN,
         NEW v \in 0..(2^FP!Width(from) - 1)
  PROVE  FP!convert(t, from, signed, v) \in FP!Patterns(FP!Format(t))
<1> DEFINE n == IF signed THEN FP!Signed(FP!Width(from), v) ELSE v
           w == FP!Width(from)
<1>1. w \in Nat \ {0}
  BY FormatAssumption DEF FP!FormatAssumption, FP!Width
<1>2. n \in Int
  <2>1. 2^w \in Nat
    BY <1>1, PowIsNat
  <2>2. v \in Int
    <3> HIDE DEF w
    <3> QED OBVIOUS
  <2>3. FP!Signed(w, v) \in Int
    <3>1. FP!Signed(w, v) = IF v >= 2^(w - 1) THEN v - 2^w ELSE v
      BY DEF FP!Signed
    <3> HIDE DEF w
    <3> QED BY <2>1, <2>2, <3>1
  <2> QED BY <2>2, <2>3
<1> HIDE DEF n
<1>3. FP!convert(t, from, signed, v) = IF t = "f32" THEN FP!_int_to_f32_bits(n) ELSE FP!f2b(FP!F64, FP!PyFloat(FP!Integer(n)))
  BY DEF FP!convert, n
<1>4. CASE t = "f32"
  BY <1>2, <1>3, <1>4, IntToF32Type DEF FP!Format
<1>5. CASE t = "f64"
  <2>1. FP!F64 \in Formats /\ FP!Format(t) = FP!F64
    BY <1>5 DEF Formats, FP!Format
  <2>2. FP!Integer(n) \in Floats
    BY <1>2, IntegerType
  <2>3. Canonical(FP!F64, FP!f2b(FP!F64, FP!PyFloat(FP!Integer(n))), FP!isnan(FP!Integer(n)))
    BY <2>1, <2>2, PackedIsCanonical
  <2> QED BY <1>3, <1>5, <2>1, <2>3 DEF Canonical
<1> QED BY <1>4, <1>5

(* A truncation is an integer,                                             *)
LEMMA TruncType ==
  ASSUME NEW x \in Floats
  PROVE  FP!trunc(x) \in Int
<1> DEFINE size == IF x.q < 0 THEN FP!ToInteger("trunc", x)
                   ELSE IF FP!bit_length(x.m) + x.q > W64 + 2 THEN FP!Huge ELSE x.m * 2^x.q
<1>1. x.m \in Nat /\ x.q \in Int
  BY FloatFacts
<1>2. FP!trunc(x) = IF x.neg THEN -size ELSE size
  BY DEF FP!trunc
<1>3. size \in Int
  <2>1. CASE x.q < 0
    BY <2>1, ToIntegerType
  <2>2. CASE ~(x.q < 0)
    <3>1. x.q \in Nat
      BY <1>1, <2>2
    <3>2. 2^x.q \in Nat
      BY <3>1, PowIsNat
    <3>3. x.m * 2^x.q \in Int
      BY <1>1, <3>2
    <3>4. FP!Huge \in Int
      <4>1. W64 + 2 \in Nat
        BY FormatAssumption DEF FP!FormatAssumption
      <4> QED BY <4>1, PowIsNat DEF FP!Huge
    <3> QED BY <2>2, <3>3, <3>4
  <2> QED BY <2>1, <2>2
<1> HIDE DEF size
<1> QED BY <1>2, <1>3

(* and the instruction an integer of its width, or a trap of the two.      *)
LEMMA TruncResult ==
  ASSUME NEW target \in {"i32", "i64"}, NEW signed \in BOOLEAN, NEW x \in Floats, NEW sat \in BOOLEAN
  PROVE  LET res == FP!_trunc(target, signed, x, sat)
         IN  \/ \E n \in 0..(2^FP!Width(target) - 1) : res = FP!Value(n)
             \/ res \in {FP!INVALID_CONVERSION, FP!INTEGER_OVERFLOW}
<1> DEFINE w == FP!Width(target)
           lo == FP!Low(target, signed)
           hi == FP!High(target, signed)
           t == FP!trunc(x)
           res == FP!_trunc(target, signed, x, sat)
           Small == 0..(2^w - 1)
<1>1. w \in Nat \ {0}
  BY FormatAssumption DEF FP!FormatAssumption, FP!Width
<1>2. 2^w \in Nat \ {0}
  BY <1>1, PowIsNat
<1>3. t \in Int /\ lo \in Int /\ hi \in Int
  <2>1. t \in Int
    BY TruncType
  <2>2. w - 1 \in Nat /\ w - 0 \in Nat
    BY <1>1
  <2>3. 2^(w - 1) \in Nat /\ 2^(w - 0) \in Nat
    BY <2>2, PowIsNat
  <2>4. lo = (IF signed THEN -(2^(w - 1)) ELSE 0)
    BY DEF FP!Low
  <2>5. hi = 2^(w - (IF signed THEN 1 ELSE 0)) - 1
    BY DEF FP!High
  <2>6. hi = IF signed THEN 2^(w - 1) - 1 ELSE 2^(w - 0) - 1
    <3> HIDE DEF w, hi
    <3> QED BY <2>5
  <2> HIDE DEF w, lo, hi
  <2> QED BY <2>1, <2>3, <2>4, <2>6
<1>4. \A n \in Int : n % 2^w \in Small
  <2> DEFINE b == 2^w
  <2>1. b \in Nat \ {0}
    BY <1>2
  <2> HIDE DEF b
  <2>2. \A n \in Int : n % b \in 0..(b - 1)
    BY <2>1, DivMod
  <2> QED BY <2>2 DEF b
<1>5. 0 \in Small
  <2> DEFINE b == 2^w
  <2>1. b \in Nat \ {0}
    BY <1>2
  <2> HIDE DEF b
  <2>2. 0 \in 0..(b - 1)
    BY <2>1
  <2> QED BY <2>2 DEF b
<1>6. res = IF FP!isnan(x) THEN IF sat THEN FP!Value(0) ELSE FP!INVALID_CONVERSION
            ELSE IF FP!isinf(x)
            THEN IF sat THEN FP!Value((IF x.neg THEN lo ELSE hi) % 2^w) ELSE FP!INTEGER_OVERFLOW
            ELSE IF t < lo \/ t > hi
            THEN IF sat THEN FP!Value((IF t > hi THEN hi ELSE lo) % 2^w) ELSE FP!INTEGER_OVERFLOW
            ELSE FP!Value(t % 2^w)
  BY DEF FP!_trunc
<1> HIDE DEF w, lo, hi, t, res, Small
<1>7. (IF x.neg THEN lo ELSE hi) \in Int /\ (IF t > hi THEN hi ELSE lo) \in Int
  BY <1>3
<1>8. \/ \E n \in Small : res = FP!Value(n)
      \/ res \in {FP!INVALID_CONVERSION, FP!INTEGER_OVERFLOW}
  <2> DEFINE i == (IF x.neg THEN lo ELSE hi) % 2^w
             j == (IF t > hi THEN hi ELSE lo) % 2^w
             k == t % 2^w
  <2>1. i \in Small /\ j \in Small /\ k \in Small
    BY <1>3, <1>4, <1>7
  <2>2. res \in {FP!Value(0), FP!Value(i), FP!Value(j), FP!Value(k), FP!INVALID_CONVERSION, FP!INTEGER_OVERFLOW}
    BY <1>6
  <2> HIDE DEF i, j, k
  <2> QED BY <1>5, <2>1, <2>2
<1> QED BY <1>8 DEF res, Small, w

(* An instruction has been executed on operands of its own.                *)
Ran(ins, stack) ==
  /\ ins \in FP!AllInstrs /\ stack \in FP!OperandsOf(ins)
  /\ finput = [ins |-> ins, stack |-> stack] /\ fanswer = FP!_exec_instr(ins, stack)

Binary == FP!Arithmetic \cup FP!Comparison \cup {"min", "max", "copysign"}
OneFloat == FP!Rounding \cup {"abs", "neg", "sqrt"}
Recodings == {"promote", "demote"}

(* A value is no trap, and neither is an answer that is still to come.     *)
LEMMA ValueFacts ==
  /\ \A n : FP!Value(n).trap = "none" /\ FP!Value(n).value = n /\ FP!Value(n) # FP!FTrap("not yet")
  /\ FP!INVALID_CONVERSION # FP!FTrap("not yet") /\ FP!INTEGER_OVERFLOW # FP!FTrap("not yet")
  /\ \A n : FP!Value(n) \notin {FP!INVALID_CONVERSION, FP!INTEGER_OVERFLOW}
<1>1. \A n : FP!Value(n).trap = "none" /\ FP!Value(n).value = n
  BY DEF FP!Value
<1>2. \A k : FP!FTrap(k).trap = k
  BY DEF FP!FTrap
<1>3. /\ FP!FTrap("not yet").trap = "not yet"
      /\ FP!INVALID_CONVERSION.trap = "invalid conversion to integer"
      /\ FP!INTEGER_OVERFLOW.trap = "integer overflow"
  BY <1>2 DEF FP!INVALID_CONVERSION, FP!INTEGER_OVERFLOW
<1>4. FP!INVALID_CONVERSION # FP!FTrap("not yet") /\ FP!INTEGER_OVERFLOW # FP!FTrap("not yet")
  BY <1>3
<1>5. ASSUME NEW n
      PROVE  FP!Value(n) # FP!FTrap("not yet") /\ FP!Value(n) \notin {FP!INVALID_CONVERSION, FP!INTEGER_OVERFLOW}
  <2>1. FP!Value(n).trap = "none"
    BY <1>1
  <2> QED BY <1>3, <2>1
<1> QED BY <1>1, <1>4, <1>5

(* The immediates of an instruction, by its class.                         *)
LEMMA Shapes ==
  ASSUME NEW ins \in FP!AllInstrs
  PROVE  /\ ins.op \in Binary \cup OneFloat \cup Recodings \cup {"convert", "truncate"}
         /\ ins.op \in Binary \cup OneFloat => ins.t \in FP!Types
         /\ ins.op = "promote" => ins.t = "f64"
         /\ ins.op = "demote" => ins.t = "f32"
         /\ ins.op = "convert" => ins.t \in FP!Types /\ ins.from \in {"i32", "i64"} /\ ins.signed \in BOOLEAN
         /\ ins.op = "truncate" => /\ ins.t \in {"i32", "i64"} /\ ins.from \in FP!Types
                                   /\ ins.signed \in BOOLEAN /\ ins.sat \in BOOLEAN
<1>1. CASE \E t \in FP!Types : \E op \in Binary \cup OneFloat : ins = FP!Ins(t, op)
  <2>1. PICK t \in FP!Types, op \in Binary \cup OneFloat : ins = FP!Ins(t, op)
    BY <1>1
  <2>2. ins.t = t /\ ins.op = op
    BY <2>1 DEF FP!Ins
  <2>3. op \notin Recodings \cup {"convert", "truncate"}
    BY DEF Binary, OneFloat, Recodings, FP!Arithmetic, FP!Comparison, FP!Rounding
  <2> QED BY <2>2, <2>3 DEF Recodings
<1>2. CASE ins \in {FP!Ins("f64", "promote"), FP!Ins("f32", "demote")}
  <2>1. \/ ins.t = "f64" /\ ins.op = "promote"
        \/ ins.t = "f32" /\ ins.op = "demote"
    BY <1>2 DEF FP!Ins
  <2>2. ins.op \notin Binary \cup OneFloat /\ ins.op \in Recodings
    BY <2>1 DEF Binary, OneFloat, Recodings, FP!Arithmetic, FP!Comparison, FP!Rounding
  <2> QED BY <2>1, <2>2
<1>3. CASE ins \in [t : FP!Types, op : {"convert"}, from : {"i32", "i64"}, signed : BOOLEAN]
  <2>1. ins.op = "convert" /\ ins.t \in FP!Types /\ ins.from \in {"i32", "i64"} /\ ins.signed \in BOOLEAN
    BY <1>3
  <2>2. ins.op \notin Binary \cup OneFloat
    BY <2>1 DEF Binary, OneFloat, Recodings, FP!Arithmetic, FP!Comparison, FP!Rounding
  <2> QED BY <2>1, <2>2
<1>4. CASE ins \in [t : {"i32", "i64"}, op : {"truncate"}, from : FP!Types, signed : BOOLEAN, sat : BOOLEAN]
  <2>1. /\ ins.op = "truncate" /\ ins.t \in {"i32", "i64"} /\ ins.from \in FP!Types
        /\ ins.signed \in BOOLEAN /\ ins.sat \in BOOLEAN
    BY <1>4
  <2>2. ins.op \notin Binary \cup OneFloat
    BY <2>1 DEF Binary, OneFloat, Recodings, FP!Arithmetic, FP!Comparison, FP!Rounding
  <2> QED BY <2>1, <2>2
<1>5. Binary \cup OneFloat = FP!Arithmetic \cup FP!Comparison \cup FP!Rounding
                                    \cup {"min", "max", "copysign", "abs", "neg", "sqrt"}
  BY DEF Binary, OneFloat
<1>6. \/ \E t \in FP!Types : \E op \in Binary \cup OneFloat : ins = FP!Ins(t, op)
      \/ ins \in {FP!Ins("f64", "promote"), FP!Ins("f32", "demote")}
      \/ ins \in [t : FP!Types, op : {"convert"}, from : {"i32", "i64"}, signed : BOOLEAN]
      \/ ins \in [t : {"i32", "i64"}, op : {"truncate"}, from : FP!Types, signed : BOOLEAN, sat : BOOLEAN]
  <2> DEFINE ops == Binary \cup OneFloat
  <2>1. \/ ins \in {FP!Ins(t, op) : t \in FP!Types, op \in ops}
        \/ ins \in {FP!Ins("f64", "promote"), FP!Ins("f32", "demote")}
        \/ ins \in [t : FP!Types, op : {"convert"}, from : {"i32", "i64"}, signed : BOOLEAN]
        \/ ins \in [t : {"i32", "i64"}, op : {"truncate"}, from : FP!Types, signed : BOOLEAN, sat : BOOLEAN]
    <3> HIDE DEF ops
    <3>1. ops = FP!Arithmetic \cup FP!Comparison \cup FP!Rounding
                           \cup {"min", "max", "copysign", "abs", "neg", "sqrt"}
      BY <1>5 DEF ops
    <3> DEFINE A == {FP!Ins(t, op) : t \in FP!Types, op \in ops}
               B == {FP!Ins("f64", "promote"), FP!Ins("f32", "demote")}
               C == [t : FP!Types, op : {"convert"}, from : {"i32", "i64"}, signed : BOOLEAN]
               D == [t : {"i32", "i64"}, op : {"truncate"}, from : FP!Types, signed : BOOLEAN, sat : BOOLEAN]
    <3>2. FP!AllInstrs = A \cup B \cup C \cup D
      BY <3>1 DEF FP!AllInstrs
    <3> HIDE DEF A, B, C, D
    <3>3. ins \in A \/ ins \in B \/ ins \in C \/ ins \in D
      BY <3>2
    <3> QED BY <3>3 DEF A, B, C, D
  <2> QED BY <2>1
<1> QED BY <1>1, <1>2, <1>3, <1>4, <1>6, Zenon

(* The format and the operands of a type.                                  *)
LEMMA TypeFormats ==
  /\ \A t \in FP!Types : FP!Format(t) \in Formats /\ FP!Operands(t) = FP!Patterns(FP!Format(t))
  /\ FP!Format("f32") = FP!F32 /\ FP!Format("f64") = FP!F64
  /\ \A t \in {"i32", "i64"} : FP!Operands(t) = 0..(2^FP!Width(t) - 1)
BY DEF FP!Types, FP!Format, Formats, FP!Operands

(* What an instruction's answer is, class by class.                        *)
LEMMA BinaryRan ==
  ASSUME NEW ins, NEW stack, Ran(ins, stack), ins.op \in Binary
  PROVE  /\ FP!Done /\ finput.ins = ins /\ FP!F \in Formats /\ FP!From = FP!F
         /\ stack[1] \in FP!Patterns(FP!F) /\ stack[2] \in FP!Patterns(FP!F)
         /\ finput.stack = stack /\ FP!x1 = FP!b2f(FP!F, stack[1]) /\ FP!y1 = FP!b2f(FP!F, stack[2])
         /\ ins.op \in FP!Arithmetic => fanswer = FP!Value(FP!binop(FP!F, ins.op, stack[1], stack[2]))
         /\ ins.op \in {"min", "max"} => fanswer = FP!Value(FP!minmax(FP!F, ins.op, stack[1], stack[2]))
         /\ ins.op \in FP!Comparison => fanswer = FP!Value(IF FP!cmp(FP!F, ins.op, stack[1], stack[2]) THEN 1 ELSE 0)
         /\ ins.op = "copysign" => fanswer = FP!Value(FP!copysign(FP!F, stack[1], stack[2]))
<1>1. ins \in FP!AllInstrs /\ stack \in FP!OperandsOf(ins) /\ finput.ins = ins /\ finput.stack = stack
      /\ fanswer = FP!_exec_instr(ins, stack)
  BY DEF Ran
<1>2. ins.t \in FP!Types
  BY <1>1, Shapes
<1>3. FP!F = FP!Format(ins.t) /\ FP!F \in Formats
  BY <1>1, <1>2, TypeFormats DEF FP!F
<1>4. stack \in FP!Patterns(FP!F) \X FP!Patterns(FP!F)
  BY <1>1, <1>2, <1>3, TypeFormats DEF FP!OperandsOf, Binary
<1>5. FP!From = FP!F
  <2>1. ins.op \notin {"promote", "demote", "truncate"}
    BY DEF Binary, FP!Arithmetic, FP!Comparison
  <2> QED BY <1>1, <2>1 DEF FP!From
<1>6. FP!x1 = FP!b2f(FP!F, stack[1]) /\ FP!y1 = FP!b2f(FP!F, stack[2])
  BY <1>1, <1>5 DEF FP!x1, FP!y1
<1> DEFINE op == ins.op
           f == FP!F
           u == stack[1]
           v == stack[2]
<1>7. fanswer = CASE op \in FP!Arithmetic -> FP!Value(FP!binop(f, op, u, v))
        [] op \in {"min", "max"} -> FP!Value(FP!minmax(f, op, u, v))
        [] op \in FP!Comparison -> FP!Value(IF FP!cmp(f, op, u, v) THEN 1 ELSE 0)
        [] op = "copysign" -> FP!Value(FP!copysign(f, u, v))
        [] op = "abs" -> FP!Value(FP!abs(f, u))
        [] op = "neg" -> FP!Value(FP!neg(f, u))
        [] op = "sqrt" -> FP!Value(FP!sqrt(f, u))
        [] op \in FP!Rounding -> FP!Value(FP!round(f, op, u))
        [] op = "promote" -> FP!Value(FP!recode(FP!F32, FP!F64, u))
        [] op = "demote" -> FP!Value(FP!recode(FP!F64, FP!F32, u))
        [] op = "convert" -> FP!Value(FP!convert(ins.t, ins.from, ins.signed, u))
        [] op = "truncate" -> FP!_trunc(ins.t, ins.signed, FP!b2f(FP!Format(ins.from), u), ins.sat)
  BY <1>1, <1>3 DEF FP!_exec_instr
<1>8. op \in Binary
  OBVIOUS
<1> HIDE DEF op, f, u, v
<1>9. /\ op \in FP!Arithmetic => fanswer = FP!Value(FP!binop(f, op, u, v))
      /\ op \in {"min", "max"} => fanswer = FP!Value(FP!minmax(f, op, u, v))
      /\ op \in FP!Comparison => fanswer = FP!Value(IF FP!cmp(f, op, u, v) THEN 1 ELSE 0)
      /\ op = "copysign" => fanswer = FP!Value(FP!copysign(f, u, v))
  BY <1>7 DEF FP!Arithmetic, FP!Comparison, FP!Rounding
<1>10. FP!Done
  <2>1. \E n : fanswer = FP!Value(n)
    BY <1>8, <1>9 DEF Binary
  <2> QED BY <2>1, ValueFacts DEF FP!Done
<1> QED BY <1>1, <1>3, <1>4, <1>5, <1>6, <1>9, <1>10 DEF op, f, u, v

(* The same for one operand,                                               *)
LEMMA OneFloatRan ==
  ASSUME NEW ins, NEW stack, Ran(ins, stack), ins.op \in OneFloat
  PROVE  /\ FP!Done /\ finput.ins = ins /\ FP!F \in Formats /\ FP!From = FP!F
         /\ stack[1] \in FP!Patterns(FP!F) /\ finput.stack = stack /\ FP!x1 = FP!b2f(FP!F, stack[1])
         /\ ins.op = "abs" => fanswer = FP!Value(FP!abs(FP!F, stack[1]))
         /\ ins.op = "neg" => fanswer = FP!Value(FP!neg(FP!F, stack[1]))
         /\ ins.op = "sqrt" => fanswer = FP!Value(FP!sqrt(FP!F, stack[1]))
         /\ ins.op \in FP!Rounding => fanswer = FP!Value(FP!round(FP!F, ins.op, stack[1]))
<1>1. ins \in FP!AllInstrs /\ stack \in FP!OperandsOf(ins) /\ finput.ins = ins /\ finput.stack = stack
      /\ fanswer = FP!_exec_instr(ins, stack)
  BY DEF Ran
<1>2. ins.t \in FP!Types
  BY <1>1, Shapes
<1>3. FP!F = FP!Format(ins.t) /\ FP!F \in Formats
  BY <1>1, <1>2, TypeFormats DEF FP!F
<1>4. stack[1] \in FP!Patterns(FP!F)
  <2>1. ins.op \notin FP!Arithmetic \cup FP!Comparison \cup {"min", "max", "copysign"}
        /\ ins.op \notin {"promote", "demote", "convert", "truncate"}
    BY DEF OneFloat, FP!Rounding, FP!Arithmetic, FP!Comparison
  <2>2. stack \in {<<b>> : b \in FP!Operands(ins.t)}
    BY <1>1, <2>1 DEF FP!OperandsOf
  <2> QED BY <1>2, <1>3, <2>2, TypeFormats
<1>5. FP!From = FP!F
  <2>1. ins.op \notin {"promote", "demote", "truncate"}
    BY DEF OneFloat, FP!Rounding
  <2> QED BY <1>1, <2>1 DEF FP!From
<1>6. FP!x1 = FP!b2f(FP!F, stack[1])
  BY <1>1, <1>5 DEF FP!x1
<1> DEFINE op == ins.op
           f == FP!F
           u == stack[1]
           v == stack[2]
<1>7. fanswer = CASE op \in FP!Arithmetic -> FP!Value(FP!binop(f, op, u, v))
        [] op \in {"min", "max"} -> FP!Value(FP!minmax(f, op, u, v))
        [] op \in FP!Comparison -> FP!Value(IF FP!cmp(f, op, u, v) THEN 1 ELSE 0)
        [] op = "copysign" -> FP!Value(FP!copysign(f, u, v))
        [] op = "abs" -> FP!Value(FP!abs(f, u))
        [] op = "neg" -> FP!Value(FP!neg(f, u))
        [] op = "sqrt" -> FP!Value(FP!sqrt(f, u))
        [] op \in FP!Rounding -> FP!Value(FP!round(f, op, u))
        [] op = "promote" -> FP!Value(FP!recode(FP!F32, FP!F64, u))
        [] op = "demote" -> FP!Value(FP!recode(FP!F64, FP!F32, u))
        [] op = "convert" -> FP!Value(FP!convert(ins.t, ins.from, ins.signed, u))
        [] op = "truncate" -> FP!_trunc(ins.t, ins.signed, FP!b2f(FP!Format(ins.from), u), ins.sat)
  BY <1>1, <1>3 DEF FP!_exec_instr
<1>8. op \in OneFloat
  OBVIOUS
<1> HIDE DEF op, f, u, v
<1>9. /\ op = "abs" => fanswer = FP!Value(FP!abs(f, u))
      /\ op = "neg" => fanswer = FP!Value(FP!neg(f, u))
      /\ op = "sqrt" => fanswer = FP!Value(FP!sqrt(f, u))
      /\ op \in FP!Rounding => fanswer = FP!Value(FP!round(f, op, u))
  BY <1>7 DEF FP!Arithmetic, FP!Comparison, FP!Rounding
<1>10. FP!Done
  <2>1. \E n : fanswer = FP!Value(n)
    BY <1>8, <1>9 DEF OneFloat
  <2> QED BY <2>1, ValueFacts DEF FP!Done
<1> QED BY <1>1, <1>3, <1>4, <1>5, <1>6, <1>9, <1>10 DEF op, f, u

(* for promote and demote,                                                 *)
LEMMA RecodingRan ==
  ASSUME NEW ins, NEW stack, Ran(ins, stack), ins.op \in Recodings
  PROVE  /\ FP!Done /\ finput.ins = ins /\ FP!F \in Formats /\ FP!From \in Formats
         /\ stack[1] \in FP!Patterns(FP!From) /\ finput.stack = stack /\ FP!x1 = FP!b2f(FP!From, stack[1])
         /\ fanswer = FP!Value(FP!recode(FP!From, FP!F, stack[1]))
<1>1. ins \in FP!AllInstrs /\ stack \in FP!OperandsOf(ins) /\ finput.ins = ins /\ finput.stack = stack
      /\ fanswer = FP!_exec_instr(ins, stack)
  BY DEF Ran
<1>2. ins.op \notin FP!Arithmetic \cup FP!Comparison \cup FP!Rounding
      /\ ins.op \notin {"min", "max", "copysign", "abs", "neg", "sqrt", "convert", "truncate"}
  BY DEF Recodings, FP!Rounding, FP!Arithmetic, FP!Comparison
<1>3. CASE ins.op = "promote"
  <2>1. ins.t = "f64" /\ "f32" \in FP!Types
    BY <1>1, <1>3, Shapes DEF FP!Types
  <2>2. FP!F = FP!F64 /\ FP!From = FP!F32 /\ FP!F64 \in Formats /\ FP!F32 \in Formats
    BY <1>1, <1>3, <2>1, TypeFormats DEF FP!F, FP!From, Formats
  <2>3. stack \in {<<b>> : b \in FP!Operands("f32")}
    BY <1>1, <1>2, <1>3 DEF FP!OperandsOf
  <2>4. stack[1] \in FP!Patterns(FP!F32)
    BY <2>1, <2>3, TypeFormats
  <2>5. fanswer = FP!Value(FP!recode(FP!F32, FP!F64, stack[1]))
    BY <1>1, <1>2, <1>3 DEF FP!_exec_instr
  <2>6. FP!Done
    BY <2>5, ValueFacts DEF FP!Done
  <2> QED BY <1>1, <2>2, <2>4, <2>5, <2>6 DEF FP!x1
<1>4. CASE ins.op = "demote"
  <2>1. ins.t = "f32" /\ "f64" \in FP!Types
    BY <1>1, <1>4, Shapes DEF FP!Types
  <2>2. FP!F = FP!F32 /\ FP!From = FP!F64 /\ FP!F64 \in Formats /\ FP!F32 \in Formats
    BY <1>1, <1>4, <2>1, TypeFormats DEF FP!F, FP!From, Formats
  <2>3. stack \in {<<b>> : b \in FP!Operands("f64")}
    BY <1>1, <1>2, <1>4 DEF FP!OperandsOf
  <2>4. stack[1] \in FP!Patterns(FP!F64)
    BY <2>1, <2>3, TypeFormats
  <2>5. fanswer = FP!Value(FP!recode(FP!F64, FP!F32, stack[1]))
    BY <1>1, <1>2, <1>4 DEF FP!_exec_instr
  <2>6. FP!Done
    BY <2>5, ValueFacts DEF FP!Done
  <2> QED BY <1>1, <2>2, <2>4, <2>5, <2>6 DEF FP!x1
<1> QED BY <1>3, <1>4 DEF Recodings

(* for an integer's float,                                                 *)
LEMMA ConvertRan ==
  ASSUME NEW ins, NEW stack, Ran(ins, stack), ins.op = "convert"
  PROVE  /\ FP!Done /\ finput.ins = ins /\ finput.stack = stack /\ FP!F \in Formats /\ FP!F = FP!Format(ins.t)
         /\ ins.t \in {"f32", "f64"} /\ ins.from \in {"i32", "i64"} /\ ins.signed \in BOOLEAN
         /\ stack[1] \in 0..(2^FP!Width(ins.from) - 1)
         /\ fanswer = FP!Value(FP!convert(ins.t, ins.from, ins.signed, stack[1]))
         /\ \E n \in FP!Patterns(FP!F) : fanswer = FP!Value(n)
<1>1. ins \in FP!AllInstrs /\ stack \in FP!OperandsOf(ins) /\ finput.ins = ins /\ finput.stack = stack
      /\ fanswer = FP!_exec_instr(ins, stack)
  BY DEF Ran
<1>2. ins.op \notin FP!Arithmetic \cup FP!Comparison \cup FP!Rounding
  BY DEF FP!Rounding, FP!Arithmetic, FP!Comparison
<1>3. ins.t \in FP!Types /\ ins.from \in {"i32", "i64"} /\ ins.signed \in BOOLEAN
  BY <1>1, Shapes
<1>4. FP!F = FP!Format(ins.t) /\ FP!F \in Formats
  BY <1>1, <1>3, TypeFormats DEF FP!F
<1>5. stack \in {<<b>> : b \in FP!Operands(ins.from)}
  BY <1>1, <1>2 DEF FP!OperandsOf
<1>6. stack[1] \in 0..(2^FP!Width(ins.from) - 1)
  <2>1. FP!Operands(ins.from) = 0..(2^FP!Width(ins.from) - 1)
    BY <1>3, TypeFormats
  <2>2. PICK b \in FP!Operands(ins.from) : stack = <<b>>
    BY <1>5
  <2>3. stack[1] = b
    BY <2>2
  <2> QED BY <2>1, <2>3
<1>7. fanswer = FP!Value(FP!convert(ins.t, ins.from, ins.signed, stack[1]))
  BY <1>1, <1>2 DEF FP!_exec_instr
<1>8. FP!convert(ins.t, ins.from, ins.signed, stack[1]) \in FP!Patterns(FP!F)
  BY <1>3, <1>4, <1>6, ConvertResult DEF FP!Types
<1>9. FP!Done
  BY <1>7, ValueFacts DEF FP!Done
<1> QED BY <1>1, <1>3, <1>4, <1>6, <1>7, <1>8, <1>9 DEF FP!Types

(* and for a float's integer.                                              *)
LEMMA TruncateRan ==
  ASSUME NEW ins, NEW stack, Ran(ins, stack), ins.op = "truncate"
  PROVE  /\ FP!Done /\ finput.ins = ins /\ finput.stack = stack /\ ins.t \in {"i32", "i64"}
         /\ FP!From \in Formats /\ stack[1] \in FP!Patterns(FP!From) /\ FP!x1 = FP!b2f(FP!From, stack[1])
         /\ ins.signed \in BOOLEAN /\ ins.sat \in BOOLEAN
         /\ fanswer = FP!_trunc(ins.t, ins.signed, FP!x1, ins.sat)
<1>1. ins \in FP!AllInstrs /\ stack \in FP!OperandsOf(ins) /\ finput.ins = ins /\ finput.stack = stack
      /\ fanswer = FP!_exec_instr(ins, stack)
  BY DEF Ran
<1>2. ins.op \notin FP!Arithmetic \cup FP!Comparison \cup FP!Rounding
  BY DEF FP!Rounding, FP!Arithmetic, FP!Comparison
<1>3. ins.t \in {"i32", "i64"} /\ ins.from \in FP!Types /\ ins.signed \in BOOLEAN /\ ins.sat \in BOOLEAN
  BY <1>1, Shapes
<1>4. FP!From = FP!Format(ins.from) /\ FP!From \in Formats /\ FP!Operands(ins.from) = FP!Patterns(FP!From)
  BY <1>1, <1>3, TypeFormats DEF FP!From
<1>5. stack \in {<<b>> : b \in FP!Operands(ins.from)}
  BY <1>1, <1>2 DEF FP!OperandsOf
<1>6. stack[1] \in FP!Patterns(FP!From)
  BY <1>4, <1>5
<1>7. FP!x1 = FP!b2f(FP!From, stack[1])
  BY <1>1 DEF FP!x1
<1>8. fanswer = FP!_trunc(ins.t, ins.signed, FP!x1, ins.sat)
  BY <1>1, <1>2, <1>4, <1>7 DEF FP!_exec_instr
<1>9. FP!Done
  <2>1. FP!x1 \in Floats
    BY <1>4, <1>6, <1>7, UnpackedType
  <2>2. \/ \E n \in 0..(2^FP!Width(ins.t) - 1) : fanswer = FP!Value(n)
        \/ fanswer \in {FP!INVALID_CONVERSION, FP!INTEGER_OVERFLOW}
    BY <1>3, <1>8, <2>1, TruncResult
  <2> QED BY <2>2, ValueFacts DEF FP!Done
<1> QED BY <1>1, <1>3, <1>4, <1>6, <1>7, <1>8, <1>9

(* The parts of SpecialValues, one by one: types,                          *)
LEMMA TypesOfAnswers ==
  ASSUME NEW ins, NEW stack, Ran(ins, stack)
  PROVE  FP!TypeOK
<1>0. ins \in FP!AllInstrs
  BY DEF Ran
<1>1. ASSUME FP!Done, FP!F \in Formats, finput.ins = ins, ins.op \notin FP!Comparison \cup {"truncate"},
             \E n \in FP!Patterns(FP!F) : fanswer = FP!Value(n)
      PROVE  FP!TypeOK
  <2>1. PICK n \in FP!Patterns(FP!F) : fanswer = FP!Value(n)
    BY <1>1
  <2>2. fanswer.trap = "none" /\ FP!r = n
    BY <2>1, ValueFacts DEF FP!r
  <2>3. ~FP!Is(FP!Comparison \cup {"truncate"})
    BY <1>1 DEF FP!Is
  <2> QED BY <2>2, <2>3 DEF FP!TypeOK
<1>2. CASE ins.op \in Binary
  <2>1. /\ FP!Done /\ finput.ins = ins /\ FP!F \in Formats
        /\ stack[1] \in FP!Patterns(FP!F) /\ stack[2] \in FP!Patterns(FP!F)
        /\ ins.op \in FP!Arithmetic => fanswer = FP!Value(FP!binop(FP!F, ins.op, stack[1], stack[2]))
        /\ ins.op \in {"min", "max"} => fanswer = FP!Value(FP!minmax(FP!F, ins.op, stack[1], stack[2]))
        /\ ins.op \in FP!Comparison => fanswer = FP!Value(IF FP!cmp(FP!F, ins.op, stack[1], stack[2]) THEN 1 ELSE 0)
        /\ ins.op = "copysign" => fanswer = FP!Value(FP!copysign(FP!F, stack[1], stack[2]))
    BY <1>2, BinaryRan
  <2>2. CASE ins.op \in FP!Arithmetic
    <3>1. FP!binop(FP!F, ins.op, stack[1], stack[2]) \in FP!Patterns(FP!F)
      BY <2>1, <2>2, BinopResult DEF Canonical
    <3>2. ins.op \notin FP!Comparison \cup {"truncate"}
      BY <2>2 DEF FP!Arithmetic, FP!Comparison
    <3> QED BY <1>1, <2>1, <2>2, <3>1, <3>2
  <2>3. CASE ins.op \in {"min", "max"}
    <3>1. FP!minmax(FP!F, ins.op, stack[1], stack[2]) \in FP!Patterns(FP!F)
      BY <2>1, <2>3, MinMaxResult DEF Canonical
    <3>2. ins.op \notin FP!Comparison \cup {"truncate"}
      BY <2>3 DEF FP!Comparison
    <3> QED BY <1>1, <2>1, <2>3, <3>1, <3>2
  <2>4. CASE ins.op = "copysign"
    <3>1. FP!copysign(FP!F, stack[1], stack[2]) \in FP!Patterns(FP!F)
      BY <2>1, SignOpResults
    <3>2. ins.op \notin FP!Comparison \cup {"truncate"}
      BY <2>4 DEF FP!Comparison
    <3> QED BY <1>1, <2>1, <2>4, <3>1, <3>2
  <2>5. CASE ins.op \in FP!Comparison
    <3> DEFINE n == IF FP!cmp(FP!F, ins.op, stack[1], stack[2]) THEN 1 ELSE 0
    <3>1. n \in {0, 1} /\ fanswer = FP!Value(n)
      BY <2>1, <2>5
    <3> HIDE DEF n
    <3>2. fanswer.trap = "none" /\ FP!r \in {0, 1}
      BY <3>1, ValueFacts DEF FP!r
    <3>3. FP!Is(FP!Comparison)
      BY <2>1, <2>5 DEF FP!Is
    <3> QED BY <3>2, <3>3 DEF FP!TypeOK
  <2> QED BY <1>2, <2>2, <2>3, <2>4, <2>5 DEF Binary
<1>3. CASE ins.op \in OneFloat
  <2>1. /\ FP!Done /\ finput.ins = ins /\ FP!F \in Formats /\ stack[1] \in FP!Patterns(FP!F)
        /\ ins.op = "abs" => fanswer = FP!Value(FP!abs(FP!F, stack[1]))
        /\ ins.op = "neg" => fanswer = FP!Value(FP!neg(FP!F, stack[1]))
        /\ ins.op = "sqrt" => fanswer = FP!Value(FP!sqrt(FP!F, stack[1]))
        /\ ins.op \in FP!Rounding => fanswer = FP!Value(FP!round(FP!F, ins.op, stack[1]))
    BY <1>3, OneFloatRan
  <2>2. /\ FP!abs(FP!F, stack[1]) \in FP!Patterns(FP!F) /\ FP!neg(FP!F, stack[1]) \in FP!Patterns(FP!F)
    BY <2>1, SignOpResults
  <2>3. FP!sqrt(FP!F, stack[1]) \in FP!Patterns(FP!F) /\ FP!round(FP!F, ins.op, stack[1]) \in FP!Patterns(FP!F)
    BY <2>1, SqrtResult, RoundResult DEF Canonical
  <2>4. ins.op \notin FP!Comparison \cup {"truncate"}
    BY <1>3 DEF OneFloat, FP!Rounding, FP!Comparison
  <2>5. \E n \in FP!Patterns(FP!F) : fanswer = FP!Value(n)
    BY <1>3, <2>1, <2>2, <2>3 DEF OneFloat
  <2> QED BY <1>1, <2>1, <2>4, <2>5
<1>4. CASE ins.op \in Recodings
  <2>1. /\ FP!Done /\ finput.ins = ins /\ FP!F \in Formats /\ FP!From \in Formats
        /\ stack[1] \in FP!Patterns(FP!From) /\ fanswer = FP!Value(FP!recode(FP!From, FP!F, stack[1]))
    BY <1>4, RecodingRan
  <2>2. FP!recode(FP!From, FP!F, stack[1]) \in FP!Patterns(FP!F)
    BY <2>1, RecodeResult DEF Canonical
  <2>3. ins.op \notin FP!Comparison \cup {"truncate"}
    BY <1>4 DEF Recodings, FP!Comparison
  <2> QED BY <1>1, <2>1, <2>2, <2>3
<1>5. CASE ins.op = "convert"
  <2>1. FP!Done /\ finput.ins = ins /\ FP!F \in Formats /\ \E n \in FP!Patterns(FP!F) : fanswer = FP!Value(n)
    BY <1>5, ConvertRan
  <2>2. ins.op \notin FP!Comparison \cup {"truncate"}
    BY <1>5 DEF FP!Comparison
  <2> QED BY <1>1, <2>1, <2>2
<1>6. CASE ins.op = "truncate"
  <2>1. /\ FP!Done /\ finput.ins = ins /\ ins.t \in {"i32", "i64"}
        /\ FP!From \in Formats /\ stack[1] \in FP!Patterns(FP!From) /\ FP!x1 = FP!b2f(FP!From, stack[1])
        /\ ins.signed \in BOOLEAN /\ ins.sat \in BOOLEAN
        /\ fanswer = FP!_trunc(ins.t, ins.signed, FP!x1, ins.sat)
    BY <1>6, TruncateRan
  <2>2. FP!x1 \in Floats
    BY <2>1, UnpackedType
  <2>3. \/ \E n \in 0..(2^FP!Width(ins.t) - 1) : fanswer = FP!Value(n)
        \/ fanswer \in {FP!INVALID_CONVERSION, FP!INTEGER_OVERFLOW}
    BY <2>1, <2>2, TruncResult
  <2>4. FP!Is({"truncate"})
    BY <1>6, <2>1 DEF FP!Is
  <2>5. CASE \E n \in 0..(2^FP!Width(ins.t) - 1) : fanswer = FP!Value(n)
    <3>1. PICK n \in 0..(2^FP!Width(ins.t) - 1) : fanswer = FP!Value(n)
      BY <2>5
    <3>2. fanswer.trap = "none" /\ FP!r = n
      BY <3>1, ValueFacts DEF FP!r
    <3> QED BY <2>1, <2>4, <3>2 DEF FP!TypeOK
  <2>6. CASE fanswer \in {FP!INVALID_CONVERSION, FP!INTEGER_OVERFLOW}
    BY <2>4, <2>6 DEF FP!TypeOK
  <2> QED BY <2>3, <2>5, <2>6
<1> QED BY <1>0, <1>2, <1>3, <1>4, <1>5, <1>6, Shapes

(* NaNs,                                                                   *)
LEMMA NaNsAreCanonical ==
  ASSUME NEW ins, NEW stack, Ran(ins, stack)
  PROVE  FP!CanonicalNaNs
<1> DEFINE Makers == FP!Arithmetic \cup FP!Rounding \cup {"min", "max", "sqrt", "promote", "demote"}
<1>1. ASSUME FP!F \in Formats, Canonical(FP!F, FP!r, FP!Undefined) PROVE FP!CanonicalNaNs
  <2>1. FP!is_nan(FP!F, FP!r) = FP!Undefined
    <3>1. FP!is_nan(FP!F, FP!r) \in BOOLEAN
      BY DEF FP!is_nan
    <3>2. FP!Undefined \in BOOLEAN
      BY DEF FP!Undefined
    <3>3. FP!is_nan(FP!F, FP!r) <=> FP!Undefined
      BY <1>1 DEF Canonical
    <3> QED BY <3>1, <3>2, <3>3
  <2>2. FP!Undefined => FP!r = FP!CANON_NAN(FP!F)
    BY <1>1 DEF Canonical
  <2>3. FP!is_canonical_nan(FP!F, FP!CANON_NAN(FP!F)) /\ FP!is_arithmetic_nan(FP!F, FP!CANON_NAN(FP!F))
    BY <1>1, CanonFacts
  <2> QED BY <2>1, <2>2, <2>3 DEF FP!CanonicalNaNs
<1>2. SUFFICES ASSUME FP!Is(Makers) PROVE FP!CanonicalNaNs
  BY DEF FP!CanonicalNaNs
<1>3. ins.op \in Makers
  <2>1. finput.ins = ins
    BY DEF Ran
  <2> HIDE DEF Makers
  <2>2. finput.ins.op \in Makers
    BY <1>2 DEF FP!Is
  <2> QED BY <2>1, <2>2
<1>4. CASE ins.op \in FP!Arithmetic
  <2>1. /\ FP!Done /\ finput.ins = ins /\ FP!F \in Formats
        /\ stack[1] \in FP!Patterns(FP!F) /\ stack[2] \in FP!Patterns(FP!F)
        /\ FP!x1 = FP!b2f(FP!F, stack[1]) /\ FP!y1 = FP!b2f(FP!F, stack[2])
        /\ fanswer = FP!Value(FP!binop(FP!F, ins.op, stack[1], stack[2]))
    BY <1>4, BinaryRan DEF Binary
  <2>2. FP!r = FP!binop(FP!F, ins.op, stack[1], stack[2])
    BY <2>1, ValueFacts DEF FP!r
  <2> DEFINE zero == ins.op = "div" /\ FP!iszero(FP!y1)
             undefined == FP!isnan(FP!x1) \/ FP!isnan(FP!y1) \/ (~zero /\ FP!isnan(FP!Exact(ins.op, FP!x1, FP!y1)))
                          \/ (zero /\ FP!iszero(FP!x1))
  <2>3. Canonical(FP!F, FP!r, undefined)
    BY <1>4, <2>1, <2>2, BinopResult
  <2>4. FP!Division <=> zero
    BY <2>1 DEF FP!Division, FP!Is
  <2>5. FP!Is(FP!Arithmetic) /\ FP!Is(FP!Arithmetic \cup {"min", "max"})
    BY <1>4, <2>1 DEF FP!Is
  <2>6. ~FP!Is(FP!Rounding \cup {"sqrt", "promote", "demote"}) /\ ~FP!Is({"sqrt"})
    BY <1>4, <2>1 DEF FP!Is, FP!Arithmetic, FP!Rounding
  <2>7. FP!Undefined <=> undefined
    <3> HIDE DEF zero
    <3> QED BY <2>1, <2>4, <2>5, <2>6 DEF FP!Undefined
  <2> HIDE DEF undefined
  <2>8. Canonical(FP!F, FP!r, FP!Undefined)
    BY <2>3, <2>7 DEF Canonical
  <2> QED BY <1>1, <2>1, <2>8
<1>5. CASE ins.op \in {"min", "max"}
  <2>1. /\ FP!Done /\ finput.ins = ins /\ FP!F \in Formats
        /\ stack[1] \in FP!Patterns(FP!F) /\ stack[2] \in FP!Patterns(FP!F)
        /\ FP!x1 = FP!b2f(FP!F, stack[1]) /\ FP!y1 = FP!b2f(FP!F, stack[2])
        /\ fanswer = FP!Value(FP!minmax(FP!F, ins.op, stack[1], stack[2]))
    BY <1>5, BinaryRan DEF Binary
  <2>2. FP!r = FP!minmax(FP!F, ins.op, stack[1], stack[2])
    BY <2>1, ValueFacts DEF FP!r
  <2> DEFINE undefined == FP!is_nan(FP!F, stack[1]) \/ FP!is_nan(FP!F, stack[2])
  <2>3. Canonical(FP!F, FP!r, undefined)
    BY <1>5, <2>1, <2>2, MinMaxResult
  <2>4. (FP!isnan(FP!x1) <=> FP!is_nan(FP!F, stack[1])) /\ (FP!isnan(FP!y1) <=> FP!is_nan(FP!F, stack[2]))
    BY <2>1, UnpackedType
  <2>5. FP!Is(FP!Arithmetic \cup {"min", "max"})
    BY <1>5, <2>1 DEF FP!Is
  <2>6. ~FP!Is(FP!Rounding \cup {"sqrt", "promote", "demote"}) /\ ~FP!Is({"sqrt"}) /\ ~FP!Is(FP!Arithmetic) /\ ~FP!Division
    BY <1>5, <2>1 DEF FP!Is, FP!Arithmetic, FP!Rounding, FP!Division
  <2>7. FP!Undefined <=> undefined
    BY <2>4, <2>5, <2>6 DEF FP!Undefined
  <2> HIDE DEF undefined
  <2>8. Canonical(FP!F, FP!r, FP!Undefined)
    BY <2>3, <2>7 DEF Canonical
  <2> QED BY <1>1, <2>1, <2>8
<1>6. CASE ins.op \in FP!Rounding \cup {"sqrt"}
  <2>1. /\ FP!Done /\ finput.ins = ins /\ FP!F \in Formats
        /\ stack[1] \in FP!Patterns(FP!F) /\ FP!x1 = FP!b2f(FP!F, stack[1])
        /\ ins.op = "sqrt" => fanswer = FP!Value(FP!sqrt(FP!F, stack[1]))
        /\ ins.op \in FP!Rounding => fanswer = FP!Value(FP!round(FP!F, ins.op, stack[1]))
    BY <1>6, OneFloatRan DEF OneFloat
  <2> DEFINE undefined == FP!isnan(FP!x1) \/ (ins.op = "sqrt" /\ FP!x1.neg /\ ~FP!iszero(FP!x1))
  <2>2. Canonical(FP!F, FP!r, undefined)
    <3>1. CASE ins.op = "sqrt"
      <4>1. FP!r = FP!sqrt(FP!F, stack[1])
        BY <2>1, <3>1, ValueFacts DEF FP!r
      <4>2. Canonical(FP!F, FP!r, FP!isnan(FP!x1) \/ (FP!x1.neg /\ ~FP!iszero(FP!x1)))
        BY <2>1, <4>1, SqrtResult
      <4> QED BY <3>1, <4>2 DEF Canonical
    <3>2. CASE ins.op \in FP!Rounding
      <4>1. FP!r = FP!round(FP!F, ins.op, stack[1])
        BY <2>1, <3>2, ValueFacts DEF FP!r
      <4>2. Canonical(FP!F, FP!r, FP!isnan(FP!x1))
        BY <2>1, <4>1, RoundResult
      <4>3. ins.op # "sqrt"
        BY <3>2 DEF FP!Rounding
      <4> QED BY <4>2, <4>3 DEF Canonical
    <3> QED BY <1>6, <3>1, <3>2
  <2>3. FP!Is(FP!Rounding \cup {"sqrt", "promote", "demote"}) /\ (FP!Is({"sqrt"}) <=> ins.op = "sqrt")
    BY <1>6, <2>1 DEF FP!Is
  <2>4. ~FP!Is(FP!Arithmetic) /\ ~FP!Is(FP!Arithmetic \cup {"min", "max"}) /\ ~FP!Division
    BY <1>6, <2>1 DEF FP!Is, FP!Arithmetic, FP!Rounding, FP!Division
  <2>5. FP!Undefined <=> undefined
    BY <2>3, <2>4 DEF FP!Undefined
  <2> HIDE DEF undefined
  <2>6. Canonical(FP!F, FP!r, FP!Undefined)
    BY <2>2, <2>5 DEF Canonical
  <2> QED BY <1>1, <2>1, <2>6
<1>7. CASE ins.op \in Recodings
  <2>1. /\ FP!Done /\ finput.ins = ins /\ FP!F \in Formats /\ FP!From \in Formats
        /\ stack[1] \in FP!Patterns(FP!From) /\ FP!x1 = FP!b2f(FP!From, stack[1])
        /\ fanswer = FP!Value(FP!recode(FP!From, FP!F, stack[1]))
    BY <1>7, RecodingRan
  <2>2. FP!r = FP!recode(FP!From, FP!F, stack[1])
    BY <2>1, ValueFacts DEF FP!r
  <2>3. Canonical(FP!F, FP!r, FP!isnan(FP!x1))
    BY <2>1, <2>2, RecodeResult
  <2>4. FP!Is(FP!Rounding \cup {"sqrt", "promote", "demote"})
    BY <1>7, <2>1 DEF FP!Is, Recodings
  <2>5. ~FP!Is({"sqrt"}) /\ ~FP!Is(FP!Arithmetic) /\ ~FP!Is(FP!Arithmetic \cup {"min", "max"}) /\ ~FP!Division
    BY <1>7, <2>1 DEF FP!Is, FP!Arithmetic, Recodings, FP!Division
  <2>6. FP!Undefined <=> FP!isnan(FP!x1)
    BY <2>4, <2>5 DEF FP!Undefined
  <2>7. Canonical(FP!F, FP!r, FP!Undefined)
    BY <2>3, <2>6 DEF Canonical
  <2> QED BY <1>1, <2>1, <2>7
<1> QED BY <1>3, <1>4, <1>5, <1>6, <1>7 DEF Recodings

(* divisions by zero,                                                      *)
LEMMA ZeroDivides ==
  ASSUME NEW ins, NEW stack, Ran(ins, stack)
  PROVE  FP!DividesByZero
<1> SUFFICES ASSUME FP!Division, ~FP!Undefined PROVE FP!DividesByZero
  BY DEF FP!DividesByZero
<1>1. ins.op = "div" /\ FP!iszero(FP!y1)
  BY DEF FP!Division, FP!Is, Ran
<1>2. ins.op \in FP!Arithmetic
  BY <1>1 DEF FP!Arithmetic
<1>3. /\ FP!Done /\ finput.ins = ins /\ FP!F \in Formats
      /\ stack[1] \in FP!Patterns(FP!F) /\ stack[2] \in FP!Patterns(FP!F) /\ finput.stack = stack
      /\ FP!x1 = FP!b2f(FP!F, stack[1]) /\ FP!y1 = FP!b2f(FP!F, stack[2])
      /\ fanswer = FP!Value(FP!binop(FP!F, ins.op, stack[1], stack[2]))
  BY <1>2, BinaryRan DEF Binary
<1>4. FP!r = FP!binop(FP!F, ins.op, stack[1], stack[2])
  BY <1>3, ValueFacts DEF FP!r
<1>5. ~FP!isnan(FP!x1) /\ ~FP!isnan(FP!y1) /\ ~FP!iszero(FP!x1)
  <2>1. FP!Is(FP!Arithmetic \cup {"min", "max"})
    BY <1>2, <1>3 DEF FP!Is
  <2> QED BY <2>1 DEF FP!Undefined
<1>6. FP!b2f(FP!F, FP!r) = FP!Inf((stack[1] >= FP!SIGN(FP!F)) # (stack[2] >= FP!SIGN(FP!F)))
  BY <1>1, <1>2, <1>3, <1>4, <1>5, BinopResult
<1> QED BY <1>3, <1>6 DEF FP!DividesByZero, FP!Result

(* the zeros of min and max,                                               *)
LEMMA ZerosOrdered ==
  ASSUME NEW ins, NEW stack, Ran(ins, stack)
  PROVE  FP!MinMaxOrderZeros
<1> SUFFICES ASSUME FP!Is({"min", "max"}), ~FP!Undefined PROVE FP!MinMaxOrderZeros
  BY DEF FP!MinMaxOrderZeros
<1>1. ins.op \in {"min", "max"}
  BY DEF FP!Is, Ran
<1> DEFINE u == stack[1]
           v == stack[2]
<1>2. /\ FP!Done /\ finput.ins = ins /\ FP!F \in Formats /\ u \in FP!Patterns(FP!F) /\ v \in FP!Patterns(FP!F)
      /\ finput.stack = stack /\ FP!x1 = FP!b2f(FP!F, u) /\ FP!y1 = FP!b2f(FP!F, v)
      /\ fanswer = FP!Value(FP!minmax(FP!F, ins.op, u, v))
  BY <1>1, BinaryRan DEF Binary
<1>3. FP!r = FP!minmax(FP!F, ins.op, u, v)
  BY <1>2, ValueFacts DEF FP!r
<1>4. ~FP!is_nan(FP!F, u) /\ ~FP!is_nan(FP!F, v)
  <2>1. ~FP!isnan(FP!x1) /\ ~FP!isnan(FP!y1)
    <3>1. FP!Is(FP!Arithmetic \cup {"min", "max"})
      BY <1>1, <1>2 DEF FP!Is
    <3> QED BY <3>1 DEF FP!Undefined
  <2> QED BY <1>2, <2>1, UnpackedType
<1>5. FP!r \in {u, v} /\ Rank(FP!F, FP!r) = IF ins.op = "min" THEN (IF Rank(FP!F, u) < Rank(FP!F, v) THEN Rank(FP!F, u) ELSE Rank(FP!F, v))
                                   ELSE (IF Rank(FP!F, u) > Rank(FP!F, v) THEN Rank(FP!F, u) ELSE Rank(FP!F, v))
  BY <1>1, <1>2, <1>3, <1>4, MinMaxResult
<1>6. finput.stack[1] = u /\ finput.stack[2] = v /\ finput.ins.op = ins.op
  BY <1>2
<1> HIDE DEF u, v
<1> QED BY <1>5, <1>6 DEF FP!MinMaxOrderZeros, Rank

(* the payloads of the sign operations,                                    *)
LEMMA PayloadsKept ==
  ASSUME NEW ins, NEW stack, Ran(ins, stack)
  PROVE  FP!SignOpsKeepPayloads
<1> SUFFICES ASSUME FP!Is({"abs", "neg", "copysign"}) PROVE FP!SignOpsKeepPayloads
  BY DEF FP!SignOpsKeepPayloads
<1> DEFINE u == stack[1]
           v == stack[2]
           op == ins.op
           s == FP!r >= FP!SIGN(FP!F)
           s1 == u >= FP!SIGN(FP!F)
           s2 == v >= FP!SIGN(FP!F)
<1>1. op \in {"abs", "neg", "copysign"} /\ finput.ins.op = op /\ finput.stack[1] = u /\ finput.stack[2] = v
  BY DEF FP!Is, Ran
<1>2. /\ FP!Abs(FP!F, FP!r) = FP!Abs(FP!F, u)
      /\ op = "abs" => ~s
      /\ op = "neg" => (s <=> ~s1)
      /\ op = "copysign" => (s <=> s2)
  <2>1. CASE op = "copysign"
    <3>1. FP!F \in Formats /\ u \in FP!Patterns(FP!F) /\ v \in FP!Patterns(FP!F) /\ fanswer = FP!Value(FP!copysign(FP!F, u, v))
      BY <2>1, BinaryRan DEF Binary
    <3>2. FP!r = FP!copysign(FP!F, u, v)
      BY <3>1, ValueFacts DEF FP!r
    <3>3. /\ FP!Abs(FP!F, FP!copysign(FP!F, u, v)) = FP!Abs(FP!F, u)
          /\ FP!copysign(FP!F, u, v) >= FP!SIGN(FP!F) <=> v >= FP!SIGN(FP!F)
      <4> HIDE DEF u, v
      <4> QED BY <3>1, SignOpResults
    <3>4. FP!Abs(FP!F, FP!r) = FP!Abs(FP!F, u) /\ (s <=> s2)
      BY <3>2, <3>3
    <3> QED BY <2>1, <3>4
  <2>2. CASE op \in {"abs", "neg"}
    <3>1. /\ FP!F \in Formats /\ u \in FP!Patterns(FP!F)
          /\ op = "abs" => fanswer = FP!Value(FP!abs(FP!F, u))
          /\ op = "neg" => fanswer = FP!Value(FP!neg(FP!F, u))
      BY <2>2, OneFloatRan DEF OneFloat
    <3>2. (op = "abs" => FP!r = FP!abs(FP!F, u)) /\ (op = "neg" => FP!r = FP!neg(FP!F, u))
      BY <3>1, ValueFacts DEF FP!r
    <3>3. /\ FP!Abs(FP!F, FP!abs(FP!F, u)) = FP!Abs(FP!F, u) /\ ~(FP!abs(FP!F, u) >= FP!SIGN(FP!F))
          /\ FP!Abs(FP!F, FP!neg(FP!F, u)) = FP!Abs(FP!F, u) /\ (FP!neg(FP!F, u) >= FP!SIGN(FP!F) <=> ~(u >= FP!SIGN(FP!F)))
      BY <3>1, SignOpResults
    <3> QED BY <2>2, <3>2, <3>3
  <2> QED BY <1>1, <2>1, <2>2
<1>3. s \in BOOLEAN /\ s1 \in BOOLEAN /\ s2 \in BOOLEAN
  OBVIOUS
<1>4. FP!SignOpsKeepPayloads <=>
        /\ FP!Abs(FP!F, FP!r) = FP!Abs(FP!F, u)
        /\ s = CASE op = "abs" -> FALSE [] op = "neg" -> ~s1 [] op = "copysign" -> s2
  BY <1>1 DEF FP!SignOpsKeepPayloads
<1> HIDE DEF u, v, op, s, s1, s2
<1>5. s = CASE op = "abs" -> FALSE [] op = "neg" -> ~s1 [] op = "copysign" -> s2
  <2>1. CASE op = "abs"
    BY <1>2, <1>3, <2>1
  <2>2. CASE op = "neg"
    BY <1>2, <1>3, <2>2
  <2>3. CASE op = "copysign"
    BY <1>2, <1>3, <2>3
  <2> QED BY <1>1, <2>1, <2>2, <2>3
<1> QED BY <1>2, <1>4, <1>5

(* and comparisons.                                                        *)
LEMMA PatternsOrdered ==
  ASSUME NEW ins, NEW stack, Ran(ins, stack)
  PROVE  FP!ComparisonsOrder
<1> SUFFICES ASSUME FP!Is(FP!Comparison) PROVE FP!ComparisonsOrder
  BY DEF FP!ComparisonsOrder
<1> DEFINE u == stack[1]
           v == stack[2]
           op == ins.op
           k == Position(FP!F, u)
           l == Position(FP!F, v)
           nan == FP!isnan(FP!x1) \/ FP!isnan(FP!y1)
           holds == IF nan THEN op = "ne"
                    ELSE \/ k < l /\ op \in {"lt", "le", "ne"}
                         \/ k = l /\ op \in {"eq", "le", "ge"}
                         \/ k > l /\ op \in {"gt", "ge", "ne"}
           c == FP!cmp(FP!F, op, u, v)
<1>1. op \in FP!Comparison
  BY DEF FP!Is, Ran
<1>2. /\ FP!Done /\ finput.ins = ins /\ FP!F \in Formats /\ u \in FP!Patterns(FP!F) /\ v \in FP!Patterns(FP!F)
      /\ finput.stack = stack /\ FP!x1 = FP!b2f(FP!F, u) /\ FP!y1 = FP!b2f(FP!F, v)
      /\ fanswer = FP!Value(IF c THEN 1 ELSE 0)
  BY <1>1, BinaryRan DEF Binary
<1>3. FP!r = IF c THEN 1 ELSE 0
  <2> DEFINE n == IF c THEN 1 ELSE 0
  <2>1. fanswer = FP!Value(n)
    BY <1>2
  <2> HIDE DEF n
  <2>2. FP!r = n
    BY <2>1, ValueFacts DEF FP!r
  <2> QED BY <2>2 DEF n
<1>4. (FP!isnan(FP!x1) <=> FP!is_nan(FP!F, u)) /\ (FP!isnan(FP!y1) <=> FP!is_nan(FP!F, v))
  BY <1>2, UnpackedType
<1>5. c <=> holds
  <2>1. c <=> IF FP!is_nan(FP!F, u) \/ FP!is_nan(FP!F, v) THEN op = "ne"
              ELSE \/ k < l /\ op \in {"lt", "le", "ne"}
                   \/ k = l /\ op \in {"eq", "le", "ge"}
                   \/ k > l /\ op \in {"gt", "ge", "ne"}
    BY <1>1, <1>2, CmpResult
  <2> HIDE DEF c, k, l, u, v, op
  <2> QED BY <1>4, <2>1
<1>6. holds \in BOOLEAN
  OBVIOUS
<1>7. FP!ComparisonsOrder <=> ((FP!r = 1) = holds)
  <2>1. finput.stack[1] = u /\ finput.stack[2] = v /\ finput.ins.op = op
    BY <1>2
  <2> HIDE DEF u, v, op
  <2> QED BY <2>1 DEF FP!ComparisonsOrder, Position
<1> HIDE DEF c, holds
<1>8. (FP!r = 1) = holds
  BY <1>3, <1>5, <1>6
<1> QED BY <1>7, <1>8

(* Nothing executed, or one instruction on operands of its own.            *)
FloatExecuted == \E ins \in FP!AllInstrs : \E stack \in FP!OperandsOf(ins) :
              /\ finput = [ins |-> ins, stack |-> stack]
              /\ fanswer \in {FP!FTrap("not yet"), FP!_exec_instr(ins, stack)}

(* Before an instruction has executed there is nothing to say, afterwards  *)
(* all of them.                                                            *)
LEMMA ExecutedIsSpecial == FloatExecuted => FP!SpecialValues
<1> SUFFICES ASSUME FloatExecuted PROVE FP!SpecialValues
  OBVIOUS
<1>1. PICK ins \in FP!AllInstrs : \E stack \in FP!OperandsOf(ins) :
        /\ finput = [ins |-> ins, stack |-> stack]
        /\ fanswer \in {FP!FTrap("not yet"), FP!_exec_instr(ins, stack)}
  BY DEF FloatExecuted
<1>2. PICK stack \in FP!OperandsOf(ins) :
        /\ finput = [ins |-> ins, stack |-> stack]
        /\ fanswer \in {FP!FTrap("not yet"), FP!_exec_instr(ins, stack)}
  BY <1>1
<1>3. CASE fanswer = FP!FTrap("not yet")
  <2>1. ~FP!Done
    BY <1>3 DEF FP!Done
  <2>2. FP!TypeOK
    BY <2>1 DEF FP!TypeOK
  <2>3. FP!CanonicalNaNs
    BY <2>1 DEF FP!CanonicalNaNs, FP!Is
  <2>4. FP!DividesByZero
    BY <2>1 DEF FP!DividesByZero, FP!Division, FP!Is
  <2>5. FP!MinMaxOrderZeros
    BY <2>1 DEF FP!MinMaxOrderZeros, FP!Is
  <2>6. FP!SignOpsKeepPayloads
    BY <2>1 DEF FP!SignOpsKeepPayloads, FP!Is
  <2>7. FP!ComparisonsOrder
    BY <2>1 DEF FP!ComparisonsOrder, FP!Is
  <2> QED BY <2>2, <2>3, <2>4, <2>5, <2>6, <2>7 DEF FP!SpecialValues
<1>4. CASE fanswer # FP!FTrap("not yet")
  <2>1. Ran(ins, stack)
    BY <1>2, <1>4 DEF Ran
  <2> QED BY <2>1, TypesOfAnswers, NaNsAreCanonical, ZeroDivides, ZerosOrdered, PayloadsKept, PatternsOrdered
          DEF FP!SpecialValues
<1> QED BY <1>3, <1>4

(* Which is all that ever happens.                                         *)
LEMMA FloatsExecute == FP!Spec => []FloatExecuted
<1>1. FP!Init => FloatExecuted
  <2> SUFFICES ASSUME FP!Init PROVE FloatExecuted
    OBVIOUS
  <2>1. PICK ins \in FP!AllInstrs : \E stack \in FP!OperandsOf(ins) : FP!Start(ins, stack)
    BY DEF FP!Init
  <2>2. PICK stack \in FP!OperandsOf(ins) : FP!Start(ins, stack)
    BY <2>1
  <2> QED BY <2>2 DEF FloatExecuted, FP!Start
<1>2. FloatExecuted /\ [FP!Execute]_FP!vars => FloatExecuted'
  <2> SUFFICES ASSUME FloatExecuted, [FP!Execute]_FP!vars PROVE FloatExecuted'
    OBVIOUS
  <2>1. PICK ins \in FP!AllInstrs : \E stack \in FP!OperandsOf(ins) :
          /\ finput = [ins |-> ins, stack |-> stack]
          /\ fanswer \in {FP!FTrap("not yet"), FP!_exec_instr(ins, stack)}
    BY DEF FloatExecuted
  <2>2. PICK stack \in FP!OperandsOf(ins) :
          /\ finput = [ins |-> ins, stack |-> stack]
          /\ fanswer \in {FP!FTrap("not yet"), FP!_exec_instr(ins, stack)}
    BY <2>1
  <2>3. finput.ins = ins /\ finput.stack = stack
    BY <2>2
  <2>4. finput' = finput /\ fanswer' \in {FP!FTrap("not yet"), FP!_exec_instr(ins, stack)}
    BY <2>2, <2>3 DEF FP!Execute, FP!vars
  <2> QED BY <2>2, <2>4 DEF FloatExecuted
<1> QED BY <1>1, <1>2, PTL DEF FP!Spec

(* Whatever the formats and the operands: a NaN comes out exactly where    *)
(* there is no result, and is the canonical one; a division by zero is an  *)
(* infinity of the product's sign; min and max order the zeros; the sign   *)
(* operations keep the payload; comparisons order the patterns; and every  *)
(* answer is a pattern, an integer of its width or one of the two traps.   *)
THEOREM FloatsKeepSpecialValues == FP!Spec => []SpecialValues
<1>1. FloatExecuted => SpecialValues
  BY ExecutedIsSpecial DEF SpecialValues
<1> QED BY <1>1, FloatsExecute, PTL
=============================================================================
