------------------------------ MODULE FloatProofs ------------------------------
(***************************************************************************)
(* How floats round, in every two formats that FormatAssumption allows:    *)
(* the roundings and truncations to an integer give the one they should,   *)
(* and every other result is the exact one rounded once.  What a pattern   *)
(* means, how a number is packed into one and which result is a special    *)
(* value is proved in NumericProofs.                                       *)
(***************************************************************************)
EXTENDS NumericProofs

----------------------------------------------------------------------------
(* From floats to integers: exact comparisons, exact packing, and what a   *)
(* rounding leaves.                                                        *)

(* Multiplying by a power adds that many bits.                             *)
LEMMA LengthScaled ==
  ASSUME NEW m \in Nat \ {0}, NEW k \in Nat
  PROVE  m * 2^k \in Nat \ {0} /\ FP!bit_length(m * 2^k) = FP!bit_length(m) + k
<1> DEFINE l == FP!bit_length(m)
           P == 2^k
           M == m * P
<1>1. l \in Nat /\ m < 2^l /\ (l = 0 \/ m >= 2^(l - 1))
  BY LengthCounts DEF Takes
<1>2. l # 0
  <2> SUFFICES ASSUME l = 0 PROVE FALSE
    OBVIOUS
  <2>1. 2^l = 1
    OBVIOUS
  <2> HIDE DEF l
  <2> QED BY <1>1, <2>1
<1>3. P \in Nat \ {0} /\ 2^l \in Nat /\ 2^(l - 1) \in Nat /\ 2^(l + k) = 2^l * P
      /\ 2^((l - 1) + k) = 2^(l - 1) * P
  <2>1. l - 1 \in Nat
    <3> HIDE DEF l
    <3> QED BY <1>1, <1>2
  <2> HIDE DEF l
  <2> QED BY <1>1, <2>1, PowIsNat, PowSum DEF P
<1>4. M \in Nat \ {0} /\ M < 2^l * P /\ M >= 2^(l - 1) * P
  <2> DEFINE A == 2^l
             B == 2^(l - 1)
  <2>1. A \in Nat /\ B \in Nat /\ m < A /\ m >= B
    BY <1>1, <1>2, <1>3
  <2> HIDE DEF A, B, P
  <2>2. M \in Nat \ {0} /\ M < A * P /\ M >= B * P
    <3>1. M \in Nat \ {0}
      BY <1>3
    <3>2. A = m + (A - m) /\ A - m \in Nat \ {0} /\ m = B + (m - B) /\ m - B \in Nat
      BY <2>1
    <3>3. A * P = M + (A - m) * P /\ M = B * P + (m - B) * P
      BY <1>3, <2>1, <3>2
    <3>4. (A - m) * P \in Nat \ {0} /\ (m - B) * P \in Nat
      BY <1>3, <3>2
    <3>5. A * P \in Nat /\ B * P \in Nat
      BY <1>3, <2>1
    <3> QED BY <3>1, <3>3, <3>4, <3>5
  <2> QED BY <2>2 DEF A, B
<1>5. Takes(M, l + k)
  <2>1. (l + k) - 1 = (l - 1) + k /\ l + k \in Nat
    <3> HIDE DEF l
    <3> QED BY <1>1
  <2>2. M < 2^(l + k) /\ M >= 2^((l + k) - 1)
    <3>1. 2^((l + k) - 1) = 2^(l - 1) * P
      BY <1>3, <2>1
    <3> HIDE DEF l, P, M
    <3> QED BY <1>3, <1>4, <3>1
  <2> DEFINE j == l + k
  <2> HIDE DEF M, l, P
  <2>3. M < 2^j /\ M >= 2^(j - 1)
    BY <2>2
  <2> HIDE DEF j
  <2>4. Takes(M, j)
    BY <2>3 DEF Takes
  <2> QED BY <2>4 DEF j
<1> HIDE DEF M, l
<1>6. FP!bit_length(M) \in Nat /\ Takes(M, FP!bit_length(M))
  BY <1>4, LengthCounts
<1>7. FP!bit_length(M) = l + k
  BY <1>1, <1>4, <1>5, <1>6, TakesOne
<1> QED BY <1>4, <1>7 DEF M, l, P

(* Cmp is the order of the numbers, brought to one place.                  *)
LEMMA CmpExact ==
  ASSUME NEW m \in Nat, NEW n \in Nat, NEW s \in Int, NEW k \in Nat, NEW q, q = s + k
  PROVE  LET M == m * 2^k
         IN  /\ M \in Nat
             /\ M < n => FP!Cmp(m, q, n, s) = -1 /\ FP!Cmp(n, s, m, q) = 1
             /\ M = n => FP!Cmp(m, q, n, s) = 0 /\ FP!Cmp(n, s, m, q) = 0
             /\ M > n => FP!Cmp(m, q, n, s) = 1 /\ FP!Cmp(n, s, m, q) = -1
<1> DEFINE P == 2^k
           M == m * P
           c == FP!Cmp(m, q, n, s)
           b == FP!Cmp(n, s, m, q)
           d1 == FP!bit_length(m) + q
           d2 == FP!bit_length(n) + s
<1>1. P \in Nat \ {0} /\ FP!bit_length(m) \in Nat /\ FP!bit_length(n) \in Nat
  BY PowIsNat, LengthCounts
<1>2. M \in Nat /\ (M = 0 <=> m = 0)
  <2> HIDE DEF P
  <2>1. M \in Nat
    BY <1>1
  <2>2. m # 0 => m * P > 0
    BY <1>1
  <2>3. m = 0 => M = 0
    BY <1>1
  <2> QED BY <2>1, <2>2, <2>3
<1>3. /\ (IF q > s THEN m * 2^(q - s) ELSE m) = M
      /\ (IF s > q THEN n * 2^(s - q) ELSE n) = n
  <2>1. q - s = k /\ ~(s > q) /\ (q > s <=> k # 0)
    OBVIOUS
  <2>2. k = 0 => M = m
    <3> SUFFICES ASSUME k = 0 PROVE M = m
      OBVIOUS
    <3>1. P = 1
      OBVIOUS
    <3> HIDE DEF P
    <3> QED BY <3>1
  <2> HIDE DEF M
  <2>3. CASE k = 0
    BY <2>1, <2>2, <2>3
  <2>4. CASE k # 0
    BY <2>1, <2>4 DEF M
  <2> QED BY <2>3, <2>4
<1>4. /\ c = IF m = 0 \/ n = 0 THEN (IF m = n THEN 0 ELSE IF m = 0 THEN -1 ELSE 1)
             ELSE IF d1 # d2 THEN IF d1 < d2 THEN -1 ELSE 1
             ELSE IF M = n THEN 0 ELSE IF M < n THEN -1 ELSE 1
      /\ b = IF m = 0 \/ n = 0 THEN (IF n = m THEN 0 ELSE IF n = 0 THEN -1 ELSE 1)
             ELSE IF d1 # d2 THEN IF d2 < d1 THEN -1 ELSE 1
             ELSE IF M = n THEN 0 ELSE IF n < M THEN -1 ELSE 1
  <2> DEFINE A == IF q > s THEN m * 2^(q - s) ELSE m
             B == IF s > q THEN n * 2^(s - q) ELSE n
  <2>1. c = IF m = 0 \/ n = 0 THEN (IF m = n THEN 0 ELSE IF m = 0 THEN -1 ELSE 1)
            ELSE IF d1 # d2 THEN IF d1 < d2 THEN -1 ELSE 1
            ELSE IF A = B THEN 0 ELSE IF A < B THEN -1 ELSE 1
    BY DEF FP!Cmp
  <2>2. b = IF n = 0 \/ m = 0 THEN (IF n = m THEN 0 ELSE IF n = 0 THEN -1 ELSE 1)
            ELSE IF d2 # d1 THEN IF d2 < d1 THEN -1 ELSE 1
            ELSE IF B = A THEN 0 ELSE IF B < A THEN -1 ELSE 1
    BY DEF FP!Cmp
  <2>3. A = M /\ B = n
    BY <1>3
  <2> HIDE DEF A, B, M, c, b, d1, d2
  <2> QED BY <2>1, <2>2, <2>3
<1>5. ASSUME m # 0, n # 0 PROVE /\ M <= n => d1 <= d2
                                /\ n <= M => d2 <= d1
  <2>1. FP!bit_length(M) = FP!bit_length(m) + k
    BY <1>5, LengthScaled
  <2> HIDE DEF M
  <2>2. M <= n => FP!bit_length(M) <= FP!bit_length(n)
    BY <1>2, LengthMonotone
  <2>3. n <= M => FP!bit_length(n) <= FP!bit_length(M)
    BY <1>2, LengthMonotone
  <2> QED BY <1>1, <2>1, <2>2, <2>3
<1>6. d1 \in Int /\ d2 \in Int
  BY <1>1
<1> HIDE DEF P, M, c, b, d1, d2
<1>7. ASSUME M < n PROVE c = -1 /\ b = 1
  <2>1. n # 0 /\ ~(n < M) /\ M # n /\ M <= n
    BY <1>2, <1>7
  <2>2. CASE m = 0
    BY <1>4, <2>1, <2>2
  <2>3. CASE m # 0
    BY <1>4, <1>5, <1>6, <1>7, <2>1, <2>3
  <2> QED BY <2>2, <2>3
<1>8. ASSUME M = n PROVE c = 0 /\ b = 0
  <2>1. (m = 0 <=> n = 0) /\ M <= n /\ n <= M
    BY <1>2, <1>8
  <2>2. CASE m = 0
    BY <1>4, <2>1, <2>2
  <2>3. CASE m # 0
    BY <1>4, <1>5, <1>6, <1>8, <2>1, <2>3
  <2> QED BY <2>2, <2>3
<1>9. ASSUME M > n PROVE c = 1 /\ b = -1
  <2>1. m # 0 /\ ~(M < n) /\ M # n /\ n <= M /\ n < M
    BY <1>2, <1>9
  <2>2. CASE n = 0
    BY <1>4, <2>1, <2>2
  <2>3. CASE n # 0
    BY <1>4, <1>5, <1>6, <2>1, <2>3
  <2> QED BY <2>2, <2>3
<1> QED BY <1>2, <1>7, <1>8, <1>9 DEF M, P, c, b

(* The exponents of a format reach beyond its significand.                 *)
LEMMA FormatBounds ==
  /\ W32 \in Nat \ {0} /\ W64 \in Nat /\ W32 < W64 /\ W64 > 6
  /\ P2 \in Nat /\ P2 < W64
  /\ \A fmt \in Formats : W64 < 2^(fmt.e - 1) /\ fmt.p < 2^(fmt.e - 1)
<1>1. /\ P1 \in Nat /\ P1 > 1 /\ E1 \in Nat \ {0} /\ P2 \in Nat /\ E2 \in Nat
      /\ W32 \in Nat \ {0} /\ W64 \in Nat
      /\ P2 >= 2 * P1 + 2 /\ E2 > E1
      /\ W64 < 2^(E1 - 1) /\ W32 <= P2 /\ W64 > P2
  BY FormatAssumption DEF FP!FormatAssumption
<1>2. E1 - 1 \in Nat /\ E2 - 1 \in Nat /\ E1 - 1 <= E2 - 1
  BY <1>1
<1>3. 2^(E1 - 1) <= 2^(E2 - 1) /\ 2^(E1 - 1) \in Nat /\ 2^(E2 - 1) \in Nat
  BY <1>2, PowMonotone, PowIsNat
<1>4. ASSUME NEW fmt \in Formats
      PROVE  W64 < 2^(fmt.e - 1) /\ fmt.p < 2^(fmt.e - 1)
  <2>1. fmt.p \in Nat /\ fmt.p <= P2
    BY FormatFacts
  <2>2. fmt.e \in {E1, E2}
    BY DEF Formats, FP!F32, FP!F64
  <2>3. W64 < 2^(fmt.e - 1) /\ 2^(fmt.e - 1) \in Nat
    <3>1. CASE fmt.e = E1
      BY <1>1, <1>3, <3>1
    <3>2. CASE fmt.e = E2
      <4>1. W64 < 2^(E2 - 1)
        BY <1>1, <1>3
      <4> QED BY <1>3, <3>2, <4>1
    <3> QED BY <2>2, <3>1, <3>2
  <2> QED BY <1>1, <2>1, <2>3
<1> QED BY <1>1, <1>4

(* A zero of a format has its lowest place.                                *)
LEMMA ZerosAreLow ==
  ASSUME NEW fmt \in Formats, NEW u \in FP!Patterns(fmt), FP!iszero(FP!b2f(fmt, u))
  PROVE  FP!b2f(fmt, u).q < 0
<1> DEFINE a == FP!Abs(fmt, u)
           minus == u >= FP!SIGN(fmt)
           H == Hidden(fmt)
<1>1. a = 0
  BY ZeroUnpacked
<1>2. FP!EXP(fmt) \in Nat \ {0} /\ a < FP!EXP(fmt)
  BY <1>1, FormatFacts
<1>3. FP!b2f(fmt, u) = FP!Num(minus, Significand(fmt, a), LastPlace(fmt, a))
  BY <1>2, Unpacked
<1>4. a \in 0..(FP!SIGN(fmt) - 1)
  BY PatternFacts
<1>5. Exponent(fmt, a) = 0
  <2>1. Exponent(fmt, a) \in Nat /\ Fraction(fmt, a) \in Nat /\ H \in Nat \ {0}
        /\ a = H * Exponent(fmt, a) + Fraction(fmt, a)
    BY <1>4, FieldFacts, FormatFacts
  <2> DEFINE x == Exponent(fmt, a)
             f == Fraction(fmt, a)
  <2>2. x \in Nat /\ f \in Nat /\ H \in Nat \ {0} /\ 0 = H * x + f
    BY <1>1, <2>1
  <2> HIDE DEF x, f, H
  <2>3. x # 0 => H * x >= H
    BY <2>2
  <2>4. x = 0
    BY <2>2, <2>3
  <2> QED BY <2>4 DEF x
<1>6. LastPlace(fmt, a) = 1 + 1 - (2^(fmt.e - 1) - 1) - fmt.p
  BY <1>5 DEF LastPlace
<1>7. LastPlace(fmt, a) < 0
  <2>1. 2^(fmt.e - 1) \in Nat /\ 2^(fmt.e - 1) > 6 /\ fmt.p \in Nat
    BY FormatBounds, FormatFacts
  <2> QED BY <1>6, <2>1
<1> QED BY <1>3, <1>7 DEF FP!Num

(* Shifting out more bits than there are leaves none.                      *)
LEMMA ShiftedOut ==
  ASSUME NEW m \in Nat \ {0}, NEW n \in Nat
  PROVE  /\ (IF n > FP!bit_length(m) THEN 0 ELSE m \div 2^n) = m \div 2^n
         /\ (n <= FP!bit_length(m) /\ m % 2^n = 0) <=> m % 2^n = 0
<1> DEFINE l == FP!bit_length(m)
           D == 2^n
<1>1. l \in Nat /\ m < 2^l /\ D \in Nat \ {0} /\ 2^l \in Nat
  BY LengthCounts, PowIsNat DEF Takes
<1>2. n > l => m < D
  <2>1. n > l => 2^l <= D
    <3> HIDE DEF l
    <3> QED BY <1>1, PowMonotone
  <2> HIDE DEF l, D
  <2> QED BY <1>1, <2>1
<1> HIDE DEF l, D
<1>3. n > l => m \div D = 0 /\ m % D # 0
  <2> SUFFICES ASSUME n > l PROVE m \div D = 0 /\ m % D # 0
    OBVIOUS
  <2>1. m = D * 0 + m /\ m \in 0..(D - 1)
    BY <1>1, <1>2
  <2>2. m \div D = 0 /\ m % D = m
    BY <1>1, <2>1, QuotientIs
  <2> QED BY <2>2
<1>4. n <= l <=> ~(n > l)
  BY <1>1
<1> QED BY <1>3, <1>4 DEF l, D

(* The integers ToInteger rounds to, in units of the last place.           *)
LEMMA ToIntegerFacts ==
  ASSUME NEW x \in Floats, x.q < 0, x.m # 0, NEW op \in FP!Rounding
  PROVE  LET D == 2^(-x.q)
             m == x.m
             i == FP!ToInteger(op, x)
             up == (op = "ceil" /\ ~x.neg) \/ (op = "floor" /\ x.neg)
         IN  /\ D \in Nat \ {0} /\ i \in Nat
             /\ op # "nearest" /\ ~up => i * D <= m /\ m < i * D + D
             /\ op # "nearest" /\ up => m <= i * D /\ i * D < m + D
             /\ op = "nearest" => 2 * (i * D) <= 2 * m + D /\ 2 * m <= 2 * (i * D) + D
<1> DEFINE n == -x.q
           D == 2^n
           m == x.m
           i == FP!ToInteger(op, x)
           up == (op = "ceil" /\ ~x.neg) \/ (op = "floor" /\ x.neg)
           down == m \div D
           rem == m % D
<1>1. m \in Nat \ {0} /\ n \in Nat \ {0}
  BY FloatFacts
<1>2. D \in Nat \ {0}
  <2> HIDE DEF n
  <2> QED BY <1>1, PowIsNat
<1>3. down \in Nat /\ rem \in Nat /\ rem < D /\ m = D * down + rem
  <2> HIDE DEF D, m
  <2>1. down \in Int /\ rem \in 0..(D - 1) /\ m = D * down + rem
    BY <1>1, <1>2, DivMod
  <2>2. down \in Nat
    BY <1>1, <1>2, QuotientType
  <2> HIDE DEF down, rem
  <2> QED BY <1>2, <2>1, <2>2
<1>4. down * D = D * down /\ (down + 1) * D = D * down + D /\ down * D \in Nat
  <2> HIDE DEF D, down
  <2> QED BY <1>2, <1>3
<1>5. ASSUME op # "nearest" PROVE i = IF rem # 0 /\ up THEN down + 1 ELSE down
  <2> DEFINE low == IF n > FP!bit_length(m) THEN 0 ELSE m \div 2^n
             exact == n <= FP!bit_length(m) /\ m % 2^n = 0
  <2>1. i = IF ~exact /\ up THEN low + 1 ELSE low
    BY <1>5 DEF FP!ToInteger
  <2>2. low = down /\ (exact <=> rem = 0)
    <3> HIDE DEF n, m
    <3> QED BY <1>1, ShiftedOut
  <2> HIDE DEF low, exact, down, rem, i, up
  <2> QED BY <2>1, <2>2
<1>6. ASSUME op = "nearest" PROVE /\ i \in Nat
                                  /\ 2 * (i * D) <= 2 * m + D /\ 2 * m <= 2 * (i * D) + D
  <2> DEFINE l == FP!bit_length(m)
             twice == 2 * rem
  <2>1. i = IF n > l + 1 THEN 0
            ELSE IF twice > D \/ (twice = D /\ down % 2 = 1) THEN down + 1 ELSE down
    BY <1>6 DEF FP!ToInteger, FP!HalfEven
  <2>2. l \in Nat /\ m < 2^l /\ 2^l \in Nat
    <3> HIDE DEF m
    <3> QED BY <1>1, LengthCounts, PowIsNat DEF Takes
  <2>3. CASE n > l + 1
    <3>1. 2^(l + 1) <= D /\ 2^(l + 1) = 2 * 2^l
      <4> HIDE DEF n, l
      <4>1. l + 1 \in Nat /\ l + 1 <= n /\ n \in Nat
        BY <1>1, <2>2, <2>3
      <4> QED BY <2>2, <4>1, PowMonotone, PowNext
    <3>2. i = 0
      BY <2>1, <2>3
    <3> HIDE DEF i, m, D, l, n
    <3>3. 2 * m <= D
      BY <1>1, <1>2, <2>2, <3>1
    <3> QED BY <1>1, <1>2, <3>2, <3>3
  <2>4. CASE ~(n > l + 1)
    <3>1. i = IF twice > D \/ (twice = D /\ down % 2 = 1) THEN down + 1 ELSE down
      BY <2>1, <2>4
    <3> HIDE DEF i, l, n, D, m, down, rem
    <3>2. CASE i = down
      <4>1. ~(twice > D)
        BY <1>3, <3>1, <3>2
      <4> QED BY <1>2, <1>3, <1>4, <3>2, <4>1
    <3>3. CASE i = down + 1
      <4>1. twice >= D
        BY <1>2, <1>3, <3>1, <3>3
      <4> QED BY <1>2, <1>3, <1>4, <3>3, <4>1
    <3> QED BY <3>1, <3>2, <3>3
  <2> QED BY <2>3, <2>4
<1> HIDE DEF i, n, D, m, down, rem, up
<1>7. ASSUME op # "nearest" PROVE /\ i \in Nat
                                  /\ ~up => i * D <= m /\ m < i * D + D
                                  /\ up => m <= i * D /\ i * D < m + D
  <2>1. CASE rem # 0 /\ up
    BY <1>2, <1>3, <1>4, <1>5, <1>7, <2>1
  <2>2. CASE ~(rem # 0 /\ up)
    BY <1>2, <1>3, <1>4, <1>5, <1>7, <2>2
  <2> QED BY <2>1, <2>2
<1>8. D \in Nat \ {0} /\ i \in Nat
  BY <1>2, <1>6, <1>7
<1> QED BY <1>6, <1>7, <1>8 DEF i, n, D, m, up

(* The magnitude of the integer a number is truncated to.                  *)
Size(x) == IF x.q < 0 THEN FP!ToInteger("trunc", x)
           ELSE IF FP!bit_length(x.m) + x.q > W64 + 2 THEN FP!Huge ELSE x.m * 2^x.q

(* It is below an integer exactly when the number is.                      *)
LEMMA SizeCompares ==
  ASSUME NEW x \in Floats, x.m = 0 => x.q < 0, NEW L \in Nat, L <= FP!Huge
  PROVE  /\ Size(x) \in Nat
         /\ Size(x) < L => FP!Cmp(x.m, x.q, L, 0) = -1 /\ FP!Cmp(L, 0, x.m, x.q) = 1
         /\ ~(Size(x) < L) => FP!Cmp(x.m, x.q, L, 0) \in {0, 1} /\ FP!Cmp(L, 0, x.m, x.q) \in {0, -1}
<1> DEFINE m == x.m
           q == x.q
           size == Size(x)
           c == FP!Cmp(m, q, L, 0)
           b == FP!Cmp(L, 0, m, q)
<1>1. m \in Nat /\ q \in Int
  BY FloatFacts
<1>2. FP!Huge = 2^(W64 + 2) /\ FP!Huge \in Nat /\ W64 + 2 \in Nat
  <2>1. W64 + 2 \in Nat
    BY FormatBounds
  <2> QED BY <2>1, PowIsNat DEF FP!Huge
<1>3. CASE q < 0
  <2> DEFINE D == 2^(-q)
             M == L * D
  <2>1. -q \in Nat /\ 0 = q + -q
    BY <1>1, <1>3
  <2>2. D \in Nat \ {0}
    BY <2>1, PowIsNat
  <2>3. /\ M \in Nat
        /\ M < m => b = -1 /\ c = 1
        /\ M = m => b = 0 /\ c = 0
        /\ M > m => b = 1 /\ c = -1
    <3> DEFINE k == -q
               z == 0
    <3>1. k \in Nat /\ z = q + k /\ m \in Nat /\ q \in Int
      BY <1>1, <2>1
    <3> HIDE DEF m, q, k, z
    <3>2. LET N == L * 2^k
          IN  /\ N \in Nat
              /\ N < m => FP!Cmp(L, z, m, q) = -1 /\ FP!Cmp(m, q, L, z) = 1
              /\ N = m => FP!Cmp(L, z, m, q) = 0 /\ FP!Cmp(m, q, L, z) = 0
              /\ N > m => FP!Cmp(L, z, m, q) = 1 /\ FP!Cmp(m, q, L, z) = -1
      BY <3>1, CmpExact
    <3> QED BY <3>2 DEF k, z
  <2>4. size = FP!ToInteger("trunc", x)
    BY <1>3 DEF Size
  <2>5. size \in Nat /\ size * D <= m /\ m < size * D + D
    <3>1. CASE m # 0
      <4>1. "trunc" \in FP!Rounding /\ "trunc" # "nearest" /\ "trunc" # "ceil" /\ "trunc" # "floor"
        BY DEF FP!Rounding
      <4> HIDE DEF size
      <4> QED BY <1>3, <2>4, <3>1, <4>1, ToIntegerFacts
    <3>2. CASE m = 0
      <4>1. size = 0
        <5> DEFINE k == -q
        <5>1. size = IF k > FP!bit_length(m) THEN 0 ELSE m \div 2^k
          BY <2>4 DEF FP!ToInteger
        <5>2. 0 \div D = 0
          <6> HIDE DEF D
          <6> QED BY <2>2
        <5> HIDE DEF size, k
        <5>3. m \div 2^k = 0
          BY <3>2, <5>2 DEF k
        <5> QED BY <5>1, <5>3
      <4> HIDE DEF size, D, m
      <4> QED BY <2>2, <3>2, <4>1
    <3> QED BY <3>1, <3>2
  <2> HIDE DEF size, D, m, c, b
  <2>6. size < L => M > m
    <3> SUFFICES ASSUME size < L PROVE M > m
      OBVIOUS
    <3>1. L = size + (L - size) /\ L - size \in Nat \ {0}
      BY <2>5
    <3>2. M = size * D + (L - size) * D
      BY <2>2, <2>5, <3>1
    <3>3. (L - size) * D >= D
      BY <2>2, <3>1
    <3>4. size * D \in Nat /\ (L - size) * D \in Nat
      BY <2>2, <2>5, <3>1
    <3> HIDE DEF M
    <3> QED BY <1>1, <2>2, <2>3, <2>5, <3>2, <3>3, <3>4
  <2>7. ~(size < L) => M <= m
    <3> SUFFICES ASSUME ~(size < L) PROVE M <= m
      OBVIOUS
    <3>1. size = L + (size - L) /\ size - L \in Nat
      BY <2>5
    <3>2. size * D = M + (size - L) * D /\ (size - L) * D \in Nat
      BY <2>2, <3>1
    <3> HIDE DEF M
    <3> QED BY <1>1, <2>3, <2>5, <3>2
  <2> HIDE DEF M
  <2>8. ~(size < L) => c \in {0, 1} /\ b \in {0, -1}
    <3>1. M <= m => M < m \/ M = m
      BY <1>1, <2>3
    <3> QED BY <2>3, <2>7, <3>1
  <2> QED BY <2>3, <2>5, <2>6, <2>8 DEF size, c, b, m
<1>4. CASE ~(q < 0)
  <2> DEFINE P == 2^q
             M == m * P
  <2>1. q \in Nat /\ m \in Nat \ {0} /\ q = 0 + q
    BY <1>1, <1>4
  <2>2. P \in Nat \ {0}
    BY <2>1, PowIsNat
  <2>3. /\ M \in Nat
        /\ M < L => c = -1 /\ b = 1
        /\ M = L => c = 0 /\ b = 0
        /\ M > L => c = 1 /\ b = -1
    <3> DEFINE z == 0
    <3>1. z \in Int /\ q = z + q
      BY <2>1
    <3> HIDE DEF m, q, z
    <3>2. LET N == m * 2^q
          IN  /\ N \in Nat
              /\ N < L => FP!Cmp(m, q, L, z) = -1 /\ FP!Cmp(L, z, m, q) = 1
              /\ N = L => FP!Cmp(m, q, L, z) = 0 /\ FP!Cmp(L, z, m, q) = 0
              /\ N > L => FP!Cmp(m, q, L, z) = 1 /\ FP!Cmp(L, z, m, q) = -1
      BY <2>1, <3>1, CmpExact
    <3> QED BY <3>2 DEF z
  <2>4. size = IF FP!bit_length(m) + q > W64 + 2 THEN FP!Huge ELSE M
    BY <1>4 DEF Size
  <2>5. FP!bit_length(m) + q > W64 + 2 => M >= FP!Huge
    <3> SUFFICES ASSUME FP!bit_length(m) + q > W64 + 2, M < FP!Huge PROVE FALSE
      BY <1>2, <2>3
    <3>1. FP!bit_length(M) = FP!bit_length(m) + q
      <4> HIDE DEF m, q
      <4> QED BY <2>1, LengthScaled
    <3>2. FP!bit_length(M) <= W64 + 2
      <4> HIDE DEF M
      <4> QED BY <1>2, <2>3, LengthBelow
    <3>3. FP!bit_length(M) \in Nat
      <4> HIDE DEF M
      <4> QED BY <2>3, LengthCounts
    <3> HIDE DEF M, m, q
    <3> QED BY <1>2, <3>1, <3>2, <3>3
  <2> HIDE DEF M, m, q, size, c, b
  <2>6. size \in Nat /\ (size < L <=> M < L)
    BY <1>2, <2>3, <2>4, <2>5
  <2>7. ~(M < L) => M = L \/ M > L
    BY <2>3
  <2> QED BY <2>3, <2>6, <2>7 DEF size, c, b, m, q
<1> QED BY <1>3, <1>4

(* So the integer is on the same side of another one as the number is, as  *)
(* far as its sign allows.                                                 *)
LEMMA TruncOrders ==
  ASSUME NEW x \in Floats, ~FP!isnan(x), ~FP!isinf(x), x.m = 0 => x.q < 0,
         NEW K \in Int, K <= FP!Huge, -K <= FP!Huge
  PROVE  LET t == FP!trunc(x)
         IN  /\ t \in Int
             /\ ~x.neg => /\ t >= 0 /\ (FP!Less(x, FP!Integer(K)) <=> t < K)
                          /\ K < 0 => FP!Less(FP!Integer(K), x)
             /\ x.neg => /\ t <= 0 /\ (FP!Less(FP!Integer(K), x) <=> K < t)
                         /\ K > 0 => FP!Less(x, FP!Integer(K))
                         /\ K < t => ~FP!Less(x, FP!Integer(K)) /\ ~FP!Equal(x, FP!Integer(K))
<1> DEFINE t == FP!trunc(x)
           size == Size(x)
           y == FP!Integer(K)
           L == IF K < 0 THEN -K ELSE K
           c == FP!Magnitude(x, y)
           b == FP!Magnitude(y, x)
<1>1. t = IF x.neg THEN -size ELSE size
  BY DEF FP!trunc, Size
<1>2. L \in Nat /\ L <= FP!Huge
  OBVIOUS
<1>3. /\ size \in Nat
      /\ size < L => FP!Cmp(x.m, x.q, L, 0) = -1 /\ FP!Cmp(L, 0, x.m, x.q) = 1
      /\ ~(size < L) => FP!Cmp(x.m, x.q, L, 0) \in {0, 1} /\ FP!Cmp(L, 0, x.m, x.q) \in {0, -1}
  <2> HIDE DEF L
  <2> QED BY <1>2, SizeCompares
<1>4. y = FP!Num(K < 0, L, 0)
  BY DEF FP!Integer
<1>5. /\ y.neg = (K < 0) /\ y.m = L /\ y.q = 0 /\ y.kind = "num"
      /\ ~FP!isnan(y) /\ ~FP!isinf(y) /\ (FP!iszero(y) <=> K = 0)
  BY <1>4 DEF FP!Num, FP!isnan, FP!isinf, FP!iszero
<1>6. c = FP!Cmp(x.m, x.q, L, 0) /\ b = FP!Cmp(L, 0, x.m, x.q)
  <2> HIDE DEF y, L
  <2> QED BY <1>5 DEF FP!Magnitude
<1>7. x.neg \in BOOLEAN
  BY FloatFacts
<1>8. /\ FP!Less(x, y) <=> /\ ~(FP!iszero(x) /\ K = 0)
                           /\ IF x.neg # (K < 0) THEN x.neg ELSE IF x.neg THEN c > 0 ELSE c < 0
      /\ FP!Less(y, x) <=> /\ ~(FP!iszero(x) /\ K = 0)
                           /\ IF x.neg # (K < 0) THEN K < 0 ELSE IF K < 0 THEN b > 0 ELSE b < 0
      /\ FP!Equal(x, y) <=> (FP!iszero(x) /\ K = 0) \/ (x.neg = (K < 0) /\ c = 0)
  <2> HIDE DEF y, c, b
  <2> QED BY <1>5, <1>7 DEF FP!Less, FP!Equal, c, b
<1>9. /\ size < L => c = -1 /\ b = 1
      /\ ~(size < L) => c \in {0, 1} /\ b \in {0, -1}
  BY <1>3, <1>6
<1> HIDE DEF t, size, y, c, b
<1>10. CASE ~x.neg
  <2>1. t = size /\ t >= 0
    BY <1>1, <1>3, <1>10
  <2>2. FP!Less(x, y) <=> t < K
    <3>1. CASE K < 0
      <4>1. ~FP!Less(x, y)
        BY <1>7, <1>8, <1>10, <3>1
      <4>2. ~(t < K)
        BY <1>3, <2>1, <3>1
      <4> QED BY <4>1, <4>2
    <3>2. CASE K = 0
      <4>1. L = 0 /\ ~(size < L) /\ ~(t < K)
        BY <1>3, <2>1, <3>2
      <4>2. ~(c < 0)
        BY <1>9, <4>1
      <4>3. ~FP!Less(x, y)
        BY <1>7, <1>8, <1>10, <3>2, <4>2
      <4> QED BY <4>1, <4>3
    <3>3. CASE K > 0
      <4>1. L = K /\ ~(K < 0) /\ K # 0
        BY <3>3
      <4>2. FP!Less(x, y) <=> c < 0
        BY <1>7, <1>8, <1>10, <4>1
      <4>3. c < 0 <=> size < L
        BY <1>9
      <4> QED BY <2>1, <4>1, <4>2, <4>3
    <3> QED BY <3>1, <3>2, <3>3
  <2>3. K < 0 => FP!Less(y, x)
    BY <1>7, <1>8, <1>10
  <2> QED BY <1>3, <1>10, <2>1, <2>2, <2>3 DEF t, y
<1>11. CASE x.neg
  <2>1. t = -size /\ t <= 0 /\ t \in Int
    BY <1>1, <1>3, <1>11
  <2>2. CASE K < 0
    <3>1. L = -K /\ K # 0 /\ ~(K > 0)
      BY <2>2
    <3>2. size < L <=> K < t
      BY <1>3, <2>1, <3>1
    <3>3. /\ FP!Less(y, x) <=> b > 0
          /\ FP!Less(x, y) <=> c > 0
          /\ FP!Equal(x, y) <=> c = 0
      <4>1. x.neg = (K < 0)
        BY <1>7, <1>11, <2>2
      <4> QED BY <1>8, <1>11, <2>2, <3>1, <4>1
    <3>4. (b > 0 <=> size < L) /\ (size < L => ~(c > 0) /\ c # 0)
      BY <1>9
    <3> QED BY <1>11, <2>1, <3>1, <3>2, <3>3, <3>4 DEF t, y
  <2>3. CASE ~(K < 0)
    <3>1. ~(K < t)
      BY <2>1, <2>3
    <3>2. ~FP!Less(y, x) /\ (K # 0 => FP!Less(x, y))
      BY <1>7, <1>8, <1>11, <2>3
    <3>3. K > 0 => K # 0
      OBVIOUS
    <3> QED BY <1>11, <2>1, <3>1, <3>2, <3>3 DEF t, y
  <2> QED BY <2>2, <2>3
<1> QED BY <1>7, <1>10, <1>11

(* The bounds of an integer type are far below Huge.                       *)
LEMMA BoundsFacts ==
  ASSUME NEW target \in {"i32", "i64"}, NEW signed \in BOOLEAN
  PROVE  LET lo == FP!Low(target, signed)
             hi == FP!High(target, signed)
         IN  lo \in Int /\ hi \in Int /\ lo <= 0 /\ hi >= 0 /\ hi + 1 <= FP!Huge /\ -(lo - 1) <= FP!Huge
<1> DEFINE w == FP!Width(target)
           lo == FP!Low(target, signed)
           hi == FP!High(target, signed)
<1>1. w \in Nat \ {0} /\ w <= W64 /\ W64 \in Nat
  <2>1. w \in {W32, W64}
    BY DEF FP!Width
  <2> QED BY <2>1, FormatBounds
<1>2. /\ 2^(w - 1) \in Nat \ {0} /\ 2^(w - 0) \in Nat \ {0}
      /\ 2^(w - 1) <= 2^W64 /\ 2^(w - 0) <= 2^W64 /\ 2^W64 \in Nat \ {0}
  <2>1. w - 1 \in Nat /\ w - 0 \in Nat /\ w - 1 <= W64 /\ w - 0 <= W64
    BY <1>1
  <2> HIDE DEF w
  <2> QED BY <1>1, <2>1, PowIsNat, PowMonotone
<1>3. FP!Huge = 4 * 2^W64
  <2>1. W64 + 1 \in Nat /\ W64 + 2 = (W64 + 1) + 1
    BY <1>1
  <2>2. 2^(W64 + 1) = 2 * 2^W64 /\ 2^((W64 + 1) + 1) = 2 * 2^(W64 + 1)
    BY <1>1, <2>1, PowNext
  <2>3. FP!Huge = 2^((W64 + 1) + 1)
    BY <2>1 DEF FP!Huge
  <2> DEFINE A == 2^W64
             B == 2^(W64 + 1)
             C == 2^((W64 + 1) + 1)
  <2>4. A \in Nat /\ B = 2 * A /\ C = 2 * B /\ FP!Huge = C
    BY <1>2, <2>2, <2>3
  <2> HIDE DEF A, B, C
  <2>5. FP!Huge = 4 * A
    BY <2>4
  <2> QED BY <2>5 DEF A
<1>4. /\ lo = IF signed THEN -(2^(w - 1)) ELSE 0
      /\ hi = IF signed THEN 2^(w - 1) - 1 ELSE 2^(w - 0) - 1
  <2>1. lo = IF signed THEN -(2^(w - 1)) ELSE 0
    BY DEF FP!Low
  <2>2. hi = 2^(w - (IF signed THEN 1 ELSE 0)) - 1
    BY DEF FP!High
  <2> HIDE DEF w, lo, hi
  <2> QED BY <2>1, <2>2
<1> DEFINE A == 2^(w - 1)
           B == 2^(w - 0)
           C == 2^W64
<1>5. /\ A \in Nat \ {0} /\ B \in Nat \ {0} /\ A <= C /\ B <= C /\ C \in Nat \ {0} /\ FP!Huge = 4 * C
      /\ lo = IF signed THEN -A ELSE 0
      /\ hi = IF signed THEN A - 1 ELSE B - 1
  BY <1>2, <1>3, <1>4
<1> HIDE DEF A, B, C, lo, hi
<1>6. lo \in Int /\ hi \in Int /\ lo <= 0 /\ hi >= 0 /\ hi + 1 <= FP!Huge /\ -(lo - 1) <= FP!Huge
  <2>1. CASE signed
    BY <1>5, <2>1
  <2>2. CASE ~signed
    BY <1>5, <2>2
  <2> QED BY <2>1, <2>2
<1> QED BY <1>6 DEF lo, hi

(* A truncation gives the integer part where the type has it.              *)
LEMMA TruncationsFit ==
  ASSUME NEW ins, NEW stack, Ran(ins, stack)
  PROVE  FP!TruncatesOrTraps
<1> SUFFICES ASSUME FP!Is({"truncate"}) PROVE FP!TruncatesOrTraps
  BY DEF FP!TruncatesOrTraps
<1>1. finput.ins = ins
  BY DEF Ran
<1>2. ins.op = "truncate"
  BY <1>1 DEF FP!Is
<1>3. /\ finput.stack = stack /\ ins.t \in {"i32", "i64"}
      /\ FP!From \in Formats /\ stack[1] \in FP!Patterns(FP!From) /\ FP!x1 = FP!b2f(FP!From, stack[1])
      /\ ins.signed \in BOOLEAN /\ ins.sat \in BOOLEAN
      /\ fanswer = FP!_trunc(ins.t, ins.signed, FP!x1, ins.sat)
  BY <1>2, TruncateRan
<1> DEFINE target == ins.t
           signed == ins.signed
           sat == ins.sat
           x == FP!x1
           lo == FP!Low(target, signed)
           hi == FP!High(target, signed)
           bits == 2^FP!Width(target)
           t == FP!trunc(x)
           fits == ~FP!isinf(x) /\ FP!Less(x, FP!Integer(hi + 1)) /\ FP!Less(FP!Integer(lo - 1), x)
           Part(n) == IF x.neg THEN ~FP!Less(x, FP!Integer(n - 1)) /\ ~FP!Equal(x, FP!Integer(n - 1)) /\ ~FP!Less(FP!Integer(n), x)
                      ELSE ~FP!Less(x, FP!Integer(n)) /\ FP!Less(x, FP!Integer(n + 1))
           Answered == IF FP!isnan(x) THEN fanswer = IF sat THEN FP!Value(0) ELSE FP!INVALID_CONVERSION
                       ELSE IF fits
                       THEN /\ fanswer.trap = "none"
                            /\ \E n \in lo..hi : fanswer.value = n % bits /\ Part(n)
                       ELSE fanswer = IF sat THEN FP!Value((IF x.neg THEN lo ELSE hi) % bits)
                                     ELSE FP!INTEGER_OVERFLOW
<1> SUFFICES Answered
  BY <1>1 DEF FP!TruncatesOrTraps, FP!r
<1>4. x \in Floats
  BY <1>3, UnpackedType
<1>5. x.neg \in BOOLEAN /\ ~(FP!isnan(x) /\ FP!isinf(x))
  BY <1>4, FloatFacts
<1>6. lo \in Int /\ hi \in Int /\ lo <= 0 /\ hi >= 0 /\ hi + 1 <= FP!Huge /\ -(lo - 1) <= FP!Huge
  BY <1>3, BoundsFacts
<1>7. fanswer = IF FP!isnan(x) THEN IF sat THEN FP!Value(0) ELSE FP!INVALID_CONVERSION
               ELSE IF FP!isinf(x)
               THEN IF sat THEN FP!Value((IF x.neg THEN lo ELSE hi) % bits) ELSE FP!INTEGER_OVERFLOW
               ELSE IF t < lo \/ t > hi
               THEN IF sat THEN FP!Value((IF t > hi THEN hi ELSE lo) % bits) ELSE FP!INTEGER_OVERFLOW
               ELSE FP!Value(t % bits)
  BY <1>3 DEF FP!_trunc
<1>8. CASE FP!isnan(x)
  <2> HIDE DEF x, sat
  <2> QED BY <1>7, <1>8
<1>9. CASE FP!isinf(x)
  <2>1. ~FP!isnan(x) /\ ~fits
    BY <1>5, <1>9
  <2> HIDE DEF x, sat, lo, hi, bits, fits
  <2> QED BY <1>7, <1>9, <2>1
<1>10. CASE ~FP!isnan(x) /\ ~FP!isinf(x)
  <2>1. x.m = 0 => x.q < 0
    <3> SUFFICES ASSUME x.m = 0 PROVE x.q < 0
      OBVIOUS
    <3>1. FP!iszero(x)
      BY <1>4, <1>10, FloatFacts
    <3> QED BY <1>3, <3>1, ZerosAreLow
  <2> DEFINE Orders(K) ==
        /\ ~x.neg => /\ t >= 0 /\ (FP!Less(x, FP!Integer(K)) <=> t < K)
                     /\ K < 0 => FP!Less(FP!Integer(K), x)
        /\ x.neg => /\ t <= 0 /\ (FP!Less(FP!Integer(K), x) <=> K < t)
                    /\ K > 0 => FP!Less(x, FP!Integer(K))
                    /\ K < t => ~FP!Less(x, FP!Integer(K)) /\ ~FP!Equal(x, FP!Integer(K))
  <2>2. t \in Int
    BY <1>4, TruncType
  <2>3. ASSUME NEW K \in Int, K <= FP!Huge, -K <= FP!Huge PROVE Orders(K)
    <3> HIDE DEF x
    <3>1. LET i == FP!trunc(x)
          IN  /\ i \in Int
              /\ ~x.neg => /\ i >= 0 /\ (FP!Less(x, FP!Integer(K)) <=> i < K)
                           /\ K < 0 => FP!Less(FP!Integer(K), x)
              /\ x.neg => /\ i <= 0 /\ (FP!Less(FP!Integer(K), x) <=> K < i)
                          /\ K > 0 => FP!Less(x, FP!Integer(K))
                          /\ K < i => ~FP!Less(x, FP!Integer(K)) /\ ~FP!Equal(x, FP!Integer(K))
      BY <1>4, <1>10, <2>1, <2>3, TruncOrders
    <3> QED BY <3>1 DEF t
  <2>4. FP!Huge \in Nat
    <3>1. W64 + 2 \in Nat
      BY FormatBounds
    <3> QED BY <3>1, PowIsNat DEF FP!Huge
  <2>5. Orders(hi + 1) /\ Orders(lo - 1)
    <3> HIDE DEF Orders, lo, hi
    <3>1. hi + 1 \in Int /\ -(hi + 1) <= FP!Huge /\ lo - 1 \in Int /\ lo - 1 <= FP!Huge
      BY <1>6, <2>4
    <3> QED BY <1>6, <2>3, <3>1
  <2>6. fits <=> t >= lo /\ t <= hi
    <3> HIDE DEF x, t, lo, hi
    <3>1. CASE ~x.neg
      <4>1. FP!Less(x, FP!Integer(hi + 1)) <=> t < hi + 1
        BY <2>5, <3>1
      <4>2. FP!Less(FP!Integer(lo - 1), x) /\ t >= lo
        BY <1>6, <2>2, <2>5, <3>1
      <4> QED BY <1>6, <1>10, <2>2, <4>1, <4>2
    <3>2. CASE x.neg
      <4>1. FP!Less(FP!Integer(lo - 1), x) <=> lo - 1 < t
        BY <2>5, <3>2
      <4>2. FP!Less(x, FP!Integer(hi + 1)) /\ t <= hi
        BY <1>6, <2>2, <2>5, <3>2
      <4> QED BY <1>6, <1>10, <2>2, <4>1, <4>2
    <3> QED BY <3>1, <3>2
  <2>7. (x.neg => t <= hi) /\ (~x.neg => t >= lo)
    <3> HIDE DEF x, t, lo, hi
    <3> QED BY <1>6, <2>2, <2>5
  <2>8. CASE fits
    <3>1. t \in lo..hi
      <4> HIDE DEF x, t, lo, hi, fits
      <4> QED BY <1>6, <2>2, <2>6, <2>8
    <3>2. fanswer = FP!Value(t % bits)
      <4>1. ~(t < lo \/ t > hi)
        <5> HIDE DEF x, t, lo, hi, fits
        <5> QED BY <1>6, <2>2, <2>6, <2>8
      <4> HIDE DEF x, t, lo, hi, sat, bits
      <4> QED BY <1>7, <1>10, <4>1
    <3>3. Orders(t) /\ Orders(t + 1) /\ Orders(t - 1)
      <4>1. /\ t <= FP!Huge /\ -t <= FP!Huge
            /\ t + 1 \in Int /\ t + 1 <= FP!Huge /\ -(t + 1) <= FP!Huge
            /\ t - 1 \in Int /\ t - 1 <= FP!Huge /\ -(t - 1) <= FP!Huge
        <5> HIDE DEF t, lo, hi
        <5> QED BY <1>6, <2>2, <2>4, <3>1
      <4> HIDE DEF Orders, t
      <4> QED BY <2>2, <2>3, <4>1
    <3>4. Part(t)
      <4> HIDE DEF x, t
      <4>1. CASE ~x.neg
        <5>1. ~(t < t) /\ t < t + 1
          BY <2>2
        <5> QED BY <3>3, <4>1, <5>1
      <4>2. CASE x.neg
        <5>1. ~(t < t) /\ t - 1 < t
          BY <2>2
        <5> QED BY <3>3, <4>2, <5>1
      <4> QED BY <4>1, <4>2
    <3>5. fanswer.trap = "none" /\ fanswer.value = t % bits
      BY <3>2, ValueFacts
    <3> HIDE DEF x, t, lo, hi, sat, bits, fits, Part
    <3> QED BY <1>10, <2>8, <3>1, <3>4, <3>5
  <2>9. CASE ~fits
    <3>1. (t < lo \/ t > hi) /\ (t > hi <=> ~x.neg)
      <4> HIDE DEF x, t, lo, hi, fits
      <4> QED BY <1>5, <1>6, <2>2, <2>6, <2>7, <2>9
    <3> HIDE DEF x, t, lo, hi, sat, bits, fits
    <3> QED BY <1>7, <1>10, <2>9, <3>1
  <2> QED BY <2>8, <2>9
<1> QED BY <1>8, <1>9, <1>10

\* The lowest place of a format.
Lowest(fmt) == 3 - 2^(fmt.e - 1) - fmt.p

(* A significand of all of a format's bits, over the lowest place, is a    *)
(* pattern's.                                                              *)
LEMMA Normal ==
  ASSUME NEW fmt \in Formats, NEW k \in Nat \ {0}, FP!bit_length(k) = fmt.p,
         NEW d \in Nat, d + 2 < 2^fmt.e
  PROVE  LET a == d * Hidden(fmt) + k
         IN  /\ a \in 0..(FP!SIGN(fmt) - 1) /\ a < FP!EXP(fmt)
             /\ Significand(fmt, a) = k /\ LastPlace(fmt, a) = d + Lowest(fmt)
<1> DEFINE H == Hidden(fmt)
           R == 2^fmt.e
           a == d * H + k
<1>1. /\ fmt.p \in Nat /\ fmt.p > 1 /\ H \in Nat \ {0} /\ R \in Nat /\ FP!EXP(fmt) = H * (R - 1)
      /\ FP!SIGN(fmt) = FP!EXP(fmt) + H /\ 2^(fmt.e - 1) \in Nat
  <2>1. H \in Nat \ {0}
    <3>1. fmt.p - 1 \in Nat
      BY FormatFacts
    <3> QED BY <3>1, PowIsNat DEF Hidden
  <2> QED BY <2>1, FormatFacts
<1>2. H <= k /\ k < 2 * H
  <2>1. k < 2^fmt.p /\ (fmt.p = 0 \/ k >= 2^(fmt.p - 1))
    <3>1. Takes(k, fmt.p)
      BY LengthCounts
    <3> QED BY <3>1 DEF Takes
  <2>2. 2^((fmt.p - 1) + 1) = 2 * H /\ (fmt.p - 1) + 1 = fmt.p
    <3>1. fmt.p - 1 \in Nat
      BY <1>1
    <3>2. 2^((fmt.p - 1) + 1) = 2 * 2^(fmt.p - 1)
      BY <3>1, PowNext
    <3>3. (fmt.p - 1) + 1 = fmt.p
      BY <1>1
    <3> QED BY <3>2, <3>3 DEF Hidden
  <2>3. 2^fmt.p = 2 * H
    BY <2>2
  <2> QED BY <1>1, <2>1, <2>3 DEF Hidden
<1> HIDE DEF H, R
<1>3. a = H * (d + 1) + (k - H) /\ k - H \in 0..(H - 1) /\ d + 1 \in Nat
  BY <1>1, <1>2
<1>4. a \in Nat /\ a < H * (R - 1) /\ H * (R - 1) \in Nat
  <2>1. d + 2 <= R - 1 /\ (R - 1) - (d + 2) \in Nat
    BY <1>1 DEF R
  <2>2. H * (R - 1) = H * (d + 2) + H * ((R - 1) - (d + 2))
    BY <1>1, <2>1
  <2>3. H * ((R - 1) - (d + 2)) \in Nat
    BY <1>1, <2>1
  <2>4. H * (d + 2) = H * (d + 1) + H /\ H * (d + 1) \in Nat
    BY <1>1
  <2> HIDE DEF a
  <2> QED BY <1>1, <1>3, <2>2, <2>3, <2>4
<1> HIDE DEF a
<1>5. a \in 0..(FP!SIGN(fmt) - 1) /\ a < FP!EXP(fmt)
  BY <1>1, <1>4
<1>6. Exponent(fmt, a) = d + 1 /\ Fraction(fmt, a) = k - H
  <2> DEFINE i == d + 1
             j == k - H
  <2>1. a \in Int /\ i \in Int /\ j \in 0..(H - 1) /\ a = H * i + j
    BY <1>3, <1>4
  <2> HIDE DEF i, j
  <2>2. a \div H = i /\ a % H = j
    BY <1>1, <2>1, QuotientIs
  <2> QED BY <2>2 DEF Exponent, Fraction, H, i, j
<1>7. Significand(fmt, a) = k
  <2>1. d + 1 # 0
    OBVIOUS
  <2>2. Significand(fmt, a) = Fraction(fmt, a) + H
    BY <1>6, <2>1 DEF Significand, H
  <2> QED BY <1>1, <1>6, <2>2
<1>8. LastPlace(fmt, a) = d + Lowest(fmt)
  <2>1. d + 1 # 0
    OBVIOUS
  <2>2. LastPlace(fmt, a) = (d + 1) + 1 - (2^(fmt.e - 1) - 1) - fmt.p
    BY <1>6, <2>1 DEF LastPlace
  <2> QED BY <1>1, <2>2 DEF Lowest
<1> QED BY <1>5, <1>7, <1>8 DEF a, H

(* A number that has such a significand is packed as it is.                *)
LEMMA PackedExactly ==
  ASSUME NEW fmt \in Formats, NEW x \in Floats, ~FP!isnan(x), ~FP!isinf(x), x.m # 0,
         NEW k \in Nat \ {0}, FP!bit_length(k) = fmt.p,
         NEW t \in Int, t >= Lowest(fmt), t + fmt.p <= 2^(fmt.e - 1),
         \/ t <= x.q /\ k = x.m * 2^(x.q - t)
         \/ t > x.q /\ x.m = k * 2^(t - x.q)
  PROVE  FP!b2f(fmt, FP!f2b(fmt, x)) = FP!Num(x.neg, k, t)
<1> DEFINE m == x.m
           q == x.q
           low == Lowest(fmt)
           H == Hidden(fmt)
           top == FP!bit_length(m) + q - fmt.p
           place == IF top > low THEN top ELSE low
           keep == IF place <= q THEN m * 2^(q - place) ELSE FP!HalfEven(m, place - q)
           bits == (place - low) * H + keep
           d == t - low
           a == d * H + k
<1>1. m \in Nat \ {0} /\ q \in Int /\ x.neg \in BOOLEAN
  BY FloatFacts
<1>2. fmt.p \in Nat /\ 2^(fmt.e - 1) \in Nat \ {0} /\ low \in Int /\ fmt.e \in Nat \ {0}
  <2>1. fmt.p \in Nat /\ 2^(fmt.e - 1) \in Nat \ {0} /\ fmt.e \in Nat \ {0}
    BY FormatFacts
  <2> QED BY <2>1 DEF Lowest
<1>3. FP!Pack(fmt, x) = IF m = 0 THEN 0 ELSE IF bits > FP!EXP(fmt) THEN FP!EXP(fmt) ELSE bits
  BY DEF FP!Pack, Lowest, Hidden
<1>4. FP!bit_length(m) + q = fmt.p + t
  <2>1. CASE t <= q /\ k = m * 2^(q - t)
    <3>1. q - t \in Nat
      BY <1>1, <2>1
    <3>2. FP!bit_length(k) = FP!bit_length(m) + (q - t) /\ FP!bit_length(m) \in Nat
      <4> HIDE DEF m, q
      <4> QED BY <1>1, <2>1, <3>1, LengthScaled, LengthCounts
    <3> HIDE DEF m, q
    <3> QED BY <1>1, <1>2, <3>2
  <2>2. CASE t > q /\ m = k * 2^(t - q)
    <3>1. t - q \in Nat
      BY <1>1, <2>2
    <3>2. FP!bit_length(m) = FP!bit_length(k) + (t - q)
      <4> HIDE DEF m, q
      <4> QED BY <1>1, <2>2, <3>1, LengthScaled
    <3> HIDE DEF m, q
    <3> QED BY <1>1, <1>2, <3>2
  <2> QED BY <2>1, <2>2
<1>5. place = t
  <2>1. FP!bit_length(m) \in Nat
    <3> HIDE DEF m
    <3> QED BY <1>1, LengthCounts
  <2>2. top = t
    <3> HIDE DEF m, q
    <3> QED BY <1>1, <1>2, <1>4, <2>1
  <2> HIDE DEF top, low
  <2> QED BY <1>2, <2>2 DEF low
<1>6. keep = k
  <2>1. CASE t <= q /\ k = m * 2^(q - t)
    <3> HIDE DEF m, q, place
    <3> QED BY <1>5, <2>1
  <2>2. CASE t > q /\ m = k * 2^(t - q)
    <3> DEFINE n == t - q
               D == 2^n
    <3>1. n \in Nat /\ ~(t <= q) /\ m = k * D
      BY <1>1, <2>2
    <3>2. D \in Nat \ {0}
      <4> HIDE DEF n
      <4> QED BY <3>1, PowIsNat
    <3>3. keep = FP!HalfEven(m, n)
      <4> HIDE DEF m, q, place
      <4> QED BY <1>5, <3>1
    <3>4. FP!bit_length(m) = fmt.p + n
      <4>1. FP!bit_length(m) \in Nat
        <5> HIDE DEF m
        <5> QED BY <1>1, LengthCounts
      <4> HIDE DEF m, q
      <4> QED BY <1>1, <1>2, <1>4, <4>1
    <3>5. m \div D = k /\ m % D = 0
      <4> HIDE DEF m, D
      <4> DEFINE z == 0
      <4>1. m = D * k + z /\ z \in 0..(D - 1) /\ m \in Int
        BY <1>1, <3>1, <3>2
      <4> HIDE DEF z
      <4>2. ASSUME NEW i \in Int, m = D * i + z PROVE m \div D = i /\ m % D = z
        BY <3>2, <4>1, <4>2, QuotientIs
      <4>3. k \in Int
        OBVIOUS
      <4> QED BY <4>1, <4>2, <4>3 DEF z
    <3>6. FP!HalfEven(m, n) = k
      <4>1. ~(n > FP!bit_length(m) + 1)
        <5> HIDE DEF m, n
        <5> QED BY <1>2, <3>1, <3>4
      <4>2. FP!HalfEven(m, n) = LET kept == m \div D
                                 rem == 2 * (m % D)
                             IN  IF rem > D \/ (rem = D /\ kept % 2 = 1) THEN kept + 1 ELSE kept
        BY <4>1 DEF FP!HalfEven
      <4> HIDE DEF m, n, D
      <4>3. ~(2 * 0 > D) /\ 2 * 0 # D
        BY <3>2
      <4> QED BY <3>5, <4>2, <4>3
    <3> QED BY <3>3, <3>6
  <2> QED BY <2>1, <2>2
<1>7. d \in Nat /\ d + 2 < 2^fmt.e /\ t = d + low
  <2>1. 2^((fmt.e - 1) + 1) = 2 * 2^(fmt.e - 1) /\ (fmt.e - 1) + 1 = fmt.e
    <3>1. fmt.e - 1 \in Nat
      BY <1>2
    <3> QED BY <1>2, <3>1, PowNext
  <2>2. 2^fmt.e = 2 * 2^(fmt.e - 1)
    BY <2>1
  <2> DEFINE B == 2^(fmt.e - 1)
             R == 2^fmt.e
  <2>3. B \in Nat /\ R = 2 * B /\ low = 3 - B - fmt.p /\ t + fmt.p <= B /\ t >= low
    BY <1>2, <2>2 DEF Lowest
  <2> HIDE DEF B, R, low
  <2>4. d \in Nat /\ d + 2 < R /\ t = d + low
    BY <1>2, <2>3
  <2> QED BY <2>4 DEF R
<1>8. /\ a \in 0..(FP!SIGN(fmt) - 1) /\ a < FP!EXP(fmt)
      /\ Significand(fmt, a) = k /\ LastPlace(fmt, a) = t
  <2> HIDE DEF d
  <2> QED BY <1>7, Normal
<1>9. FP!Pack(fmt, x) = a
  <2>1. bits = a
    BY <1>5, <1>6
  <2>2. ~(a > FP!EXP(fmt))
    <3>1. FP!EXP(fmt) \in Nat
      BY FormatFacts
    <3> HIDE DEF a
    <3> QED BY <1>8, <3>1
  <2> HIDE DEF bits, a, m
  <2> QED BY <1>1, <1>3, <2>1, <2>2
<1>10. FP!f2b(fmt, x) = a + IF x.neg THEN FP!SIGN(fmt) ELSE 0
  <2>1. FP!f2b(fmt, x) = (IF x.neg THEN FP!SIGN(fmt) ELSE 0) + FP!Pack(fmt, x)
    BY DEF FP!f2b
  <2>2. FP!SIGN(fmt) \in Nat
    BY FormatFacts
  <2> HIDE DEF a
  <2> QED BY <1>8, <1>9, <2>1, <2>2
<1> DEFINE u == FP!f2b(fmt, x)
<1>11. u \in FP!Patterns(fmt) /\ FP!Abs(fmt, u) = a /\ (u >= FP!SIGN(fmt) <=> x.neg)
  <2> HIDE DEF a
  <2> QED BY <1>1, <1>8, <1>10, UnderASign
<1> HIDE DEF a, u
<1>12. FP!b2f(fmt, u) = FP!Num(u >= FP!SIGN(fmt), Significand(fmt, a), LastPlace(fmt, a))
  BY <1>8, <1>11, Unpacked
<1>13. (u >= FP!SIGN(fmt)) = x.neg
  BY <1>1, <1>11
<1> QED BY <1>8, <1>12, <1>13 DEF u

(* And so is a Python float on the way, if it has no more bits than the    *)
(* format and is neither too large for it nor below one half.              *)
LEMMA RoundTrip ==
  ASSUME NEW fmt \in Formats, NEW x \in Floats, ~FP!isnan(x), ~FP!isinf(x), x.m # 0,
         NEW b, b = FP!bit_length(x.m), b <= fmt.p, b + x.q >= 0, b + x.q <= 2^(fmt.e - 1)
  PROVE  /\ b \in Nat
         /\ FP!b2f(fmt, FP!f2b(fmt, FP!PyFloat(x))) = FP!Num(x.neg, x.m * 2^(fmt.p - b), (b + x.q) - fmt.p)
<1> DEFINE m == x.m
           q == x.q
           p == fmt.p
           y == FP!PyFloat(x)
           k == m * 2^(P2 - b)
           j == m * 2^(p - b)
<1>1. m \in Nat \ {0} /\ q \in Int /\ x.neg \in BOOLEAN
  BY FloatFacts
<1>2. b \in Nat
  <2> HIDE DEF m
  <2> QED BY <1>1, LengthCounts DEF m
<1>3. /\ p \in Nat /\ P2 \in Nat /\ p <= P2 /\ FP!F64 \in Formats /\ FP!F64.p = P2
      /\ 2^(FP!F64.e - 1) \in Nat /\ 2^(fmt.e - 1) \in Nat /\ 2^(fmt.e - 1) <= 2^(FP!F64.e - 1)
      /\ 2^(fmt.e - 1) > 6
  <2>1. FP!F64 \in Formats /\ FP!F64.p = P2 /\ FP!F64.e = E2
    BY DEF Formats, FP!F64
  <2>2. fmt.e \in {E1, E2}
    BY DEF Formats, FP!F32, FP!F64
  <2>3. E1 - 1 \in Nat /\ E2 - 1 \in Nat /\ E1 - 1 <= E2 - 1
    BY FormatAssumption DEF FP!FormatAssumption
  <2>4. 2^(E1 - 1) <= 2^(E2 - 1) /\ 2^(E1 - 1) \in Nat /\ 2^(E2 - 1) \in Nat
    BY <2>3, PowMonotone, PowIsNat
  <2>5. 2^(fmt.e - 1) <= 2^(E2 - 1) /\ 2^(fmt.e - 1) \in Nat
    <3>1. CASE fmt.e = E1
      BY <2>4, <3>1
    <3>2. CASE fmt.e = E2
      BY <2>4, <3>2
    <3> QED BY <2>2, <3>1, <3>2
  <2>6. 2^(fmt.e - 1) > 6
    BY <2>5, FormatBounds
  <2> QED BY <2>1, <2>4, <2>5, <2>6, FormatFacts
<1>4. P2 - b \in Nat /\ p - b \in Nat /\ P2 - p \in Nat /\ P2 - b = (p - b) + (P2 - p)
  BY <1>2, <1>3
<1>5. k \in Nat \ {0} /\ FP!bit_length(k) = P2 /\ j \in Nat \ {0} /\ FP!bit_length(j) = p
  <2>1. k \in Nat \ {0} /\ FP!bit_length(k) = b + (P2 - b) /\ j \in Nat \ {0} /\ FP!bit_length(j) = b + (p - b)
    <3> HIDE DEF m, p
    <3> QED BY <1>1, <1>4, LengthScaled DEF m
  <2>2. b + (P2 - b) = P2 /\ b + (p - b) = p
    BY <1>2, <1>3
  <2> QED BY <2>1, <2>2
<1>6. y = FP!Num(x.neg, k, (b + q) - P2)
  <2> DEFINE t == (b + q) - P2
  <2>1. t \in Int /\ t <= q /\ q - t = P2 - b /\ t + P2 = b + q
    BY <1>1, <1>2, <1>3, <1>4
  <2>2. t >= Lowest(FP!F64) /\ t + FP!F64.p <= 2^(FP!F64.e - 1)
    <3>1. Lowest(FP!F64) = 3 - 2^(FP!F64.e - 1) - P2
      BY <1>3 DEF Lowest
    <3> QED BY <1>1, <1>2, <1>3, <3>1
  <2>3. k = m * 2^(q - t)
    BY <2>1
  <2> HIDE DEF t, k
  <2>4. FP!b2f(FP!F64, FP!f2b(FP!F64, x)) = FP!Num(x.neg, k, t)
    BY <1>3, <1>5, <2>1, <2>2, <2>3, PackedExactly
  <2> QED BY <2>4 DEF t, FP!PyFloat
<1>7. y \in Floats /\ ~FP!isnan(y) /\ ~FP!isinf(y) /\ y.neg = x.neg /\ y.m = k /\ y.q = (b + q) - P2
  <2>1. (b + q) - P2 \in Int
    BY <1>1, <1>2, <1>3
  <2> HIDE DEF k, q
  <2> QED BY <1>1, <1>5, <1>6, <2>1, Makes
<1> HIDE DEF y
<1> DEFINE t == (b + q) - p
<1>8. t \in Int /\ t - y.q = P2 - p /\ t >= y.q
  BY <1>1, <1>2, <1>3, <1>7
<1>9. t >= Lowest(fmt) /\ t + p <= 2^(fmt.e - 1)
  <2>1. Lowest(fmt) = 3 - 2^(fmt.e - 1) - p
    BY DEF Lowest
  <2> QED BY <1>1, <1>2, <1>3, <2>1
<1>10. k = j * 2^(t - y.q)
  <2>1. 2^((p - b) + (P2 - p)) = 2^(p - b) * 2^(P2 - p)
    BY <1>4, PowSum
  <2>2. 2^(p - b) \in Nat /\ 2^(P2 - p) \in Nat
    BY <1>4, PowIsNat
  <2>3. 2^(P2 - b) = 2^(p - b) * 2^(P2 - p)
    BY <1>4, <2>1
  <2> DEFINE A == 2^(p - b)
             B == 2^(P2 - p)
             C == 2^(P2 - b)
  <2>4. A \in Nat /\ B \in Nat /\ C = A * B /\ k = m * C /\ j = m * A
    BY <2>2, <2>3
  <2> HIDE DEF A, B, C, k, j
  <2>5. k = j * B
    BY <1>1, <2>4
  <2> QED BY <1>8, <2>5 DEF B
<1>11. \/ t <= y.q /\ j = y.m * 2^(y.q - t)
       \/ t > y.q /\ y.m = j * 2^(t - y.q)
  <2> HIDE DEF t, k, j
  <2>1. CASE t = y.q
    <3>1. t - y.q = 0 /\ y.q - t = 0 /\ t <= y.q
      BY <1>8, <2>1
    <3>2. j * 2^(t - y.q) = j /\ j * 2^(y.q - t) = j
      <4>1. 2^0 = 1 /\ j * 1 = j
        BY <1>5
      <4> QED BY <3>1, <4>1
    <3>3. y.m = j /\ j = y.m * 2^(y.q - t)
      BY <1>7, <1>10, <3>2
    <3> QED BY <3>1, <3>3
  <2>2. CASE t # y.q
    <3>1. y.q \in Int
      BY <1>1, <1>2, <1>3, <1>7
    <3>2. t > y.q
      BY <1>8, <2>2, <3>1
    <3> QED BY <1>7, <1>10, <3>2
  <2> QED BY <2>1, <2>2
<1>12. y.m # 0
  BY <1>5, <1>7
<1> HIDE DEF t, k, j
<1>13. FP!b2f(fmt, FP!f2b(fmt, y)) = FP!Num(y.neg, j, t)
  BY <1>5, <1>7, <1>8, <1>9, <1>11, <1>12, PackedExactly
<1> QED BY <1>2, <1>7, <1>13 DEF y, j, t

\* Rounding goes away from zero.
Up(op, x) == (op = "ceil" /\ ~x.neg) \/ (op = "floor" /\ x.neg)

\* What x is beyond its rounded value is on the side it should be, and small.
Left(op, x, diff) ==
  /\ FP!Cmp(diff.m, diff.q, 1, 0) < 0
  /\ diff.m # 0 => /\ op = "ceil" => diff.neg
                   /\ op = "floor" => ~diff.neg
                   /\ op = "trunc" => diff.neg = x.neg
                   /\ op = "nearest" => FP!Cmp(diff.m, diff.q, 1, -1) <= 0

\* diff is v units of 2^s, with the sign of x for those of x.
Units(x, diff, v, s) ==
  /\ diff.m = IF v < 0 THEN -v ELSE v
  /\ v # 0 => diff.q = s /\ diff.neg = ((v < 0) # x.neg)

(* Below one, and at most a half.                                          *)
LEMMA BelowOne ==
  ASSUME NEW n \in Nat, NEW s \in Int, s < 0
  PROVE  /\ n < 2^(-s) => FP!Cmp(n, s, 1, 0) = -1
         /\ n <= 2^(-1 - s) => FP!Cmp(n, s, 1, -1) <= 0
<1> DEFINE one == 1
<1>1. one \in Nat
  OBVIOUS
<1> HIDE DEF one
<1>2. ASSUME NEW k \in Nat, NEW z \in Int, z = s + k
      PROVE  /\ one * 2^k \in Nat
             /\ one * 2^k = n => FP!Cmp(n, s, one, z) = 0
             /\ one * 2^k > n => FP!Cmp(n, s, one, z) = -1
  <2>1. LET M == one * 2^k
        IN  /\ M \in Nat
            /\ M < n => FP!Cmp(one, z, n, s) = -1 /\ FP!Cmp(n, s, one, z) = 1
            /\ M = n => FP!Cmp(one, z, n, s) = 0 /\ FP!Cmp(n, s, one, z) = 0
            /\ M > n => FP!Cmp(one, z, n, s) = 1 /\ FP!Cmp(n, s, one, z) = -1
    BY <1>1, <1>2, CmpExact
  <2> QED BY <2>1
<1>3. \A k \in Nat : one * 2^k = 2^k
  <2>1. \A k \in Nat : 2^k \in Nat
    BY PowIsNat
  <2> QED BY <2>1 DEF one
<1>4. n < 2^(-s) => FP!Cmp(n, s, 1, 0) = -1
  <2> DEFINE k == -s
             z == 0
  <2>1. k \in Nat /\ z \in Int /\ z = s + k
    OBVIOUS
  <2> HIDE DEF k, z
  <2>2. 2^k > n => FP!Cmp(n, s, one, z) = -1
    BY <1>2, <1>3, <2>1
  <2>3. n < 2^k => 2^k > n
    BY <2>1, PowIsNat
  <2> QED BY <2>2, <2>3 DEF k, z, one
<1>5. n <= 2^(-1 - s) => FP!Cmp(n, s, 1, -1) <= 0
  <2> DEFINE k == -1 - s
             z == -1
  <2>1. k \in Nat /\ z \in Int /\ z = s + k
    OBVIOUS
  <2> HIDE DEF k, z
  <2>2. /\ 2^k = n => FP!Cmp(n, s, one, z) = 0
        /\ 2^k > n => FP!Cmp(n, s, one, z) = -1
    BY <1>2, <1>3, <2>1
  <2>3. n <= 2^k => 2^k > n \/ 2^k = n
    BY <2>1, PowIsNat
  <2>4. n <= 2^k => FP!Cmp(n, s, one, z) <= 0
    BY <2>2, <2>3
  <2> QED BY <2>4 DEF k, z, one
<1> QED BY <1>4, <1>5

(* Such a difference, counted in units of a place below the point.         *)
LEMMA LeftInUnits ==
  ASSUME NEW x \in Floats, NEW op \in FP!Rounding, NEW v \in Int, NEW s \in Int, s < 0,
         NEW diff, Units(x, diff, v, s), v < 2^(-s), -v < 2^(-s),
         op # "nearest" => (Up(op, x) => v <= 0) /\ (~Up(op, x) => v >= 0),
         op = "nearest" => 2 * v <= 2^(-s) /\ 2 * (-v) <= 2^(-s)
  PROVE  Left(op, x, diff)
<1> DEFINE n == diff.m
           E == 2^(-s)
           G == 2^(-1 - s)
<1>1. n \in Nat /\ n = (IF v < 0 THEN -v ELSE v) /\ (n = 0 <=> v = 0)
  BY DEF Units
<1>2. v # 0 => diff.q = s /\ diff.neg = ((v < 0) # x.neg)
  BY DEF Units
<1>3. x.neg \in BOOLEAN
  BY FloatFacts
<1>4. E \in Nat \ {0} /\ G \in Nat \ {0} /\ E = 2 * G
  <2>1. -1 - s \in Nat /\ -s \in Nat /\ (-1 - s) + 1 = -s
    OBVIOUS
  <2>2. 2^((-1 - s) + 1) = 2 * 2^(-1 - s)
    BY <2>1, PowNext
  <2>3. 2^(-s) \in Nat \ {0} /\ 2^(-1 - s) \in Nat \ {0}
    BY <2>1, PowIsNat
  <2> QED BY <2>1, <2>2, <2>3
<1>5. CASE v = 0
  <2>1. FP!Cmp(0, diff.q, 1, 0) = -1
    BY DEF FP!Cmp
  <2> HIDE DEF n
  <2>2. n = 0 /\ -1 < 0
    BY <1>1, <1>5
  <2> QED BY <2>1, <2>2 DEF Left, n
<1>6. CASE v # 0
  <2>1. FP!Cmp(n, s, 1, 0) = -1
    <3> HIDE DEF n
    <3> QED BY <1>1, BelowOne
  <2>2. op = "nearest" => FP!Cmp(n, s, 1, -1) <= 0
    <3> SUFFICES ASSUME op = "nearest" PROVE FP!Cmp(n, s, 1, -1) <= 0
      OBVIOUS
    <3>1. 2 * n <= E
      <4> HIDE DEF n
      <4> QED BY <1>1
    <3>2. n <= G
      <4> HIDE DEF G, n, E
      <4> QED BY <1>1, <1>4, <3>1
    <3> HIDE DEF n
    <3> QED BY <1>1, <3>2, BelowOne
  <2>3. diff.q = s /\ diff.neg = ((v < 0) # x.neg)
    BY <1>2, <1>6
  <2>4. /\ op = "ceil" => (v < 0 <=> ~x.neg)
        /\ op = "floor" => (v < 0 <=> x.neg)
        /\ op = "trunc" => ~(v < 0)
    <3>1. op = "ceil" => (Up(op, x) <=> ~x.neg)
      BY DEF Up
    <3>2. op = "floor" => (Up(op, x) <=> x.neg)
      BY DEF Up
    <3>3. op = "trunc" => ~Up(op, x)
      BY DEF Up
    <3>4. op # "nearest" => (Up(op, x) <=> v < 0)
      BY <1>6
    <3>5. op \in {"ceil", "floor", "trunc"} => op # "nearest"
      OBVIOUS
    <3> QED BY <3>1, <3>2, <3>3, <3>4, <3>5
  <2> HIDE DEF n, E
  <2>5. FP!Cmp(n, diff.q, 1, 0) < 0
    BY <2>1, <2>3
  <2>6. op = "nearest" => FP!Cmp(n, diff.q, 1, -1) <= 0
    BY <2>2, <2>3
  <2> DEFINE minus == v < 0
  <2>7. /\ op = "ceil" => diff.neg
        /\ op = "floor" => ~diff.neg
        /\ op = "trunc" => diff.neg = x.neg
    <3>1. diff.neg = (minus # x.neg) /\ minus \in BOOLEAN
      BY <2>3
    <3>2. /\ op = "ceil" => (minus <=> ~x.neg)
          /\ op = "floor" => (minus <=> x.neg)
          /\ op = "trunc" => ~minus
      BY <2>4
    <3> HIDE DEF minus
    <3> QED BY <1>3, <3>1, <3>2
  <2> QED BY <2>5, <2>6, <2>7 DEF Left, n
<1> QED BY <1>5, <1>6

(* The sum of two numbers of different sign.                               *)
LEMMA SignedSumUnits ==
  ASSUME NEW x \in Floats, NEW y \in Floats, y.neg = ~x.neg, NEW d \in Nat,
         NEW w, w = x.m * 2^d - y.m
  PROVE  w \in Int /\ Units(x, FP!SignedSum(x, y, d), w, x.q - d) /\ Units(y, FP!SignedSum(x, y, d), -w, x.q - d)
<1> DEFINE P == 2^d
           S == (IF x.neg THEN -x.m ELSE x.m) * P + (IF y.neg THEN -y.m ELSE y.m)
           sum == FP!SignedSum(x, y, d)
           s == x.q - d
<1>1. x.m \in Nat /\ y.m \in Nat /\ x.neg \in BOOLEAN /\ s \in Int
  BY FloatFacts
<1>2. P \in Nat
  BY PowIsNat
<1>3. w \in Int /\ S = IF x.neg THEN -w ELSE w
  <2>1. CASE x.neg
    <3>1. S = (-x.m) * P + y.m
      BY <1>1, <2>1
    <3> HIDE DEF S, P
    <3> QED BY <1>1, <1>2, <2>1, <3>1 DEF P
  <2>2. CASE ~x.neg
    <3>1. S = x.m * P + -y.m
      BY <1>1, <2>2
    <3> HIDE DEF S, P
    <3> QED BY <1>1, <1>2, <2>2, <3>1 DEF P
  <2> QED BY <2>1, <2>2
<1>4. sum = IF S = 0 THEN FP!Num(x.neg /\ y.neg, 0, 0) ELSE FP!Num(S < 0, IF S < 0 THEN -S ELSE S, s)
  BY DEF FP!SignedSum
<1>5. /\ sum.m = IF w < 0 THEN -w ELSE w
      /\ w # 0 => sum.q = s /\ sum.neg = (S < 0) /\ S # 0
  <2> HIDE DEF S
  <2>1. CASE w = 0
    <3>1. S = 0
      BY <1>1, <1>3, <2>1
    <3>2. sum.m = 0
      BY <1>4, <3>1 DEF FP!Num
    <3> QED BY <2>1, <3>2
  <2>2. CASE w # 0
    <3>1. S # 0 /\ (IF S < 0 THEN -S ELSE S) = (IF w < 0 THEN -w ELSE w)
      BY <1>1, <1>3, <2>2
    <3> HIDE DEF s
    <3>2. sum = FP!Num(S < 0, IF S < 0 THEN -S ELSE S, s)
      BY <1>4, <3>1
    <3>3. sum.m = (IF S < 0 THEN -S ELSE S) /\ sum.q = s /\ sum.neg = (S < 0)
      BY <3>2 DEF FP!Num
    <3> QED BY <3>1, <3>3
  <2> QED BY <2>1, <2>2
<1> DEFINE minus == w < 0
           below == S < 0
<1>6. w # 0 => (below <=> (minus # x.neg)) /\ (-w < 0 <=> ~minus)
  <2> HIDE DEF S
  <2>1. CASE x.neg
    <3>1. w # 0 => (S < 0 <=> ~(w < 0)) /\ (-w < 0 <=> ~(w < 0))
      BY <1>3, <2>1
    <3> HIDE DEF below, minus
    <3>2. w # 0 => (below <=> ~minus) /\ (-w < 0 <=> ~minus)
      BY <3>1 DEF below, minus
    <3>3. (minus # x.neg) <=> ~minus
      BY <1>1, <2>1 DEF minus
    <3> QED BY <3>2, <3>3
  <2>2. CASE ~x.neg
    BY <1>1, <1>3, <2>2
  <2> QED BY <2>1, <2>2
<1>7. w # 0 => sum.neg = ((w < 0) # x.neg) /\ sum.neg = ((-w < 0) # y.neg)
  <2> SUFFICES ASSUME w # 0 PROVE sum.neg = ((w < 0) # x.neg) /\ sum.neg = ((-w < 0) # y.neg)
    OBVIOUS
  <2> DEFINE plus == -w < 0
  <2>1. sum.neg = below /\ (below <=> (minus # x.neg)) /\ (plus <=> ~minus)
        /\ below \in BOOLEAN /\ minus \in BOOLEAN /\ plus \in BOOLEAN
    BY <1>5, <1>6
  <2> HIDE DEF below, minus, plus, sum
  <2>2. sum.neg = (minus # x.neg) /\ sum.neg = (plus # y.neg)
    BY <1>1, <2>1
  <2> QED BY <2>2 DEF minus, plus
<1>8. sum.m = IF -w < 0 THEN -(-w) ELSE -w
  <2> HIDE DEF sum
  <2> QED BY <1>3, <1>5
<1>9. -w # 0 => w # 0
  BY <1>3
<1> HIDE DEF sum, s, S
<1> QED BY <1>3, <1>5, <1>7, <1>8, <1>9 DEF Units, sum, s

(* As far as it is exact, it is the difference in units of the lower place.*)
LEMMA Difference ==
  ASSUME NEW x \in Floats, NEW y \in Floats, ~FP!isinf(x), ~FP!isinf(y), y.neg = ~x.neg, x.m # 0, y.m # 0,
         NEW s, s = (IF x.q >= y.q THEN y.q ELSE x.q), x.q - s <= FP!Far, y.q - s <= FP!Far
  PROVE  LET v == x.m * 2^(x.q - s) - y.m * 2^(y.q - s)
         IN  v \in Int /\ Units(x, FP!Sum(x, y), v, s)
<1>1. x.q \in Int /\ y.q \in Int /\ x.m \in Nat /\ y.m \in Nat /\ x.neg \in BOOLEAN
  BY FloatFacts
<1>2. FP!Sum(x, y) = LET big == IF x.q >= y.q THEN x ELSE y
                      small == IF x.q >= y.q THEN y ELSE x
                  IN  IF big.q - small.q <= FP!Far THEN FP!SignedSum(big, small, big.q - small.q)
                      ELSE FP!SignedSum(big, [small EXCEPT !.m = 1], FP!Far \div 2 + 2)
  BY DEF FP!Sum
<1> DEFINE v == x.m * 2^(x.q - s) - y.m * 2^(y.q - s)
<1>3. CASE x.q >= y.q
  <2> DEFINE d == x.q - y.q
             w == x.m * 2^d - y.m
  <2>1. d \in Nat /\ s = y.q /\ x.q - d = s
    BY <1>1, <1>3
  <2>2. FP!Sum(x, y) = FP!SignedSum(x, y, d)
    BY <1>2, <1>3, <2>1
  <2>3. w \in Int /\ Units(x, FP!SignedSum(x, y, d), w, x.q - d)
    <3> HIDE DEF d
    <3> QED BY <2>1, SignedSumUnits
  <2>4. v = w
    <3>1. y.m * 2^(y.q - s) = y.m
      <4>1. y.q - s = 0 /\ 2^0 = 1 /\ y.m * 1 = y.m
        BY <1>1, <2>1
      <4> QED BY <4>1
    <3>2. x.q - s = d
      BY <2>1
    <3> HIDE DEF d
    <3> QED BY <3>1, <3>2
  <2> HIDE DEF d, w, v
  <2> QED BY <2>1, <2>2, <2>3, <2>4 DEF v
<1>4. CASE ~(x.q >= y.q)
  <2> DEFINE d == y.q - x.q
             w == y.m * 2^d - x.m
  <2>1. d \in Nat /\ s = x.q /\ y.q - d = s
    BY <1>1, <1>4
  <2>2. FP!Sum(x, y) = FP!SignedSum(y, x, d)
    BY <1>2, <1>4, <2>1
  <2>3. w \in Int /\ Units(x, FP!SignedSum(y, x, d), -w, y.q - d)
    <3>1. x.neg = ~y.neg
      BY <1>1
    <3> HIDE DEF d
    <3> QED BY <2>1, <3>1, SignedSumUnits
  <2>4. v = -w
    <3>1. x.m * 2^(x.q - s) = x.m
      <4>1. x.q - s = 0 /\ 2^0 = 1 /\ x.m * 1 = x.m
        BY <1>1, <2>1
      <4> QED BY <4>1
    <3>2. y.q - s = d
      BY <2>1
    <3>3. v = x.m - y.m * 2^d /\ 2^d \in Nat
      <4> HIDE DEF d
      <4> QED BY <2>1, <3>1, <3>2, PowIsNat
    <3> DEFINE P == 2^d
    <3>4. v = x.m - y.m * P /\ P \in Nat /\ w = y.m * P - x.m
      BY <3>3
    <3> HIDE DEF v, w, P
    <3> QED BY <1>1, <3>4
  <2>5. v \in Int
    <3> HIDE DEF w, v
    <3> QED BY <2>3, <2>4
  <2> HIDE DEF d, w, v
  <2> QED BY <2>1, <2>2, <2>3, <2>4, <2>5 DEF v
<1> QED BY <1>3, <1>4

\* res is an integer x can be rounded to.
RoundedTo(op, x, res) ==
  /\ res.kind = "num" /\ res.neg = x.neg
  /\ res.m # 0 /\ res.q < 0 => res.m % 2^(-res.q) = 0
  /\ Left(op, x, FP!Sum(x, [res EXCEPT !.neg = ~res.neg]))

(* The negated number differs in the sign only.                            *)
LEMMA NegatedFacts ==
  ASSUME NEW y \in Floats
  PROVE  LET z == [y EXCEPT !.neg = ~y.neg]
         IN  /\ z \in Floats /\ z.neg = ~y.neg /\ z.m = y.m /\ z.q = y.q /\ z.kind = y.kind
             /\ FP!isinf(z) <=> FP!isinf(y)
<1> DEFINE z == [y EXCEPT !.neg = ~y.neg]
<1>1. z \in Floats /\ z.neg = ~y.neg
  BY NegatedType
<1>2. z.m = y.m /\ z.q = y.q /\ z.kind = y.kind
  BY DEF Floats
<1> HIDE DEF z
<1>3. FP!isinf(z) <=> FP!isinf(y)
  BY <1>2 DEF FP!isinf
<1> QED BY <1>1, <1>2, <1>3 DEF z

(* A zero and a number without a fraction are integers themselves.         *)
LEMMA RoundsToItself ==
  ASSUME NEW x \in Floats, x.kind = "num", NEW op \in FP!Rounding, x.m = 0 \/ x.q >= 0
  PROVE  RoundedTo(op, x, x)
<1> DEFINE y == [x EXCEPT !.neg = ~x.neg]
           sum == FP!Sum(x, y)
<1>1. x.m \in Nat /\ x.q \in Int /\ x.neg \in BOOLEAN /\ ~FP!isinf(x)
  BY FloatFacts DEF FP!isinf
<1>2. y \in Floats /\ y.neg = ~x.neg /\ y.m = x.m /\ y.q = x.q /\ ~FP!isinf(y)
  BY <1>1, NegatedFacts
<1> HIDE DEF y
<1>3. sum.m = 0
  <2>1. CASE x.m = 0
    <3>1. sum = FP!Num(x.neg /\ y.neg, 0, 0)
      BY <1>1, <1>2, <2>1 DEF FP!Sum
    <3> QED BY <3>1 DEF FP!Num
  <2>2. CASE x.m # 0
    <3> DEFINE s == IF x.q >= y.q THEN y.q ELSE x.q
               v == x.m * 2^(x.q - s) - y.m * 2^(y.q - s)
    <3>1. s = x.q /\ s = y.q
      BY <1>1, <1>2
    <3>2. x.q - s <= FP!Far /\ y.q - s <= FP!Far
      BY <1>1, <1>2, <3>1, FarType
    <3>3. v \in Int /\ Units(x, FP!Sum(x, y), v, s)
      <4> HIDE DEF s
      <4>1. s = (IF x.q >= y.q THEN y.q ELSE x.q)
        BY DEF s
      <4>2. y.m # 0
        BY <1>2, <2>2
      <4> QED BY <1>1, <1>2, <2>2, <3>2, <4>1, <4>2, Difference
    <3>4. v = 0
      <4>1. x.q - s = 0 /\ y.q - s = 0 /\ 2^0 = 1
        BY <1>1, <1>2, <3>1
      <4>2. x.m * 1 - y.m * 1 = 0
        BY <1>1, <1>2
      <4> QED BY <4>1, <4>2
    <3> HIDE DEF v, s
    <3> QED BY <3>3, <3>4 DEF Units
  <2> QED BY <2>1, <2>2
<1>4. Left(op, x, sum)
  <2> DEFINE v == 0
  <2>1. PICK n \in Nat : n > 0
    OBVIOUS
  <2> DEFINE s == -n
  <2>2. v \in Int /\ s \in Int /\ s < 0 /\ -s = n
    BY <2>1
  <2>3. Units(x, sum, v, s)
    <3> HIDE DEF sum
    <3> QED BY <1>3 DEF Units
  <2>4. v < 2^(-s) /\ -v < 2^(-s) /\ 2 * v <= 2^(-s) /\ 2 * (-v) <= 2^(-s) /\ v <= 0 /\ v >= 0
    <3> DEFINE E == 2^n
    <3>1. E \in Nat \ {0}
      BY PowIsNat
    <3>2. 2^(-s) = E
      <4> HIDE DEF s
      <4> QED BY <2>2
    <3> HIDE DEF s, E
    <3> QED BY <3>1, <3>2
  <2> HIDE DEF v, s, sum
  <2> QED BY <2>2, <2>3, <2>4, LeftInUnits
<1>5. ~(x.m # 0 /\ x.q < 0)
  BY <1>1
<1> QED BY <1>4, <1>5 DEF RoundedTo, y

(* A zero is packed as one.                                                *)
LEMMA ZeroTrip ==
  ASSUME NEW fmt \in Formats, NEW x \in Floats, x.kind = "num", x.m = 0
  PROVE  LET y == FP!b2f(fmt, FP!f2b(fmt, x))
         IN  y \in Floats /\ y.kind = "num" /\ y.m = 0 /\ y.neg = x.neg
<1> DEFINE u == FP!f2b(fmt, x)
           y == FP!b2f(fmt, u)
           a == 0
<1>1. x.neg \in BOOLEAN /\ ~FP!isnan(x) /\ ~FP!isinf(x)
  BY FloatFacts DEF FP!isnan, FP!isinf
<1>2. FP!SIGN(fmt) \in Nat \ {0} /\ FP!EXP(fmt) \in Nat /\ FP!EXP(fmt) # 0
  <2>1. FP!EXP(fmt) \in Nat \ {0} /\ FP!SIGN(fmt) = FP!EXP(fmt) + Hidden(fmt) /\ Hidden(fmt) \in Nat
    BY FormatFacts
  <2> QED BY <2>1
<1>3. u = a + IF x.neg THEN FP!SIGN(fmt) ELSE 0
  <2>1. FP!Pack(fmt, x) = 0
    BY DEF FP!Pack
  <2>2. u = (IF x.neg THEN FP!SIGN(fmt) ELSE 0) + 0
    BY <1>1, <2>1 DEF FP!f2b
  <2> HIDE DEF u
  <2> QED BY <1>2, <2>2
<1>4. a \in 0..(FP!SIGN(fmt) - 1)
  BY <1>2
<1> HIDE DEF a
<1>5. u \in FP!Patterns(fmt) /\ FP!Abs(fmt, u) = a /\ (u >= FP!SIGN(fmt) <=> x.neg)
  <2> HIDE DEF u
  <2> QED BY <1>1, <1>3, <1>4, UnderASign
<1> HIDE DEF u
<1>6. FP!iszero(y)
  BY <1>5, ZeroUnpacked DEF a
<1>7. y \in Floats /\ ~FP!is_nan(fmt, u) /\ y.neg = (u >= FP!SIGN(fmt))
  <2>1. y \in Floats /\ (FP!isnan(y) <=> FP!is_nan(fmt, u))
        /\ (~FP!is_nan(fmt, u) => y.neg = (u >= FP!SIGN(fmt)))
    BY <1>5, UnpackedType
  <2>2. ~FP!isnan(y)
    BY <1>6 DEF FP!iszero, FP!isnan
  <2> QED BY <2>1, <2>2
<1>8. y.neg \in BOOLEAN
  BY <1>7, FloatFacts
<1> HIDE DEF y
<1>9. y.neg = x.neg
  BY <1>1, <1>5, <1>7, <1>8
<1> QED BY <1>6, <1>7, <1>9 DEF FP!iszero, y, u

(* A fraction that is rounded to zero.                                     *)
LEMMA RoundsToZero ==
  ASSUME NEW x \in Floats, x.kind = "num", x.m # 0, x.q < 0, NEW op \in FP!Rounding, FP!ToInteger(op, x) = 0,
         NEW res \in Floats, res.kind = "num", res.m = 0, res.neg = x.neg
  PROVE  RoundedTo(op, x, res)
<1> DEFINE y == [res EXCEPT !.neg = ~res.neg]
           m == x.m
           q == x.q
           D == 2^(-q)
           i == FP!ToInteger(op, x)
<1>1. m \in Nat \ {0} /\ q \in Int /\ x.neg \in BOOLEAN /\ ~FP!isinf(x) /\ ~FP!isinf(res)
  BY FloatFacts DEF FP!isinf
<1>2. y \in Floats /\ y.m = 0 /\ ~FP!isinf(y)
  BY <1>1, NegatedFacts
<1>3. FP!Sum(x, y) = x
  <2> HIDE DEF y
  <2>1. ~(x.m = 0 /\ y.m = 0)
    OBVIOUS
  <2> QED BY <1>1, <1>2, <2>1 DEF FP!Sum
<1>4. /\ D \in Nat \ {0} /\ i = 0
      /\ op # "nearest" /\ ~Up(op, x) => m < D
      /\ op # "nearest" /\ Up(op, x) => m <= 0
      /\ op = "nearest" => 2 * m <= D
  <2>1. /\ D \in Nat \ {0} /\ i \in Nat
        /\ op # "nearest" /\ ~Up(op, x) => i * D <= m /\ m < i * D + D
        /\ op # "nearest" /\ Up(op, x) => m <= i * D /\ i * D < m + D
        /\ op = "nearest" => 2 * (i * D) <= 2 * m + D /\ 2 * m <= 2 * (i * D) + D
    BY ToIntegerFacts DEF Up
  <2>2. i = 0
    OBVIOUS
  <2> HIDE DEF i, D, m
  <2>3. i * D = 0
    BY <2>1, <2>2
  <2> QED BY <1>1, <2>1, <2>2, <2>3
<1>5. ~Up(op, x) \/ op = "nearest"
  <2> HIDE DEF m
  <2> QED BY <1>1, <1>4
<1>6. m < D
  <2> HIDE DEF m, D
  <2> QED BY <1>1, <1>4, <1>5
<1>7. Units(x, x, m, q)
  <2> DEFINE minus == m < 0
  <2>1. minus \in BOOLEAN /\ ~minus /\ x.m = (IF m < 0 THEN -m ELSE m)
    <3> HIDE DEF m
    <3> QED BY <1>1 DEF m
  <2> HIDE DEF minus
  <2>2. x.neg = (minus # x.neg)
    BY <1>1, <2>1
  <2> QED BY <2>1, <2>2 DEF Units, minus
<1>8. Left(op, x, x)
  <2>1. m \in Int /\ -m < D /\ (op = "nearest" => 2 * (-m) <= D) /\ m >= 0
    <3> HIDE DEF m, D
    <3> QED BY <1>1, <1>4
  <2> HIDE DEF m, q
  <2> QED BY <1>1, <1>4, <1>5, <1>6, <1>7, <2>1, LeftInUnits DEF q
<1> HIDE DEF y
<1> QED BY <1>3, <1>8 DEF RoundedTo, y

(* One takes one bit.                                                      *)
LEMMA LengthOfOne == FP!bit_length(1) = 1
<1>1. 1 < 2^1 /\ 1 >= 2^(1 - 1)
  <2>1. 2^(0 + 1) = 2 * 2^0 /\ 2^0 = 1
    BY PowNext
  <2> QED BY <2>1
<1>2. Takes(1, 1)
  BY <1>1 DEF Takes
<1>3. FP!bit_length(1) \in Nat /\ Takes(1, FP!bit_length(1))
  BY LengthCounts
<1> QED BY <1>2, <1>3, TakesOne

(* An integer no larger than the format's hidden bit.                      *)
LEMMA IntegerFits ==
  ASSUME NEW fmt \in Formats, NEW x \in Floats, x.m # 0, x.q < 0, FP!bit_length(x.m) <= fmt.p,
         NEW op \in FP!Rounding
  PROVE  LET i == FP!ToInteger(op, x)
             D == 2^(-x.q)
         IN  i * D < x.m + D /\ FP!bit_length(i) <= fmt.p
<1> DEFINE m == x.m
           D == 2^(-x.q)
           i == FP!ToInteger(op, x)
           H == 2^(fmt.p - 1)
           G == 2^(-1 - x.q)
<1>1. m \in Nat \ {0} /\ x.q \in Int
  BY FloatFacts
<1>2. fmt.p \in Nat /\ fmt.p - 1 \in Nat /\ 2^fmt.p = 2 * H /\ H \in Nat \ {0}
  <2>1. fmt.p \in Nat /\ fmt.p > 1
    BY FormatFacts
  <2>2. fmt.p - 1 \in Nat /\ (fmt.p - 1) + 1 = fmt.p
    BY <2>1
  <2>3. 2^((fmt.p - 1) + 1) = 2 * 2^(fmt.p - 1)
    BY <2>2, PowNext
  <2>4. 2^fmt.p = 2 * H
    BY <2>2, <2>3
  <2> QED BY <2>1, <2>2, <2>4, PowIsNat
<1>3. m < 2 * H
  <2>1. FP!bit_length(m) \in Nat /\ m < 2^FP!bit_length(m)
    <3> HIDE DEF m
    <3> QED BY <1>1, LengthCounts DEF Takes
  <2> DEFINE l == FP!bit_length(m)
  <2>2. l \in Nat /\ l <= fmt.p /\ m < 2^l
    BY <2>1
  <2> HIDE DEF l, m
  <2>3. 2^l <= 2^fmt.p /\ 2^l \in Nat
    BY <1>2, <2>2, PowMonotone, PowIsNat
  <2> HIDE DEF H
  <2> QED BY <1>1, <1>2, <2>2, <2>3
<1>4. D = 2 * G /\ G \in Nat \ {0}
  <2>1. -1 - x.q \in Nat /\ (-1 - x.q) + 1 = -x.q
    BY <1>1
  <2>2. 2^((-1 - x.q) + 1) = 2 * 2^(-1 - x.q)
    BY <2>1, PowNext
  <2> QED BY <2>1, <2>2, PowIsNat
<1>5. i \in Nat /\ i * D < m + D
  <2> DEFINE up == (op = "ceil" /\ ~x.neg) \/ (op = "floor" /\ x.neg)
  <2>1. /\ D \in Nat \ {0} /\ i \in Nat
        /\ op # "nearest" /\ ~up => i * D <= m /\ m < i * D + D
        /\ op # "nearest" /\ up => m <= i * D /\ i * D < m + D
        /\ op = "nearest" => 2 * (i * D) <= 2 * m + D /\ 2 * m <= 2 * (i * D) + D
    BY ToIntegerFacts
  <2> HIDE DEF i, D, m, up
  <2>2. i * D \in Nat
    BY <2>1
  <2> QED BY <1>1, <2>1, <2>2
<1>6. i <= H
  <2> HIDE DEF i, D, G, H, m
  <2> SUFFICES ASSUME i > H PROVE FALSE
    BY <1>2, <1>5
  <2>1. i = H + 1 + (i - H - 1) /\ i - H - 1 \in Nat
    BY <1>2, <1>5
  <2> DEFINE j == i - H - 1
  <2>2. j \in Nat /\ i = (H + 1) + j
    BY <2>1
  <2> HIDE DEF j
  <2>3. i * D = H * D + D + j * D
    BY <1>2, <1>4, <2>2
  <2>4. H * D = 2 * H * G /\ 2 * H * G >= 2 * H
    BY <1>2, <1>4
  <2>5. j * D \in Nat /\ H * D \in Nat /\ D \in Nat
    BY <1>2, <1>4, <2>2
  <2> QED BY <1>1, <1>2, <1>3, <1>5, <2>3, <2>4, <2>5
<1>7. i < 2^fmt.p
  <2> HIDE DEF i, H
  <2> QED BY <1>2, <1>5, <1>6
<1>8. FP!bit_length(i) <= fmt.p
  <2> HIDE DEF i
  <2> QED BY <1>2, <1>5, <1>7, LengthBelow
<1> QED BY <1>5, <1>8

(* A number far below its integer was rounded up to one.                   *)
LEMMA RoundsUpToOne ==
  ASSUME NEW fmt \in Formats, NEW x \in Floats, x.kind = "num", x.m # 0, x.q < 0,
         FP!bit_length(x.m) <= fmt.p, NEW op \in FP!Rounding, NEW i, i = FP!ToInteger(op, x), i # 0,
         fmt.p + 2 <= -x.q
  PROVE  op # "nearest" /\ Up(op, x) /\ i = 1
<1> DEFINE m == x.m
           D == 2^(-x.q)
           l == FP!bit_length(m)
<1>1. m \in Nat \ {0} /\ x.q \in Int /\ fmt.p \in Nat
  BY FloatFacts, FormatFacts
<1>2. /\ D \in Nat \ {0} /\ i \in Nat
      /\ op # "nearest" /\ ~Up(op, x) => i * D <= m /\ m < i * D + D
      /\ op # "nearest" /\ Up(op, x) => m <= i * D /\ i * D < m + D
      /\ op = "nearest" => 2 * (i * D) <= 2 * m + D /\ 2 * m <= 2 * (i * D) + D
  BY ToIntegerFacts DEF Up
<1>3. 2 * m < D
  <2>1. l \in Nat /\ m < 2^l /\ l <= fmt.p
    <3> HIDE DEF m
    <3> QED BY <1>1, LengthCounts DEF Takes, m
  <2> HIDE DEF l, m
  <2>2. l + 1 \in Nat /\ -x.q \in Nat /\ l + 1 <= -x.q
    BY <1>1, <2>1
  <2>3. 2^(l + 1) = 2 * 2^l /\ 2^l \in Nat /\ 2^(l + 1) <= D
    BY <2>1, <2>2, PowNext, PowIsNat, PowMonotone
  <2> HIDE DEF D
  <2> QED BY <1>1, <1>2, <2>1, <2>3
<1> HIDE DEF m, D
<1>4. i * D >= D /\ i * D \in Nat
  <2>1. i = 1 + (i - 1) /\ i - 1 \in Nat
    BY <1>2
  <2>2. i * D = D + (i - 1) * D /\ (i - 1) * D \in Nat
    BY <1>2, <2>1
  <2> QED BY <1>2, <2>2
<1>5. op # "nearest" /\ Up(op, x)
  <2>1. op # "nearest"
    <3> SUFFICES ASSUME op = "nearest" PROVE FALSE
      OBVIOUS
    <3>1. 2 * (i * D) <= 2 * m + D
      BY <1>2
    <3> QED BY <1>1, <1>2, <1>3, <1>4, <3>1
  <2>2. Up(op, x)
    <3> SUFFICES ASSUME ~Up(op, x) PROVE FALSE
      OBVIOUS
    <3>1. i * D <= m
      BY <1>2, <2>1
    <3> QED BY <1>1, <1>2, <1>3, <1>4, <3>1
  <2> QED BY <2>1, <2>2
<1>6. i = 1
  <2> SUFFICES ASSUME i # 1 PROVE FALSE
    BY <1>5
  <2>1. i = 2 + (i - 2) /\ i - 2 \in Nat
    <3>1. i \in Nat
      BY <1>2
    <3>2. i > 1
      BY <3>1
    <3> QED BY <3>1, <3>2
  <2>2. i * D = 2 * D + (i - 2) * D /\ (i - 2) * D \in Nat
    BY <1>2, <2>1
  <2>3. i * D < m + D
    BY <1>2, <1>5
  <2> QED BY <1>1, <1>2, <1>3, <2>2, <2>3
<1> QED BY <1>5, <1>6

(* A number and its integer, in units of a lower place.                    *)
LEMMA Scaled ==
  ASSUME NEW m \in Nat, NEW D \in Nat \ {0}, NEW N \in Nat, NEW Z \in Nat \ {0}
  PROVE  LET v == m * Z - N * Z
         IN  /\ v \in Int /\ D * Z \in Nat
             /\ m < N + D => v < D * Z
             /\ N < m + D => -v < D * Z
             /\ m <= N => v <= 0
             /\ N <= m => v >= 0
             /\ 2 * m <= 2 * N + D => 2 * v <= D * Z
             /\ 2 * N <= 2 * m + D => 2 * (-v) <= D * Z
<1> DEFINE a == m * Z
           b == N * Z
           c == D * Z
<1>1. a \in Nat /\ b \in Nat /\ c \in Nat
  OBVIOUS
<1>2. \A i, j \in Int : (i < j => i * Z < j * Z) /\ (i <= j => i * Z <= j * Z)
  <2> SUFFICES ASSUME NEW i \in Int, NEW j \in Int
               PROVE  (i < j => i * Z < j * Z) /\ (i <= j => i * Z <= j * Z)
    OBVIOUS
  <2>1. j * Z = i * Z + (j - i) * Z
    OBVIOUS
  <2>2. (j - i > 0 => (j - i) * Z > 0) /\ (j - i >= 0 => (j - i) * Z >= 0)
    OBVIOUS
  <2> QED BY <2>1, <2>2
<1>3. /\ (N + D) * Z = b + c /\ (m + D) * Z = a + c
      /\ (2 * m) * Z = 2 * a /\ (2 * N) * Z = 2 * b
      /\ (2 * N + D) * Z = 2 * b + c /\ (2 * m + D) * Z = 2 * a + c
  OBVIOUS
<1>4. /\ m < N + D => a < b + c
      /\ N < m + D => b < a + c
      /\ m <= N => a <= b
      /\ N <= m => b <= a
      /\ 2 * m <= 2 * N + D => 2 * a <= 2 * b + c
      /\ 2 * N <= 2 * m + D => 2 * b <= 2 * a + c
  <2>1. /\ m \in Int /\ N \in Int /\ N + D \in Int /\ m + D \in Int /\ 2 * m \in Int /\ 2 * N \in Int
        /\ 2 * N + D \in Int /\ 2 * m + D \in Int
    OBVIOUS
  <2>2. m < N + D => a < b + c
    BY <1>2, <1>3, <2>1
  <2>3. N < m + D => b < a + c
    BY <1>2, <1>3, <2>1
  <2>4. (m <= N => a <= b) /\ (N <= m => b <= a)
    BY <1>2, <2>1
  <2>5. 2 * m <= 2 * N + D => 2 * a <= 2 * b + c
    BY <1>2, <1>3, <2>1
  <2>6. 2 * N <= 2 * m + D => 2 * b <= 2 * a + c
    BY <1>2, <1>3, <2>1
  <2> QED BY <2>2, <2>3, <2>4, <2>5, <2>6
<1> HIDE DEF a, b, c
<1>5. /\ a - b \in Int /\ c \in Nat
      /\ m < N + D => a - b < c
      /\ N < m + D => -(a - b) < c
      /\ m <= N => a - b <= 0
      /\ N <= m => a - b >= 0
      /\ 2 * m <= 2 * N + D => 2 * (a - b) <= c
      /\ 2 * N <= 2 * m + D => 2 * (-(a - b)) <= c
  BY <1>1, <1>4
<1> QED BY <1>5 DEF a, b, c

(* A number rounded to another integer than zero is left with less than a  *)
(* unit, on its side of it.                                                *)
LEMMA RoundsToPlace ==
  ASSUME NEW fmt \in Formats, NEW x \in Floats, x.kind = "num", x.m # 0, x.q < 0,
         FP!bit_length(x.m) <= fmt.p, NEW op \in FP!Rounding, NEW i \in Nat \ {0}, i = FP!ToInteger(op, x),
         NEW b \in Nat, b = FP!bit_length(i), b <= fmt.p,
         NEW res, res = FP!Num(x.neg, i * 2^(fmt.p - b), b - fmt.p)
  PROVE  RoundedTo(op, x, res)
<1> DEFINE m == x.m
           q == x.q
           p == fmt.p
           t == b - p
           k == i * 2^(p - b)
           y == [res EXCEPT !.neg = ~res.neg]
           s == IF q >= t THEN t ELSE q
           D == 2^(-q)
           sum == FP!Sum(x, y)
           E == 2^(-s)
<1>1. m \in Nat \ {0} /\ q \in Int /\ q < 0 /\ x.neg \in BOOLEAN /\ ~FP!isinf(x) /\ p \in Nat /\ p <= P2 /\ P2 \in Nat
  BY FloatFacts, FormatFacts, FormatBounds DEF FP!isinf
<1>2. p - b \in Nat /\ -t = p - b /\ t \in Int /\ t <= 0
  BY <1>1
<1>3. 2^(p - b) \in Nat \ {0} /\ k \in Nat \ {0}
  <2>1. 2^(p - b) \in Nat \ {0}
    BY <1>2, PowIsNat
  <2> QED BY <2>1
<1>4. res \in Floats /\ res.kind = "num" /\ res.neg = x.neg /\ res.m = k /\ res.q = t
  <2>1. res = FP!Num(x.neg, k, t)
    OBVIOUS
  <2> HIDE DEF k, t
  <2> QED BY <1>1, <1>2, <1>3, <2>1, Makes DEF FP!Num
<1>5. y \in Floats /\ y.neg = ~x.neg /\ y.m = k /\ y.q = t /\ ~FP!isinf(y)
  <2>1. ~FP!isinf(res)
    BY <1>4 DEF FP!isinf
  <2> HIDE DEF k, t
  <2> QED BY <1>4, <2>1, NegatedFacts
<1>6. /\ D \in Nat \ {0}
      /\ op # "nearest" /\ ~Up(op, x) => i * D <= m /\ m < i * D + D
      /\ op # "nearest" /\ Up(op, x) => m <= i * D /\ i * D < m + D
      /\ op = "nearest" => 2 * (i * D) <= 2 * m + D /\ 2 * m <= 2 * (i * D) + D
  BY ToIntegerFacts DEF Up
<1>7. k % 2^(-t) = 0
  <2> DEFINE P == 2^(p - b)
             z == 0
  <2>1. P \in Nat \ {0} /\ z \in 0..(P - 1) /\ k = P * i + z /\ k \in Int /\ i \in Int
    BY <1>3
  <2> HIDE DEF P, k, z
  <2>2. k % P = z
    BY <2>1, QuotientIs
  <2> QED BY <1>2, <2>2 DEF P, z
<1>8. s \in Int /\ s < 0 /\ s <= q /\ s <= t
  <2> HIDE DEF t, q
  <2> QED BY <1>1, <1>2
<1>9. CASE t - q <= FP!Far
  <2> DEFINE Z == 2^(q - s)
             v == m * 2^(q - s) - k * 2^(t - s)
             N == i * D
             w == m * Z - N * Z
  <2>1. q - s <= FP!Far /\ t - s <= FP!Far
    <3>1. FP!Far \in Nat /\ FP!Far >= P2
      BY <1>1, FarType DEF FP!Far
    <3> HIDE DEF t, q
    <3>2. t >= -p
      BY <1>1 DEF t
    <3> QED BY <1>1, <1>2, <1>9, <3>1, <3>2
  <2>2. v \in Int /\ Units(x, sum, v, s)
    <3>1. /\ s = (IF x.q >= y.q THEN y.q ELSE x.q) /\ x.q - s <= FP!Far /\ y.q - s <= FP!Far
          /\ y.m # 0 /\ x.m # 0 /\ y.neg = ~x.neg
      BY <1>1, <1>3, <1>5, <2>1
    <3> DEFINE v2 == x.m * 2^(x.q - s) - y.m * 2^(y.q - s)
    <3>2. v2 \in Int /\ Units(x, FP!Sum(x, y), v2, s)
      <4> HIDE DEF s, y
      <4> QED BY <1>1, <1>5, <3>1, Difference
    <3>3. v2 = v
      <4> HIDE DEF s, y, k, t
      <4> QED BY <1>5
    <3> HIDE DEF v, v2, y, s
    <3> QED BY <3>2, <3>3
  <2>3. q - s \in Nat /\ t - s \in Nat /\ -q \in Nat /\ -s = -q + (q - s) /\ -s = (p - b) + (t - s)
    <3> HIDE DEF s, q
    <3> QED BY <1>1, <1>2, <1>8
  <2>4. Z \in Nat \ {0} /\ E = D * Z /\ k * 2^(t - s) = N * Z
    <3>1. 2^(-q + (q - s)) = 2^(-q) * 2^(q - s) /\ 2^((p - b) + (t - s)) = 2^(p - b) * 2^(t - s)
      <4> HIDE DEF s, q, t, p
      <4> QED BY <1>2, <2>3, PowSum
    <3>2. E = D * Z /\ E = 2^(p - b) * 2^(t - s)
      <4>1. E = 2^(-q + (q - s)) /\ E = 2^((p - b) + (t - s))
        <5> HIDE DEF s, q, t, p
        <5> QED BY <2>3
      <4> QED BY <3>1, <4>1
    <3>3. Z \in Nat \ {0} /\ 2^(t - s) \in Nat
      <4> HIDE DEF s, q, t
      <4> QED BY <2>3, PowIsNat
    <3> DEFINE A == 2^(p - b)
               B == 2^(t - s)
    <3>4. A \in Nat /\ B \in Nat /\ E = D * Z /\ E = A * B /\ k = i * A
      BY <1>3, <3>2, <3>3
    <3> HIDE DEF A, B, D, Z, E, k, N
    <3>5. k * B = i * (A * B)
      BY <3>4
    <3>6. i * (D * Z) = N * Z
      BY <1>6, <3>3 DEF N
    <3>7. k * B = N * Z
      BY <3>4, <3>5, <3>6
    <3> QED BY <3>3, <3>4, <3>7 DEF B
  <2>5. v = w
    <3> HIDE DEF k, N, m, s, q, t
    <3> QED BY <2>4
  <2>6. N \in Nat
    <3> HIDE DEF D
    <3> QED BY <1>6
  <2>7. /\ w \in Int /\ D * Z \in Nat
        /\ m < N + D => w < D * Z
        /\ N < m + D => -w < D * Z
        /\ m <= N => w <= 0
        /\ N <= m => w >= 0
        /\ 2 * m <= 2 * N + D => 2 * w <= D * Z
        /\ 2 * N <= 2 * m + D => 2 * (-w) <= D * Z
    <3> HIDE DEF m, D, N, Z
    <3> QED BY <1>1, <1>6, <2>4, <2>6, Scaled
  <2>8. /\ op # "nearest" /\ ~Up(op, x) => N <= m /\ m < N + D /\ N < m + D
        /\ op # "nearest" /\ Up(op, x) => m <= N /\ N < m + D /\ m < N + D
        /\ op = "nearest" => 2 * N <= 2 * m + D /\ 2 * m <= 2 * N + D /\ N < m + D /\ m < N + D
    <3>1. /\ op # "nearest" /\ ~Up(op, x) => N <= m /\ m < N + D
          /\ op # "nearest" /\ Up(op, x) => m <= N /\ N < m + D
          /\ op = "nearest" => 2 * N <= 2 * m + D /\ 2 * m <= 2 * N + D
      BY <1>6
    <3> HIDE DEF m, D, N
    <3> QED BY <1>1, <1>6, <2>6, <3>1
  <2> HIDE DEF v, w, N, D, Z, m
  <2>9. /\ w < E /\ -w < E
        /\ op # "nearest" => (Up(op, x) => w <= 0) /\ (~Up(op, x) => w >= 0)
        /\ op = "nearest" => 2 * w <= E /\ 2 * (-w) <= E
    <3>1. E = D * Z
      BY <2>4
    <3> HIDE DEF E
    <3> QED BY <2>7, <2>8, <3>1
  <2>10. Left(op, x, sum)
    <3>1. Units(x, sum, w, s) /\ w \in Int
      BY <2>2, <2>5
    <3> HIDE DEF s, sum
    <3> QED BY <1>8, <2>9, <3>1, LeftInUnits DEF E
  <2> HIDE DEF y
  <2> QED BY <1>4, <1>7, <2>10 DEF RoundedTo, y
<1>10. CASE ~(t - q <= FP!Far)
  <2> DEFINE K == FP!Far \div 2 + 2
             j == K + (p - 1)
             e == t - K
             x0 == [x EXCEPT !.m = 1]
             v == 1 - k * 2^K
  <2>1. K \in Nat /\ FP!Far \in Nat
    BY FarType
  <2>2. fmt.p + 2 <= -x.q
    <3>1. FP!Far = 2 * P2 + 4
      BY DEF FP!Far
    <3> HIDE DEF t, q
    <3> QED BY <1>1, <1>2, <1>10, <3>1 DEF q
  <2>3. op # "nearest" /\ Up(op, x) /\ i = 1
    BY <2>2, RoundsUpToOne
  <2>4. b = 1 /\ t = 1 - p /\ k = 2^(p - 1) /\ p - 1 \in Nat
    <3>1. b = 1
      BY <2>3, LengthOfOne
    <3>2. k = 1 * 2^(p - 1) /\ p - 1 \in Nat
      BY <1>2, <2>3, <3>1
    <3>3. 2^(p - 1) \in Nat
      BY <3>2, PowIsNat
    <3> QED BY <3>1, <3>2, <3>3
  <2>5. -e = j /\ j \in Nat /\ e \in Int /\ e < 0
    <3>1. K > 0
      BY FarType
    <3> HIDE DEF K, t
    <3> QED BY <1>1, <2>1, <2>4, <3>1
  <2>6. sum = FP!SignedSum(y, x0, K)
    <3>1. ~(x.q >= y.q) /\ ~(y.q - x.q <= FP!Far)
      <4> HIDE DEF y, t
      <4> QED BY <1>1, <1>2, <1>5, <1>10, <2>1
    <3>2. y.m # 0
      BY <1>3, <1>5
    <3>3. sum = LET big == IF x.q >= y.q THEN x ELSE y
                    small == IF x.q >= y.q THEN y ELSE x
                IN  IF big.q - small.q <= FP!Far THEN FP!SignedSum(big, small, big.q - small.q)
                    ELSE FP!SignedSum(big, [small EXCEPT !.m = 1], FP!Far \div 2 + 2)
      <4> HIDE DEF y
      <4> QED BY <1>1, <1>5, <3>2 DEF FP!Sum
    <3> HIDE DEF y
    <3> QED BY <3>1, <3>3
  <2>7. x0 \in Floats /\ x0.neg = x.neg /\ x0.m = 1
    BY DEF Floats
  <2>8. v \in Int /\ Units(x, sum, v, e)
    <3> DEFINE w == y.m * 2^K - x0.m
    <3>1. w \in Int /\ Units(x0, FP!SignedSum(y, x0, K), -w, y.q - K)
      <4> HIDE DEF y, x0, K
      <4>1. x0.neg = ~y.neg
        BY <1>1, <1>5, <2>7
      <4> QED BY <1>5, <2>1, <2>7, <4>1, SignedSumUnits
    <3>2. -w = v /\ y.q - K = e
      <4>1. 2^K \in Nat
        BY <2>1, PowIsNat
      <4> DEFINE P == 2^K
      <4>2. P \in Nat /\ w = k * P - 1 /\ v = 1 - k * P /\ y.q - K = e
        BY <1>5, <2>7, <4>1
      <4> HIDE DEF P, w, v, e
      <4> QED BY <1>3, <4>2
    <3> HIDE DEF w, v, e, sum, y, x0, K
    <3>3. Units(x0, sum, v, e) /\ v \in Int
      BY <2>6, <3>1, <3>2
    <3> QED BY <2>7, <3>3 DEF Units
  <2>9. 2^(-e) = k * 2^K /\ k * 2^K \in Nat \ {0}
    <3>1. 2^(K + (p - 1)) = 2^K * 2^(p - 1) /\ 2^K \in Nat \ {0} /\ 2^(p - 1) \in Nat \ {0}
      <4> HIDE DEF K
      <4> QED BY <2>1, <2>4, PowSum, PowIsNat
    <3>2. 2^(-e) = 2^(K + (p - 1))
      BY <2>5
    <3> DEFINE A == 2^K
               B == 2^(p - 1)
    <3>3. A \in Nat \ {0} /\ B \in Nat \ {0} /\ 2^(-e) = A * B /\ k = B
      BY <2>4, <3>1, <3>2
    <3> HIDE DEF A, B, k, e
    <3>4. 2^(-e) = k * A /\ k * A \in Nat \ {0}
      BY <3>3
    <3> QED BY <3>4 DEF A
  <2>10. Left(op, x, sum)
    <3> DEFINE G == k * 2^K
    <3>1. v = 1 - G /\ 2^(-e) = G /\ G \in Nat \ {0}
      BY <2>9
    <3> HIDE DEF G, v, e
    <3>2. v < 2^(-e) /\ -v < 2^(-e) /\ v <= 0
      BY <2>8, <3>1
    <3> HIDE DEF sum
    <3> QED BY <2>3, <2>5, <2>8, <3>2, LeftInUnits
  <2> HIDE DEF y
  <2> QED BY <1>4, <1>7, <2>10 DEF RoundedTo, y
<1> QED BY <1>9, <1>10

(* A number of a format has no more bits than its significand, and is      *)
(* below the format's largest power.                                       *)
LEMMA NumberFits ==
  ASSUME NEW fmt \in Formats, NEW u \in FP!Patterns(fmt), NEW x, x = FP!b2f(fmt, u), x.kind = "num"
  PROVE  /\ x \in Floats /\ x = FP!Num(x.neg, x.m, x.q)
         /\ FP!bit_length(x.m) \in Nat /\ FP!bit_length(x.m) <= fmt.p
         /\ x.q >= 0 => FP!bit_length(x.m) = fmt.p /\ fmt.p + x.q <= 2^(fmt.e - 1)
<1> DEFINE a == FP!Abs(fmt, u)
           m == Significand(fmt, a)
           q == LastPlace(fmt, a)
           X == Exponent(fmt, a)
           R == 2^fmt.e
           B == 2^(fmt.e - 1)
           minus == u >= FP!SIGN(fmt)
<1>1. x \in Floats /\ (FP!isinf(x) <=> a = FP!EXP(fmt)) /\ (FP!isnan(x) <=> a > FP!EXP(fmt))
  BY UnpackedType DEF FP!is_nan
<1>2. a \in 0..(FP!SIGN(fmt) - 1) /\ a \in Nat
  BY PatternFacts
<1>3. /\ FP!EXP(fmt) \in Nat /\ R = 2 * B /\ B \in Nat \ {0} /\ B > 6 /\ fmt.p \in Nat /\ fmt.p > 1 /\ R \in Nat
  <2>1. FP!EXP(fmt) \in Nat /\ B \in Nat \ {0} /\ fmt.p \in Nat /\ fmt.p > 1 /\ fmt.e \in Nat \ {0} /\ R \in Nat
    BY FormatFacts
  <2>2. fmt.e - 1 \in Nat /\ (fmt.e - 1) + 1 = fmt.e
    BY <2>1
  <2>3. 2^((fmt.e - 1) + 1) = 2 * 2^(fmt.e - 1)
    BY <2>2, PowNext
  <2>4. B > 6
    <3>1. W64 > 6 /\ W64 < B /\ W64 \in Nat
      BY FormatBounds
    <3> HIDE DEF B
    <3> QED BY <2>1, <3>1
  <2> QED BY <2>1, <2>2, <2>3, <2>4
<1>4. a < FP!EXP(fmt)
  <2>1. ~FP!isnan(x) /\ ~FP!isinf(x)
    BY DEF FP!isnan, FP!isinf
  <2> HIDE DEF a
  <2> QED BY <1>1, <1>2, <1>3, <2>1
<1>5. x = FP!Num(minus, m, q)
  BY <1>4, Unpacked
<1>6. x.neg = minus /\ x.m = m /\ x.q = q
  BY <1>5 DEF FP!Num
<1>7. x = FP!Num(x.neg, x.m, x.q)
  <2> HIDE DEF minus, m, q
  <2> QED BY <1>5, <1>6
<1>8. X \in 0..(R - 1) /\ X # R - 1
  <2>1. X \in 0..(R - 1) /\ (X = R - 1) = (a >= FP!EXP(fmt))
    BY <1>2, FieldFacts
  <2>2. ~(a >= FP!EXP(fmt))
    <3> HIDE DEF a
    <3> QED BY <1>2, <1>3, <1>4
  <2> QED BY <2>1, <2>2
<1>9. /\ FP!bit_length(m) \in Nat
      /\ X # 0 => FP!bit_length(m) = fmt.p
      /\ X = 0 => FP!bit_length(m) <= fmt.p - 1
  BY <1>2, SignificandLength
<1>10. q = (IF X = 0 THEN 1 ELSE X) + 1 - (B - 1) - fmt.p
  BY DEF LastPlace
<1> HIDE DEF X, R, B, m, q, minus
<1>11. FP!bit_length(m) <= fmt.p
  BY <1>3, <1>9
<1>12. q >= 0 => X # 0
  BY <1>3, <1>10
<1>13. q >= 0 => fmt.p + q <= B
  BY <1>3, <1>8, <1>10, <1>12
<1> QED BY <1>1, <1>6, <1>7, <1>9, <1>11, <1>12, <1>13 DEF B

(* So a rounding gives an integer of this format.                          *)
LEMMA RoundsInFormat ==
  ASSUME NEW fmt \in Formats, NEW u \in FP!Patterns(fmt), NEW op \in FP!Rounding,
         NEW x, x = FP!b2f(fmt, u), x.kind = "num"
  PROVE  RoundedTo(op, x, FP!b2f(fmt, FP!round(fmt, op, u)))
<1> DEFINE res == FP!b2f(fmt, FP!round(fmt, op, u))
           y == FP!_round_int(op, x)
           l == FP!bit_length(x.m)
<1>1. /\ x \in Floats /\ x = FP!Num(x.neg, x.m, x.q)
      /\ l \in Nat /\ l <= fmt.p
      /\ x.q >= 0 => l = fmt.p /\ fmt.p + x.q <= 2^(fmt.e - 1)
  BY NumberFits
<1>2. /\ x.m \in Nat /\ x.q \in Int /\ x.neg \in BOOLEAN /\ ~FP!isnan(x) /\ ~FP!isinf(x)
      /\ (FP!iszero(x) <=> x.m = 0) /\ fmt.p \in Nat
  BY <1>1, FloatFacts, FormatFacts DEF FP!isnan, FP!isinf
<1>3. FP!round(fmt, op, u) = IF FP!iszero(x) THEN u ELSE FP!f2b(fmt, FP!PyFloat(y))
  BY <1>2 DEF FP!round
<1>4. CASE x.m = 0
  <2>1. res = x
    BY <1>2, <1>3, <1>4
  <2> QED BY <1>1, <1>4, <2>1, RoundsToItself
<1>5. CASE x.m # 0 /\ x.q >= 0
  <2>1. res = FP!b2f(fmt, FP!f2b(fmt, FP!PyFloat(x)))
    BY <1>2, <1>3, <1>5 DEF FP!_round_int
  <2>2. l + x.q >= 0 /\ l + x.q <= 2^(fmt.e - 1)
    <3> HIDE DEF l
    <3>1. l = fmt.p /\ fmt.p + x.q <= 2^(fmt.e - 1)
      BY <1>1, <1>5
    <3> QED BY <1>2, <1>5, <3>1
  <2>3. res = FP!Num(x.neg, x.m * 2^(fmt.p - l), (l + x.q) - fmt.p)
    <3>1. l = FP!bit_length(x.m)
      OBVIOUS
    <3> HIDE DEF l
    <3> QED BY <1>1, <1>2, <1>5, <2>1, <2>2, <3>1, RoundTrip
  <2>4. x.m * 2^(fmt.p - l) = x.m /\ (l + x.q) - fmt.p = x.q
    <3> HIDE DEF l
    <3>1. l = fmt.p
      BY <1>1, <1>5
    <3>2. fmt.p - l = 0 /\ (l + x.q) - fmt.p = x.q
      BY <1>2, <3>1
    <3>3. 2^0 = 1 /\ x.m * 1 = x.m
      BY <1>2
    <3> QED BY <3>2, <3>3
  <2>5. res = x
    BY <1>1, <2>3, <2>4
  <2> QED BY <1>1, <1>5, <2>5, RoundsToItself
<1>6. CASE x.m # 0 /\ x.q < 0
  <2> DEFINE i == FP!ToInteger(op, x)
             b == FP!bit_length(i)
  <2>1. y = FP!Num(x.neg, i, 0)
    <3>1. ~(x.q >= 0)
      BY <1>2, <1>6
    <3> QED BY <3>1 DEF FP!_round_int
  <2>2. res = FP!b2f(fmt, FP!f2b(fmt, FP!PyFloat(y)))
    BY <1>2, <1>3, <1>6
  <2>3. i \in Nat /\ b \in Nat /\ b <= fmt.p
    <3>1. i \in Nat
      BY <1>1, <1>6, ToIntegerType
    <3>2. b \in Nat
      <4> HIDE DEF i
      <4> QED BY <3>1, LengthCounts
    <3>3. b <= fmt.p
      BY <1>1, <1>6, IntegerFits
    <3> QED BY <3>1, <3>2, <3>3
  <2>4. y \in Floats /\ y.kind = "num" /\ y.neg = x.neg /\ y.m = i /\ y.q = 0
        /\ ~FP!isnan(y) /\ ~FP!isinf(y)
    <3> HIDE DEF i, y
    <3> QED BY <1>2, <2>1, <2>3, Makes DEF FP!Num
  <2>5. CASE i = 0
    <3>1. FP!PyFloat(y) \in Floats /\ FP!PyFloat(y).kind = "num" /\ FP!PyFloat(y).m = 0 /\ FP!PyFloat(y).neg = x.neg
      <4>1. FP!F64 \in Formats
        BY DEF Formats
      <4> HIDE DEF i, y
      <4> QED BY <2>4, <2>5, <4>1, ZeroTrip DEF FP!PyFloat
    <3>2. res \in Floats /\ res.kind = "num" /\ res.m = 0 /\ res.neg = x.neg
      <4> HIDE DEF i, y, res
      <4> QED BY <2>2, <3>1, ZeroTrip
    <3>3. x \in Floats /\ x.m # 0 /\ x.q < 0 /\ FP!ToInteger(op, x) = 0
      BY <1>1, <1>6, <2>5
    <3> HIDE DEF res
    <3>4. RoundedTo(op, x, res)
      BY <3>2, <3>3, RoundsToZero
    <3> QED BY <3>4 DEF res
  <2>6. CASE i # 0
    <3>1. b + 0 >= 0 /\ b + 0 <= 2^(fmt.e - 1)
      <4>1. fmt.p < 2^(fmt.e - 1) /\ 2^(fmt.e - 1) \in Nat
        BY FormatBounds, FormatFacts
      <4> HIDE DEF b
      <4> QED BY <1>2, <2>3, <4>1
    <3>2. res = FP!Num(x.neg, i * 2^(fmt.p - b), (b + 0) - fmt.p)
      <4>1. b = FP!bit_length(y.m)
        BY <2>4
      <4> HIDE DEF b, i, y, res
      <4>2. FP!b2f(fmt, FP!f2b(fmt, FP!PyFloat(y))) = FP!Num(y.neg, y.m * 2^(fmt.p - b), (b + y.q) - fmt.p)
        BY <2>3, <2>4, <2>6, <3>1, <4>1, RoundTrip
      <4> QED BY <2>2, <2>4, <4>2
    <3>3. (b + 0) - fmt.p = b - fmt.p
      <4> HIDE DEF b
      <4> QED BY <1>2, <2>3
    <3>4. i = FP!ToInteger(op, x) /\ b = FP!bit_length(i)
      OBVIOUS
    <3>5. res = FP!Num(x.neg, i * 2^(fmt.p - b), b - fmt.p)
      BY <3>2, <3>3
    <3>6. x \in Floats /\ x.m # 0 /\ x.q < 0 /\ FP!bit_length(x.m) <= fmt.p
          /\ i \in Nat \ {0} /\ b \in Nat /\ b <= fmt.p
      BY <1>1, <1>6, <2>3, <2>6
    <3> HIDE DEF b, i, res
    <3>7. RoundedTo(op, x, res)
      BY <3>4, <3>5, <3>6, RoundsToPlace
    <3> QED BY <3>7 DEF res
  <2> QED BY <2>5, <2>6
<1> QED BY <1>2, <1>4, <1>5, <1>6

(* An instruction that has run did so.                                     *)
LEMMA RoundingsRound ==
  ASSUME NEW ins, NEW stack, Ran(ins, stack)
  PROVE  FP!RoundsToIntegers
<1> SUFFICES ASSUME FP!Is(FP!Rounding), FP!x1.kind = "num" PROVE FP!RoundsToIntegers
  BY DEF FP!RoundsToIntegers
<1>1. finput.ins = ins
  BY DEF Ran
<1>2. ins.op \in FP!Rounding
  BY <1>1 DEF FP!Is
<1>3. /\ FP!F \in Formats /\ stack[1] \in FP!Patterns(FP!F) /\ FP!x1 = FP!b2f(FP!F, stack[1])
      /\ fanswer = FP!Value(FP!round(FP!F, ins.op, stack[1]))
  <2>1. ins.op \in OneFloat
    BY <1>2 DEF OneFloat
  <2> QED BY <1>2, <2>1, OneFloatRan
<1>4. FP!Result = FP!b2f(FP!F, FP!round(FP!F, ins.op, stack[1]))
  BY <1>3, ValueFacts DEF FP!Result, FP!r
<1>5. RoundedTo(ins.op, FP!x1, FP!Result)
  BY <1>2, <1>3, <1>4, RoundsInFormat
<1> QED BY <1>1, <1>5 DEF FP!RoundsToIntegers, RoundedTo, Left

(* Nothing executed, or one instruction that has run.                      *)
LEMMA ExecutedIsInteger == FloatExecuted => FP!ToIntegers
<1> SUFFICES ASSUME FloatExecuted PROVE FP!ToIntegers
  OBVIOUS
<1>1. PICK ins \in FP!AllInstrs : \E stack \in FP!OperandsOf(ins) :
        /\ finput = [ins |-> ins, stack |-> stack]
        /\ fanswer \in {FP!FTrap("not yet"), FP!_exec_instr(ins, stack)}
  BY DEF FloatExecuted
<1>2. PICK stack \in FP!OperandsOf(ins) :
        /\ finput = [ins |-> ins, stack |-> stack]
        /\ fanswer \in {FP!FTrap("not yet"), FP!_exec_instr(ins, stack)}
  BY <1>1
<1>3. CASE fanswer = FP!FTrap("not yet")
  <2>1. ~FP!Done
    BY <1>3 DEF FP!Done
  <2>2. FP!RoundsToIntegers
    BY <2>1 DEF FP!RoundsToIntegers, FP!Is
  <2>3. FP!TruncatesOrTraps
    BY <2>1 DEF FP!TruncatesOrTraps, FP!Is
  <2> QED BY <2>2, <2>3 DEF FP!ToIntegers
<1>4. CASE fanswer # FP!FTrap("not yet")
  <2>1. Ran(ins, stack)
    BY <1>2, <1>4 DEF Ran
  <2> QED BY <2>1, RoundingsRound, TruncationsFit DEF FP!ToIntegers
<1> QED BY <1>3, <1>4

(* Whatever the formats and the operands: ceil, floor, trunc and nearest   *)
(* give an integer of the format that is less than one from the argument   *)
(* and on its side, with the sign of the argument; and a truncation to an  *)
(* integer type gives the integer part where the type has it, and the end  *)
(* of the range or a trap where it does not.                               *)
THEOREM FloatsReachIntegers == FP!Spec => []ToIntegers
<1>1. FloatExecuted => ToIntegers
  BY ExecutedIsInteger DEF ToIntegers
<1> QED BY <1>1, FloatsExecute, PTL

----------------------------------------------------------------------------
(* Every result is rounded once.  A middle between two neighbours of the   *)
(* narrow format is a pattern of the wide one, so rounding to the wide     *)
(* format keeps a number on its side of it unless it lands on it.  What    *)
(* the operations give does not, without having been there: it is a middle *)
(* or farther from it than half a last place of the wide format.           *)

(* A number brought down to a place.                                       *)
AtPlace(m, q, z) == m * 2^(q - z)

(* Scaling two numbers keeps their order.                                  *)
LEMMA ScalesOrder ==
  ASSUME NEW a \in Nat, NEW b \in Nat, NEW P \in Nat \ {0}
  PROVE  /\ a * P \in Nat
         /\ a < b <=> a * P < b * P
         /\ a = b <=> a * P = b * P
<1>1. ASSUME a < b PROVE a * P < b * P
  <2>1. PICK c \in Nat \ {0} : b = a + c
    <3>1. b - a \in Nat \ {0} /\ b = a + (b - a)
      BY <1>1
    <3> QED BY <3>1
  <2>2. b * P = a * P + c * P /\ c * P >= 1
    BY <2>1
  <2>3. a * P \in Nat
    OBVIOUS
  <2> QED BY <2>2, <2>3
<1>2. ASSUME b < a PROVE b * P < a * P
  <2>1. PICK c \in Nat \ {0} : a = b + c
    <3>1. a - b \in Nat \ {0} /\ a = b + (a - b)
      BY <1>2
    <3> QED BY <3>1
  <2>2. a * P = b * P + c * P /\ c * P >= 1
    BY <2>1
  <2>3. b * P \in Nat
    OBVIOUS
  <2> QED BY <2>2, <2>3
<1>3. a * P \in Nat /\ b * P \in Nat
  OBVIOUS
<1>4. a < b \/ a = b \/ b < a
  OBVIOUS
<1> DEFINE aP == a * P
           bP == b * P
<1>5. aP \in Nat /\ bP \in Nat /\ (a < b => aP < bP) /\ (b < a => bP < aP) /\ (a = b => aP = bP)
  BY <1>1, <1>2, <1>3
<1> HIDE DEF aP, bP
<1>6. (a < b <=> aP < bP) /\ (a = b <=> aP = bP)
  BY <1>4, <1>5
<1> QED BY <1>3, <1>6 DEF aP, bP

(* Bringing a number further down.                                         *)
LEMMA AtLower ==
  ASSUME NEW m \in Nat, NEW q \in Int, NEW z \in Int, NEW w \in Int, w <= z, z <= q
  PROVE  /\ AtPlace(m, q, z) \in Nat /\ 2^(z - w) \in Nat \ {0}
         /\ AtPlace(m, q, w) = AtPlace(m, q, z) * 2^(z - w)
<1>1. q - z \in Nat /\ z - w \in Nat /\ q - w = (q - z) + (z - w)
  OBVIOUS
<1>2. 2^(q - z) \in Nat \ {0} /\ 2^(z - w) \in Nat \ {0} /\ 2^(q - w) = 2^(q - z) * 2^(z - w)
  BY <1>1, PowIsNat, PowSum
<1>3. \A a, b \in Nat : m * (a * b) = (m * a) * b /\ m * a \in Nat
  OBVIOUS
<1> QED BY <1>2, <1>3 DEF AtPlace

(* Cmp is the order at any place both can be brought to.                   *)
LEMMA CmpAt ==
  ASSUME NEW m \in Nat, NEW q \in Int, NEW n \in Nat, NEW s \in Int, NEW z \in Int, z <= q, z <= s
  PROVE  /\ AtPlace(m, q, z) \in Nat /\ AtPlace(n, s, z) \in Nat
         /\ AtPlace(m, q, z) < AtPlace(n, s, z) => FP!Cmp(m, q, n, s) = -1
         /\ AtPlace(m, q, z) = AtPlace(n, s, z) => FP!Cmp(m, q, n, s) = 0
         /\ AtPlace(m, q, z) > AtPlace(n, s, z) => FP!Cmp(m, q, n, s) = 1
<1> DEFINE X == AtPlace(m, q, z)
           Y == AtPlace(n, s, z)
<1>1. CASE s <= q
  <2> DEFINE M == AtPlace(m, q, s)
             P == 2^(s - z)
  <2>1. M \in Nat /\ P \in Nat \ {0} /\ X = M * P
    BY <1>1, AtLower
  <2>2. Y = n * P
    BY DEF AtPlace
  <2>3. M = m * 2^(q - s) /\ q - s \in Nat /\ q = s + (q - s)
    BY <1>1 DEF AtPlace
  <2>4. /\ M < n => FP!Cmp(m, q, n, s) = -1
        /\ M = n => FP!Cmp(m, q, n, s) = 0
        /\ M > n => FP!Cmp(m, q, n, s) = 1
    <3> DEFINE k == q - s
    <3>1. k \in Nat /\ q = s + k /\ M = m * 2^k
      BY <2>3
    <3> HIDE DEF k, M
    <3> QED BY <3>1, CmpExact
  <2>5. M * P \in Nat /\ n * P \in Nat /\ (M < n <=> M * P < n * P) /\ (M = n <=> M * P = n * P)
    BY <2>1, ScalesOrder
  <2> DEFINE c == FP!Cmp(m, q, n, s)
             MP == M * P
             nP == n * P
  <2> HIDE DEF M, P, X, Y
  <2>6. MP \in Nat /\ nP \in Nat /\ (M < n <=> MP < nP) /\ (M = n <=> MP = nP) /\ X = MP /\ Y = nP
    BY <2>1, <2>2, <2>5
  <2>7. (M < n => c = -1) /\ (M = n => c = 0) /\ (M > n => c = 1)
    BY <2>4
  <2> HIDE DEF c, MP, nP
  <2>8. X \in Nat /\ Y \in Nat /\ (X < Y => c = -1) /\ (X = Y => c = 0) /\ (X > Y => c = 1)
    BY <2>1, <2>6, <2>7
  <2> QED BY <2>8 DEF c, X, Y
<1>2. CASE q <= s
  <2> DEFINE N == AtPlace(n, s, q)
             P == 2^(q - z)
  <2>1. N \in Nat /\ P \in Nat \ {0} /\ Y = N * P
    BY <1>2, AtLower
  <2>2. X = m * P
    BY DEF AtPlace
  <2>3. N = n * 2^(s - q) /\ s - q \in Nat /\ s = q + (s - q)
    BY <1>2 DEF AtPlace
  <2>4. /\ N < m => FP!Cmp(m, q, n, s) = 1
        /\ N = m => FP!Cmp(m, q, n, s) = 0
        /\ N > m => FP!Cmp(m, q, n, s) = -1
    <3> DEFINE k == s - q
    <3>1. k \in Nat /\ s = q + k /\ N = n * 2^k
      BY <2>3
    <3> HIDE DEF k, N
    <3> QED BY <3>1, CmpExact
  <2>5. N * P \in Nat /\ m * P \in Nat /\ (m < N <=> m * P < N * P) /\ (N = m <=> N * P = m * P)
    BY <2>1, ScalesOrder
  <2> DEFINE c == FP!Cmp(m, q, n, s)
             NP == N * P
             mP == m * P
  <2> HIDE DEF N, P, X, Y
  <2>6. NP \in Nat /\ mP \in Nat /\ (m < N <=> mP < NP) /\ (N = m <=> mP = NP) /\ Y = NP /\ X = mP
    BY <2>1, <2>2, <2>5
  <2>7. (N < m => c = 1) /\ (N = m => c = 0) /\ (N > m => c = -1)
    BY <2>4
  <2> HIDE DEF c, NP, mP
  <2>8. X \in Nat /\ Y \in Nat /\ (X < Y => c = -1) /\ (X = Y => c = 0) /\ (X > Y => c = 1)
    BY <2>1, <2>6, <2>7
  <2> QED BY <2>8 DEF c, X, Y
<1> QED BY <1>1, <1>2

(* m / 2^n rounded: no further off than the neighbours, and even where     *)
(* that is as far.                                                         *)
LEMMA HalfEvenNearest ==
  ASSUME NEW m \in Nat, NEW n \in Nat, NEW k, k = FP!HalfEven(m, n), NEW D, D = 2^n
  PROVE  /\ k \in Nat /\ D \in Nat \ {0}
         /\ 2 * (k * D) <= 2 * m + D /\ 2 * m <= 2 * (k * D) + D
         /\ 2 * (k * D) = 2 * m + D \/ 2 * m = 2 * (k * D) + D => k % 2 = 0
<1>1. D \in Nat \ {0} /\ k \in Nat
  BY PowIsNat, HalfEvenType
<1>2. CASE n > FP!bit_length(m) + 1
  <2>1. k = 0
    BY <1>2 DEF FP!HalfEven
  <2>2. FP!bit_length(m) \in Nat /\ m < 2^FP!bit_length(m)
    BY LengthCounts DEF Takes
  <2>3. 2^(FP!bit_length(m) + 1) = 2 * 2^FP!bit_length(m) /\ 2^(FP!bit_length(m) + 1) <= D
    BY <1>2, <2>2, PowNext, PowMonotone
  <2>4. 2 * m < D
    <3> DEFINE a == 2^FP!bit_length(m)
               b == 2^(FP!bit_length(m) + 1)
    <3>1. a \in Nat /\ m < a /\ b = 2 * a /\ b <= D
      BY <2>2, <2>3, PowIsNat
    <3> HIDE DEF a, b
    <3> QED BY <1>1, <3>1
  <2>5. k * D = 0
    BY <2>1, <1>1
  <2> QED BY <1>1, <2>1, <2>4, <2>5
<1>3. CASE ~(n > FP!bit_length(m) + 1)
  <2> DEFINE keep == m \div D
             rest == m % D
             up == 2 * rest > D \/ (2 * rest = D /\ keep % 2 = 1)
  <2>1. keep \in Int /\ rest \in 0..(D - 1) /\ m = D * keep + rest
    <3>1. m \in Int
      OBVIOUS
    <3>2. /\ m \div D \in Int /\ m % D \in 0..(D - 1)
          /\ m = (D * (m \div D)) + (m % D)
      BY <1>1, <3>1, DivMod
    <3> QED BY <3>2
  <2>2. keep \in Nat
    BY <1>1, QuotientType
  <2>3. k = IF up THEN keep + 1 ELSE keep
    BY <1>3 DEF FP!HalfEven
  <2>4. keep % 2 \in {0, 1} /\ (keep % 2 = 1 => (keep + 1) % 2 = 0)
    BY <2>2
  <2> DEFINE kD == D * keep
  <2>5. kD \in Nat /\ keep * D = kD /\ (keep + 1) * D = kD + D
    BY <1>1, <2>2
  <2>6. up \in BOOLEAN /\ (up <=> 2 * rest > D \/ (2 * rest = D /\ keep % 2 = 1))
    OBVIOUS
  <2>7. m = kD + rest
    BY <2>1
  <2> HIDE DEF keep, rest, up, kD
  <2>8. CASE up
    <3>1. k = keep + 1 /\ k * D = kD + D
      BY <2>3, <2>5, <2>8
    <3>2. 2 * (k * D) <= 2 * m + D /\ 2 * m <= 2 * (k * D) + D
      BY <1>1, <2>1, <2>5, <2>6, <2>7, <2>8, <3>1
    <3>3. 2 * (k * D) = 2 * m + D => k % 2 = 0
      <4> SUFFICES ASSUME 2 * (k * D) = 2 * m + D PROVE k % 2 = 0
        OBVIOUS
      <4>1. 2 * rest = D
        BY <1>1, <2>1, <2>5, <2>7, <3>1
      <4> QED BY <2>4, <2>6, <2>8, <3>1, <4>1
    <3>4. 2 * m # 2 * (k * D) + D
      BY <1>1, <2>1, <2>5, <2>7, <3>1
    <3> QED BY <1>1, <3>2, <3>3, <3>4
  <2>9. CASE ~up
    <3>1. k = keep /\ k * D = kD
      BY <2>3, <2>5, <2>9
    <3>2. 2 * rest <= D
      BY <1>1, <2>1, <2>6, <2>9
    <3>3. 2 * (k * D) <= 2 * m + D /\ 2 * m <= 2 * (k * D) + D
      BY <1>1, <2>1, <2>5, <2>7, <3>1, <3>2
    <3>4. 2 * m = 2 * (k * D) + D => k % 2 = 0
      <4> SUFFICES ASSUME 2 * m = 2 * (k * D) + D PROVE k % 2 = 0
        OBVIOUS
      <4>1. 2 * rest = D
        BY <1>1, <2>1, <2>5, <2>7, <3>1
      <4> QED BY <2>4, <2>6, <2>9, <3>1, <4>1
    <3>5. 2 * (k * D) # 2 * m + D
      BY <1>1, <2>1, <2>5, <2>7, <3>1
    <3> QED BY <1>1, <3>3, <3>4, <3>5
  <2> QED BY <2>6, <2>8, <2>9
<1> QED BY <1>2, <1>3

(* A pattern's magnitude, at a place.                                      *)
Grid(fmt, a, z) == AtPlace(Significand(fmt, a), LastPlace(fmt, a), z)

(* The sizes that places are counted in.                                   *)
LEMMA FormatPlaces ==
  ASSUME NEW fmt \in Formats
  PROVE  /\ Hidden(fmt) \in Nat \ {0} /\ 2^fmt.p = 2 * Hidden(fmt) /\ Hidden(fmt) % 2 = 0
         /\ Lowest(fmt) \in Int /\ fmt.p \in Nat /\ fmt.p > 1 /\ 2^(fmt.e - 1) \in Nat
<1>1. fmt.p \in Nat /\ fmt.p > 1 /\ Hidden(fmt) \in Nat /\ Hidden(fmt) = 2 * FP!QUIET(fmt)
      /\ FP!QUIET(fmt) \in Nat \ {0} /\ 2^(fmt.e - 1) \in Nat
  BY FormatFacts
<1>2. Hidden(fmt) \in Nat \ {0} /\ Hidden(fmt) % 2 = 0
  <2> DEFINE h == Hidden(fmt)
             w == FP!QUIET(fmt)
  <2>1. h \in Nat /\ w \in Nat \ {0} /\ h = 2 * w
    BY <1>1
  <2> HIDE DEF h, w
  <2>2. h # 0 /\ h % 2 = 0
    BY <2>1
  <2> QED BY <2>1, <2>2 DEF h
<1>3. 2^fmt.p = 2 * Hidden(fmt)
  <2>1. fmt.p - 1 \in Nat /\ (fmt.p - 1) + 1 = fmt.p
    BY <1>1
  <2>2. 2^((fmt.p - 1) + 1) = 2 * 2^(fmt.p - 1)
    BY <2>1, PowNext
  <2> QED BY <2>1, <2>2 DEF Hidden
<1>4. Lowest(fmt) \in Int
  BY <1>1 DEF Lowest
<1> QED BY <1>1, <1>2, <1>3, <1>4

(* The significand and the place of a pattern that is put together.        *)
LEMMA PlaceOf ==
  ASSUME NEW fmt \in Formats, NEW d \in Nat, NEW k \in Nat, k < 2 * Hidden(fmt), k >= Hidden(fmt) \/ d = 0,
         NEW a, a = d * Hidden(fmt) + k
  PROVE  a \in Nat /\ Significand(fmt, a) = k /\ LastPlace(fmt, a) = d + Lowest(fmt)
<1> DEFINE H == Hidden(fmt)
<1>1. H \in Nat \ {0} /\ fmt.p \in Nat /\ 2^(fmt.e - 1) \in Nat
  BY FormatPlaces
<1>2. CASE k >= H
  <2> DEFINE i == d + 1
             j == k - H
  <2>1. a = H * i + j /\ j \in 0..(H - 1) /\ i \in Nat \ {0} /\ a \in Int /\ a \in Nat
    <3>1. d * H \in Nat /\ H * (d + 1) = d * H + H
      BY <1>1
    <3> DEFINE dH == d * H
    <3>2. dH \in Nat /\ H * (d + 1) = dH + H /\ a = dH + k
      BY <3>1
    <3> HIDE DEF H, dH
    <3>3. a = H * (d + 1) + (k - H) /\ a \in Nat
      BY <1>1, <3>2
    <3>4. k - H \in 0..(H - 1)
      BY <1>1, <1>2 DEF H
    <3> QED BY <3>3, <3>4
  <2> HIDE DEF H, i, j
  <2>2. a \div H = i /\ a % H = j
    <3>1. i \in Int
      BY <2>1
    <3> QED BY <1>1, <2>1, <3>1, QuotientIs, Zenon
  <2>3. Exponent(fmt, a) = i /\ Fraction(fmt, a) = j
    BY <2>2 DEF Exponent, Fraction, H
  <2>4. Significand(fmt, a) = j + H
    BY <2>1, <2>3 DEF Significand, H
  <2>5. j + H = k
    BY <1>1 DEF j
  <2>6. LastPlace(fmt, a) = i + 1 - (2^(fmt.e - 1) - 1) - fmt.p
    BY <2>1, <2>3 DEF LastPlace
  <2>7. LastPlace(fmt, a) = d + Lowest(fmt)
    BY <1>1, <2>6 DEF Lowest, i
  <2> QED BY <2>1, <2>4, <2>5, <2>7
<1>3. CASE k < H
  <2>1. d = 0 /\ a = k
    <3>1. d = 0
      BY <1>1, <1>3
    <3>2. d * H = 0
      BY <1>1, <3>1
    <3> QED BY <3>1, <3>2
  <2> DEFINE z == 0
  <2>2. a = H * z + k /\ k \in 0..(H - 1) /\ z \in Int /\ a \in Int
    BY <1>1, <1>3, <2>1
  <2> HIDE DEF H, z
  <2>3. a \div H = z /\ a % H = k
    BY <1>1, <2>2, QuotientIs
  <2>4. Exponent(fmt, a) = 0 /\ Fraction(fmt, a) = k
    BY <2>3 DEF Exponent, Fraction, H, z
  <2>5. Significand(fmt, a) = k
    BY <2>4 DEF Significand
  <2>6. LastPlace(fmt, a) = 1 + 1 - (2^(fmt.e - 1) - 1) - fmt.p
    BY <2>4 DEF LastPlace
  <2>7. LastPlace(fmt, a) = d + Lowest(fmt)
    BY <1>1, <2>1, <2>6 DEF Lowest
  <2> QED BY <2>1, <2>5, <2>7
<1> QED BY <1>1, <1>2, <1>3

(* Every pattern is put together so.                                       *)
LEMMA PutTogether ==
  ASSUME NEW fmt \in Formats, NEW a \in Nat
  PROVE  \E d \in Nat : \E k \in Nat :
           /\ k < 2 * Hidden(fmt) /\ (k >= Hidden(fmt) \/ d = 0) /\ a = d * Hidden(fmt) + k
           /\ Significand(fmt, a) = k /\ LastPlace(fmt, a) = d + Lowest(fmt)
<1> DEFINE H == Hidden(fmt)
           i == a \div H
           j == a % H
<1>1. H \in Nat \ {0}
  BY FormatPlaces
<1>2. i \in Nat /\ j \in 0..(H - 1) /\ a = H * i + j
  <2>1. a \in Int
    OBVIOUS
  <2>2. j \in 0..(H - 1) /\ a = H * i + j
    <3> HIDE DEF H
    <3> QED BY <1>1, <2>1, DivMod
  <2>3. i \in Nat
    <3> HIDE DEF H
    <3> QED BY <1>1, QuotientType
  <2> QED BY <2>2, <2>3
<1> HIDE DEF H, i, j
<1>3. \E d \in Nat : \E k \in Nat : k < 2 * H /\ (k >= H \/ d = 0) /\ a = d * H + k
  <2>1. CASE i = 0
    <3>1. a = 0 * H + j /\ j \in Nat /\ j < 2 * H
      BY <1>1, <1>2, <2>1
    <3> QED BY <3>1
  <2>2. CASE i # 0
    <3>1. i - 1 \in Nat /\ j + H \in Nat /\ j + H < 2 * H /\ j + H >= H
      BY <1>1, <1>2, <2>2
    <3>2. H * i = (i - 1) * H + H
      BY <1>1, <1>2
    <3>3. a = (i - 1) * H + (j + H)
      <4> DEFINE e == H * i
                 f == (i - 1) * H
      <4>1. e = f + H /\ a = e + j /\ f \in Nat
        BY <1>1, <1>2, <3>1, <3>2
      <4> HIDE DEF e, f
      <4>2. a = f + (j + H)
        BY <1>1, <1>2, <4>1
      <4> QED BY <4>2 DEF f
    <3> QED BY <3>1, <3>3
  <2> QED BY <2>1, <2>2
<1>4. PICK d \in Nat, k \in Nat : k < 2 * H /\ (k >= H \/ d = 0) /\ a = d * H + k
  BY <1>3
<1>5. Significand(fmt, a) = k /\ LastPlace(fmt, a) = d + Lowest(fmt)
  BY <1>4, PlaceOf DEF H
<1> QED BY <1>4, <1>5 DEF H

(* Its value, when the significand may have just run out of bits as well.  *)
LEMMA GridValue ==
  ASSUME NEW fmt \in Formats, NEW d \in Nat, NEW k \in Nat, k <= 2 * Hidden(fmt), k >= Hidden(fmt) \/ d = 0,
         NEW a, a = d * Hidden(fmt) + k, NEW z \in Int, z <= Lowest(fmt)
  PROVE  /\ a \in Nat /\ LastPlace(fmt, a) \in Int /\ LastPlace(fmt, a) >= d + Lowest(fmt)
         /\ Grid(fmt, a, z) = AtPlace(k, d + Lowest(fmt), z)
<1> DEFINE H == Hidden(fmt)
           l == Lowest(fmt)
<1>1. H \in Nat \ {0} /\ l \in Int
  BY FormatPlaces
<1>2. CASE k < 2 * H
  <2>1. a \in Nat /\ Significand(fmt, a) = k /\ LastPlace(fmt, a) = d + l
    BY <1>2, PlaceOf
  <2> QED BY <1>1, <2>1 DEF Grid
<1>3. CASE ~(k < 2 * H)
  <2>1. k = 2 * H
    BY <1>1, <1>3
  <2> DEFINE e == d + 1
  <2>2. a = e * H + H /\ e \in Nat
    <3>1. (d + 1) * H = d * H + H /\ d * H \in Nat
      BY <1>1
    <3> DEFINE dH == d * H
    <3>2. (d + 1) * H = dH + H /\ dH \in Nat /\ a = dH + k
      BY <3>1
    <3> HIDE DEF H, dH
    <3>3. a = (d + 1) * H + H
      BY <1>1, <2>1, <3>2
    <3> QED BY <3>3
  <2>3. a \in Nat /\ Significand(fmt, a) = H /\ LastPlace(fmt, a) = e + l
    <3>1. H \in Nat /\ H < 2 * H /\ H >= H
      BY <1>1
    <3> HIDE DEF e
    <3> QED BY <2>2, <3>1, PlaceOf
  <2>4. AtPlace(H, e + l, z) = AtPlace(k, d + l, z)
    <3>1. (d + l) - z \in Nat /\ (e + l) - z = ((d + l) - z) + 1
      BY <1>1 DEF l
    <3> DEFINE n == (d + l) - z
    <3>2. n \in Nat /\ (e + l) - z = n + 1
      BY <3>1
    <3> HIDE DEF n, H, e, l
    <3>3. 2^(n + 1) = 2 * 2^n /\ 2^n \in Nat
      BY <3>2, PowNext, PowIsNat
    <3>4. H * (2 * 2^n) = (2 * H) * 2^n
      BY <1>1, <3>3
    <3>5. AtPlace(H, e + l, z) = H * (2 * 2^n)
      BY <3>2, <3>3 DEF AtPlace
    <3>6. AtPlace(k, d + l, z) = (2 * H) * 2^n
      BY <2>1 DEF AtPlace, n
    <3> QED BY <3>4, <3>5, <3>6
  <2> QED BY <1>1, <2>3, <2>4 DEF Grid
<1> QED BY <1>2, <1>3

(* Sums at a place.                                                        *)
LEMMA AtSum ==
  ASSUME NEW m \in Nat, NEW n \in Nat, NEW q \in Int, NEW z \in Int, z <= q
  PROVE  /\ 2^(q - z) \in Nat \ {0} /\ AtPlace(m, q, z) \in Nat /\ AtPlace(1, q, z) = 2^(q - z)
         /\ AtPlace(m + n, q, z) = AtPlace(m, q, z) + AtPlace(n, q, z)
         /\ AtPlace(m + 1, q, z) = AtPlace(m, q, z) + 2^(q - z)
<1>1. q - z \in Nat
  OBVIOUS
<1> DEFINE P == 2^(q - z)
<1>2. P \in Nat \ {0}
  BY <1>1, PowIsNat
<1> HIDE DEF P
<1>3. m * P \in Nat /\ 1 * P = P /\ (m + n) * P = m * P + n * P /\ (m + 1) * P = m * P + P
  BY <1>2
<1> QED BY <1>2, <1>3 DEF AtPlace, P

(* The next pattern is one last place above.                               *)
LEMMA GridNext ==
  ASSUME NEW fmt \in Formats, NEW a \in Nat, NEW z \in Int, z <= Lowest(fmt)
  PROVE  /\ LastPlace(fmt, a) \in Int /\ LastPlace(fmt, a) >= Lowest(fmt) /\ Significand(fmt, a) \in Nat
         /\ Grid(fmt, a, z) \in Nat /\ 2^(LastPlace(fmt, a) - z) \in Nat \ {0}
         /\ Grid(fmt, a + 1, z) = Grid(fmt, a, z) + 2^(LastPlace(fmt, a) - z)
<1>1. PICK d \in Nat, k \in Nat :
        /\ k < 2 * Hidden(fmt) /\ (k >= Hidden(fmt) \/ d = 0) /\ a = d * Hidden(fmt) + k
        /\ Significand(fmt, a) = k /\ LastPlace(fmt, a) = d + Lowest(fmt)
  BY PutTogether
<1> DEFINE H == Hidden(fmt)
           q == d + Lowest(fmt)
<1>2. H \in Nat \ {0} /\ q \in Int /\ q >= Lowest(fmt) /\ z <= q /\ Lowest(fmt) \in Int
  BY FormatPlaces
<1>3. k + 1 \in Nat /\ k + 1 <= 2 * H /\ (k + 1 >= H \/ d = 0)
  BY <1>1, <1>2
<1>4. a + 1 = d * H + (k + 1)
  <2>1. d * H \in Nat /\ a = d * H + k
    BY <1>1, <1>2
  <2> DEFINE dH == d * H
  <2> HIDE DEF dH
  <2>2. dH \in Nat /\ a = dH + k
    BY <2>1 DEF dH
  <2>3. a + 1 = dH + (k + 1)
    BY <2>2
  <2> QED BY <2>3 DEF dH
<1>5. Grid(fmt, a + 1, z) = AtPlace(k + 1, q, z)
  <2> DEFINE c == a + 1
             n == k + 1
  <2>1. c = d * Hidden(fmt) + n /\ n \in Nat /\ n <= 2 * Hidden(fmt) /\ (n >= Hidden(fmt) \/ d = 0)
    BY <1>3, <1>4
  <2> HIDE DEF c, n
  <2>2. Grid(fmt, c, z) = AtPlace(n, q, z)
    BY <2>1, GridValue
  <2> QED BY <2>2 DEF c, n
<1>6. Grid(fmt, a, z) = AtPlace(k, q, z)
  BY <1>1 DEF Grid
<1>7. /\ 2^(q - z) \in Nat \ {0} /\ AtPlace(k, q, z) \in Nat
      /\ AtPlace(k + 1, q, z) = AtPlace(k, q, z) + 2^(q - z)
  <2> HIDE DEF q
  <2> QED BY <1>2, AtSum
<1> QED BY <1>1, <1>2, <1>5, <1>6, <1>7

(* Half of it is the middle.                                               *)
LEMMA GridMiddle ==
  ASSUME NEW fmt \in Formats, NEW a \in Nat, NEW z \in Int, z < Lowest(fmt)
  PROVE  LET M == FP!Middle(fmt, a)
             P == 2^((LastPlace(fmt, a) - 1) - z)
         IN  /\ M.m = 2 * Significand(fmt, a) + 1 /\ M.m \in Nat
             /\ M.q = LastPlace(fmt, a) - 1 /\ M.q \in Int /\ M.q >= z
             /\ P \in Nat \ {0} /\ 2^(LastPlace(fmt, a) - z) = 2 * P
             /\ AtPlace(M.m, M.q, z) = Grid(fmt, a, z) + P
<1> DEFINE M == FP!Middle(fmt, a)
           s == Significand(fmt, a)
           q == LastPlace(fmt, a)
           P == 2^((q - 1) - z)
<1>1. s \in Nat /\ q \in Int /\ q >= Lowest(fmt) /\ Lowest(fmt) \in Int
  <2>1. z <= Lowest(fmt) /\ Lowest(fmt) \in Int
    BY FormatPlaces
  <2> QED BY <2>1, GridNext
<1>2. (q - 1) - z \in Nat /\ q - z = ((q - 1) - z) + 1
  <2> HIDE DEF q
  <2> QED BY <1>1
<1>3. P \in Nat \ {0} /\ 2^(q - z) = 2 * P
  <2> DEFINE n == (q - 1) - z
  <2>1. n \in Nat /\ q - z = n + 1
    BY <1>2
  <2> HIDE DEF n
  <2>2. 2^n \in Nat \ {0} /\ 2^(n + 1) = 2 * 2^n
    BY <2>1, PowIsNat, PowNext
  <2> QED BY <2>1, <2>2 DEF n
<1>4. M.m = 2 * s + 1
  <2> DEFINE f == Fraction(fmt, a)
             h == Hidden(fmt)
  <2>1. f \in Nat /\ h \in Nat
    <3>1. h \in Nat \ {0}
      BY FormatPlaces
    <3> QED BY <3>1, QuotientType DEF Fraction
  <2>2. M.m = 2 * (IF Exponent(fmt, a) = 0 THEN f ELSE f + h) + 1
    BY DEF FP!Middle, Fraction, Exponent, Hidden
  <2>3. s = (IF Exponent(fmt, a) = 0 THEN f ELSE f + h)
    BY <2>1 DEF Significand
  <2> QED BY <2>2, <2>3
<1>5. M.q = q - 1
  <2>1. M.q = (IF Exponent(fmt, a) = 0 THEN 1 ELSE Exponent(fmt, a)) - (2^(fmt.e - 1) - 1) - fmt.p
    BY DEF FP!Middle, Exponent, Hidden, FP!Bias
  <2> DEFINE x == IF Exponent(fmt, a) = 0 THEN 1 ELSE Exponent(fmt, a)
             b == 2^(fmt.e - 1)
  <2>2. x \in Int /\ b \in Nat /\ fmt.p \in Nat
    <3>1. Hidden(fmt) \in Nat \ {0} /\ b \in Nat /\ fmt.p \in Nat
      BY FormatPlaces
    <3>2. Exponent(fmt, a) \in Nat
      BY <3>1, QuotientType DEF Exponent
    <3> QED BY <3>1, <3>2
  <2>3. q = x + 1 - (b - 1) - fmt.p
    BY DEF LastPlace
  <2> HIDE DEF x, b, q
  <2>4. x - (b - 1) - fmt.p = q - 1
    BY <2>2, <2>3
  <2> QED BY <2>1, <2>4 DEF x, b
<1>6. AtPlace(M.m, M.q, z) = Grid(fmt, a, z) + P
  <2>1. Grid(fmt, a, z) = s * (2 * P)
    BY <1>3 DEF Grid, AtPlace
  <2>2. AtPlace(M.m, M.q, z) = (2 * s + 1) * P
    BY <1>4, <1>5 DEF AtPlace
  <2> HIDE DEF P, s
  <2>3. (2 * s + 1) * P = s * (2 * P) + P
    BY <1>1, <1>3
  <2> QED BY <2>1, <2>2, <2>3
<1>7. M.m \in Nat /\ M.q \in Int /\ M.q >= z
  <2> HIDE DEF q, s
  <2>1. 2 * s + 1 \in Nat /\ q - 1 \in Int /\ q - 1 >= z
    BY <1>1
  <2> QED BY <1>4, <1>5, <2>1
<1> QED BY <1>3, <1>4, <1>5, <1>6, <1>7

(* k places of size U are what X rounds to.                                *)
Rounded(X, k, U) ==
  /\ 2 * (k * U) <= 2 * X + U /\ 2 * X <= 2 * (k * U) + U
  /\ 2 * (k * U) = 2 * X + U \/ 2 * X = 2 * (k * U) + U => k % 2 = 0

(* Counting in smaller places changes nothing.                             *)
LEMMA RoundedScaled ==
  ASSUME NEW X \in Nat, NEW k \in Nat, NEW U \in Nat \ {0}, NEW S \in Nat \ {0}, Rounded(X, k, U)
  PROVE  Rounded(X * S, k, U * S)
<1> DEFINE K == k * U
           a == 2 * K
           b == 2 * X + U
           c == 2 * X
           e == 2 * K + U
<1>1. K \in Nat /\ a \in Nat /\ b \in Nat /\ c \in Nat /\ e \in Nat
  OBVIOUS
<1>2. a <= b /\ c <= e /\ (a = b \/ c = e => k % 2 = 0)
  BY DEF Rounded
<1>3. a * S = 2 * (k * (U * S)) /\ b * S = 2 * (X * S) + U * S /\ c * S = 2 * (X * S)
      /\ e * S = 2 * (k * (U * S)) + U * S
  <2>1. k * (U * S) = K * S
    OBVIOUS
  <2>2. (2 * K) * S = 2 * (K * S) /\ (2 * X + U) * S = 2 * (X * S) + U * S /\ (2 * X) * S = 2 * (X * S)
        /\ (2 * K + U) * S = 2 * (K * S) + U * S
    <3> HIDE DEF K
    <3> QED BY <1>1
  <2> QED BY <2>1, <2>2
<1> HIDE DEF a, b, c, e
<1>4. (a < b <=> a * S < b * S) /\ (a = b <=> a * S = b * S) /\ a * S \in Nat /\ b * S \in Nat
  BY <1>1, ScalesOrder
<1>5. (c < e <=> c * S < e * S) /\ (c = e <=> c * S = e * S) /\ c * S \in Nat /\ e * S \in Nat
  BY <1>1, ScalesOrder
<1> DEFINE aS == a * S
           bS == b * S
           cS == c * S
           eS == e * S
<1>6. aS <= bS /\ cS <= eS /\ (aS = bS \/ cS = eS => k % 2 = 0)
  <2>1. aS \in Nat /\ bS \in Nat /\ cS \in Nat /\ eS \in Nat /\ (a < b <=> aS < bS) /\ (a = b <=> aS = bS)
        /\ (c < e <=> cS < eS) /\ (c = e <=> cS = eS)
    BY <1>4, <1>5
  <2> HIDE DEF aS, bS, cS, eS
  <2>2. (a < b \/ a = b) /\ (c < e \/ c = e)
    BY <1>1, <1>2
  <2> QED BY <1>2, <2>1, <2>2
<1> QED BY <1>3, <1>6 DEF Rounded

(* The bits of a number say where it is.                                   *)
LEMMA LengthAt ==
  ASSUME NEW m \in Nat \ {0}, NEW q \in Int, NEW z \in Int, z <= q
  PROVE  LET n == FP!bit_length(m) + q - z
         IN  /\ FP!bit_length(m) \in Nat \ {0} /\ n \in Nat \ {0}
             /\ AtPlace(m, q, z) \in Nat \ {0}
             /\ 2^(n - 1) <= AtPlace(m, q, z) /\ AtPlace(m, q, z) < 2^n
<1> DEFINE k == q - z
<1>1. k \in Nat
  OBVIOUS
<1> HIDE DEF k
<1>2. m * 2^k \in Nat \ {0} /\ FP!bit_length(m * 2^k) = FP!bit_length(m) + k
  BY <1>1, LengthScaled
<1> DEFINE M == m * 2^k
           l == FP!bit_length(M)
<1>3. l \in Nat /\ M < 2^l /\ (l = 0 \/ M >= 2^(l - 1))
  BY <1>2, LengthCounts DEF Takes
<1>4. FP!bit_length(m) \in Nat \ {0}
  <2>1. FP!bit_length(m) \in Nat /\ m < 2^FP!bit_length(m)
    BY LengthCounts DEF Takes
  <2>2. FP!bit_length(m) # 0
    <3> SUFFICES ASSUME FP!bit_length(m) = 0 PROVE FALSE
      OBVIOUS
    <3>1. 2^FP!bit_length(m) = 1
      <4>1. 2^0 = 1
        OBVIOUS
      <4> QED BY <4>1
    <3> QED BY <2>1, <3>1
  <2> QED BY <2>1, <2>2
<1>5. l = FP!bit_length(m) + q - z
  BY <1>2, <1>4 DEF k
<1>6. l # 0
  BY <1>1, <1>2, <1>4
<1>7. AtPlace(m, q, z) = M
  BY DEF AtPlace, k
<1> HIDE DEF l, M
<1>8. 2^(l - 1) <= M
  <2>1. 2^(l - 1) \in Nat /\ M \in Nat
    BY <1>2, <1>3, <1>6, PowIsNat DEF M
  <2> QED BY <1>3, <1>6, <2>1
<1> QED BY <1>2, <1>3, <1>4, <1>5, <1>6, <1>7, <1>8 DEF M

(* What Pack does with a number, counted at a low place.                   *)
LEMMA PackPlaced ==
  ASSUME NEW fmt \in Formats, NEW x \in Floats, x.m # 0, NEW z \in Int, z < Lowest(fmt), z <= x.q,
         NEW X, X = AtPlace(x.m, x.q, z)
  PROVE  \E d \in Nat : \E k \in Nat :
           LET U == 2^(d + Lowest(fmt) - z)
               bits == d * Hidden(fmt) + k
           IN  /\ U \in Nat \ {0} /\ k <= 2 * Hidden(fmt) /\ (k >= Hidden(fmt) \/ d = 0)
               /\ Rounded(X, k, U) /\ (d # 0 => Hidden(fmt) * U <= X)
               /\ FP!Pack(fmt, x) = IF bits > FP!EXP(fmt) THEN FP!EXP(fmt) ELSE bits
<1> DEFINE m == x.m
           q == x.q
           p == fmt.p
           low == Lowest(fmt)
           H == Hidden(fmt)
           l == FP!bit_length(m)
           top == l + q - p
           t == IF top > low THEN top ELSE low
           keep == IF t <= q THEN m * 2^(q - t) ELSE FP!HalfEven(m, t - q)
           d == t - low
           U == 2^(t - z)
<1>1. /\ m \in Nat \ {0} /\ q \in Int /\ p \in Nat /\ p > 1 /\ low \in Int /\ H \in Nat \ {0} /\ 2^p = 2 * H
  BY FloatFacts, FormatPlaces
<1>2. /\ l \in Nat \ {0} /\ l + q - z \in Nat \ {0} /\ X \in Nat \ {0}
      /\ 2^((l + q - z) - 1) <= X /\ X < 2^(l + q - z)
  <2> HIDE DEF m, q
  <2> QED BY <1>1, LengthAt DEF m, q, l
<1> HIDE DEF m, q, p, H, l, low
<1>3. t \in Int /\ t >= low /\ t >= top /\ top \in Int /\ (t = top \/ d = 0) /\ d \in Nat
      /\ t - z \in Nat \ {0} /\ d + low = t
  <2>1. z < low
    BY DEF low
  <2> QED BY <1>1, <1>2, <2>1
<1> HIDE DEF t
<1>4. U \in Nat \ {0} /\ 2^(p + (t - z)) = (2 * H) * U /\ 2^((p - 1) + (t - z)) = H * U
  <2> DEFINE n == t - z
  <2>1. n \in Nat
    BY <1>3
  <2> HIDE DEF n
  <2>2. p - 1 \in Nat
    BY <1>1
  <2>3. 2^n \in Nat \ {0} /\ 2^(p + n) = 2^p * 2^n /\ 2^((p - 1) + n) = 2^(p - 1) * 2^n
    BY <1>1, <2>1, <2>2, PowIsNat, PowSum
  <2>4. 2^(p - 1) = H
    BY DEF H, Hidden, p
  <2> QED BY <1>1, <2>3, <2>4 DEF n
<1>5. keep \in Nat /\ Rounded(X, keep, U)
  <2>1. CASE t <= q
    <3> DEFINE n == q - t
    <3>1. n \in Nat /\ z <= t /\ t <= q
      BY <1>1, <1>3, <2>1
    <3>2. AtPlace(m, q, t) \in Nat /\ AtPlace(m, q, z) = AtPlace(m, q, t) * 2^(t - z)
      <4> HIDE DEF n
      <4> QED BY <1>1, <1>3, <3>1, AtLower
    <3>3. keep = AtPlace(m, q, t)
      BY <2>1 DEF AtPlace
    <3>4. keep \in Nat /\ X = keep * U
      BY <3>2, <3>3 DEF m, q
    <3> HIDE DEF keep, U
    <3> DEFINE K == keep * U
    <3>5. K \in Nat /\ X = K
      BY <1>4, <3>4
    <3> HIDE DEF K
    <3>6. 2 * K <= 2 * X + U /\ 2 * X <= 2 * K + U /\ 2 * K # 2 * X + U /\ 2 * X # 2 * K + U
      BY <1>4, <3>5
    <3> QED BY <3>4, <3>6 DEF Rounded, K
  <2>2. CASE t > q
    <3> DEFINE n == t - q
               D == 2^n
               S == 2^(q - z)
    <3>1. n \in Nat /\ q - z \in Nat /\ t - z = n + (q - z)
      <4>1. z <= q
        BY DEF q
      <4> QED BY <1>1, <1>3, <2>2, <4>1
    <3>2. keep = FP!HalfEven(m, n)
      BY <1>1, <1>3, <2>2
    <3>3. D \in Nat \ {0} /\ S \in Nat \ {0} /\ U = D * S
      <4> DEFINE i == q - z
      <4>1. i \in Nat /\ t - z = n + i
        BY <3>1
      <4> HIDE DEF i, n
      <4>2. 2^n \in Nat \ {0} /\ 2^i \in Nat \ {0} /\ 2^(n + i) = 2^n * 2^i
        BY <3>1, <4>1, PowIsNat, PowSum
      <4> QED BY <4>1, <4>2 DEF i
    <3> HIDE DEF keep, n
    <3>4. keep \in Nat /\ Rounded(m, keep, D)
      <4>1. m \in Nat
        BY <1>1
      <4>2. /\ keep \in Nat /\ D \in Nat \ {0}
            /\ 2 * (keep * D) <= 2 * m + D /\ 2 * m <= 2 * (keep * D) + D
            /\ 2 * (keep * D) = 2 * m + D \/ 2 * m = 2 * (keep * D) + D => keep % 2 = 0
        <5> HIDE DEF D
        <5>1. D = 2^n
          BY DEF D
        <5> QED BY <3>1, <3>2, <4>1, <5>1, HalfEvenNearest
      <4> QED BY <4>2 DEF Rounded
    <3>5. X = m * S
      BY DEF AtPlace, m, q
    <3>6. Rounded(m * S, keep, D * S)
      <4> HIDE DEF D, S
      <4> QED BY <1>1, <3>3, <3>4, RoundedScaled
    <3> QED BY <3>3, <3>4, <3>5, <3>6
  <2> QED BY <1>1, <1>3, <2>1, <2>2
<1>6. X < (2 * H) * U
  <2> DEFINE a == l + q - z
             b == p + (t - z)
  <2>1. a \in Nat /\ b \in Nat /\ a <= b
    BY <1>1, <1>2, <1>3
  <2> HIDE DEF a, b
  <2>2. 2^a <= 2^b /\ 2^a \in Nat /\ 2^b \in Nat
    BY <2>1, PowMonotone, PowIsNat
  <2>3. X < 2^a
    BY <1>2 DEF a
  <2>4. 2^b = (2 * H) * U
    BY <1>4 DEF b
  <2> DEFINE A == 2^a
             B == 2^b
  <2>5. A \in Nat /\ B \in Nat /\ A <= B /\ X < A
    BY <2>2, <2>3
  <2> HIDE DEF A, B
  <2>6. X < B
    BY <1>2, <2>5
  <2> QED BY <2>4, <2>6 DEF B
<1>7. d # 0 => H * U <= X
  <2> SUFFICES ASSUME d # 0 PROVE H * U <= X
    OBVIOUS
  <2>1. t = top
    BY <1>3
  <2>2. (l + q - z) - 1 = (p - 1) + (t - z)
    <3> HIDE DEF d, U, keep
    <3> QED BY <1>1, <1>2, <2>1
  <2> QED BY <1>2, <1>4, <2>2
<1> HIDE DEF keep, U
<1>8. keep <= 2 * H /\ (d # 0 => keep >= H)
  <2> DEFINE K == keep * U
             A == (2 * H) * U
             B == H * U
  <2>1. K \in Nat /\ A \in Nat /\ B \in Nat /\ (keep + 1) * U = K + U /\ (2 * H + 1) * U = A + U
    BY <1>1, <1>4, <1>5
  <2>2. 2 * K <= 2 * X + U /\ 2 * X <= 2 * K + U
    BY <1>5 DEF Rounded
  <2>3. X < A /\ (d # 0 => B <= X)
    BY <1>6, <1>7
  <2>4. keep \in Nat /\ keep + 1 \in Nat /\ 2 * H + 1 \in Nat /\ H \in Nat
    BY <1>1, <1>5
  <2>5. (keep < 2 * H + 1 <=> keep * U < (2 * H + 1) * U) /\ (H < keep + 1 <=> H * U < (keep + 1) * U)
    <3> DEFINE a == keep + 1
               b == 2 * H + 1
    <3>1. a \in Nat /\ b \in Nat
      BY <2>4
    <3> HIDE DEF a, b
    <3>2. (keep < b <=> keep * U < b * U) /\ (H < a <=> H * U < a * U)
      BY <1>4, <2>4, <3>1, ScalesOrder
    <3> QED BY <3>2 DEF a, b
  <2>6. keep < 2 * H + 1 <=> K < A + U
    BY <2>1, <2>5
  <2>7. H < keep + 1 <=> B < K + U
    BY <2>1, <2>5
  <2> HIDE DEF K, A, B
  <2>8. K < A + U /\ (d # 0 => B < K + U)
    <3> HIDE DEF d
    <3> QED BY <1>2, <1>4, <2>1, <2>2, <2>3
  <2>9. keep < 2 * H + 1 /\ (d # 0 => H < keep + 1)
    BY <2>6, <2>7, <2>8
  <2> HIDE DEF d
  <2> QED BY <1>1, <1>5, <2>9
<1>9. FP!Pack(fmt, x) = IF d * H + keep > FP!EXP(fmt) THEN FP!EXP(fmt) ELSE d * H + keep
  <2>1. x.m # 0
    OBVIOUS
  <2> QED BY <2>1 DEF FP!Pack, keep, t, H, Hidden, low, Lowest, l, m, q, p
<1>10. 2^(d + low - z) = U
  <2> HIDE DEF d
  <2>1. d + low - z = t - z
    BY <1>1, <1>3
  <2> QED BY <2>1 DEF U
<1> HIDE DEF d
<1>11. U \in Nat \ {0} /\ keep <= 2 * H /\ (keep >= H \/ d = 0) /\ Rounded(X, keep, U)
       /\ (d # 0 => H * U <= X)
  BY <1>4, <1>5, <1>7, <1>8
<1> QED
  <2>1. d \in Nat /\ keep \in Nat
    BY <1>3, <1>5
  <2> QED BY <1>9, <1>10, <1>11, <2>1 DEF H, low

(* The middle above a pattern, at a place.                                 *)
Mid(fmt, a, z) == AtPlace(FP!Middle(fmt, a).m, FP!Middle(fmt, a).q, z)

(* Where an X that rounds to k places of size U lies between the middles   *)
(* around the pattern that k is put in.                                    *)
LEMMA BetweenMiddles ==
  ASSUME NEW fmt \in Formats, NEW z \in Int, z < Lowest(fmt), NEW d \in Nat, NEW k \in Nat,
         k <= 2 * Hidden(fmt), k >= Hidden(fmt) \/ d = 0, NEW X \in Nat,
         NEW U \in Nat \ {0}, U = 2^((d + Lowest(fmt)) - z),
         Rounded(X, k, U), d # 0 => Hidden(fmt) * U <= X,
         NEW a, a = d * Hidden(fmt) + k
  PROVE  /\ a \in Nat /\ Mid(fmt, a, z) \in Nat
         /\ X <= Mid(fmt, a, z) /\ (X = Mid(fmt, a, z) => a % 2 = 0)
         /\ a # 0 => /\ Mid(fmt, a - 1, z) \in Nat /\ Mid(fmt, a - 1, z) <= X
                     /\ Mid(fmt, a - 1, z) = X => a % 2 = 0
         /\ Grid(fmt, a, z) = k * U
<1> DEFINE H == Hidden(fmt)
           t == d + Lowest(fmt)
           K == k * U
           hU == 2^((t - 1) - z)
<1>1. H \in Nat \ {0} /\ H % 2 = 0 /\ Lowest(fmt) \in Int /\ z <= Lowest(fmt) /\ t \in Int /\ z < t
  BY FormatPlaces
<1>2. a \in Nat /\ LastPlace(fmt, a) \in Int /\ LastPlace(fmt, a) >= t /\ Grid(fmt, a, z) = K /\ K \in Nat
  <2>1. /\ a \in Nat /\ LastPlace(fmt, a) \in Int /\ LastPlace(fmt, a) >= t
        /\ Grid(fmt, a, z) = AtPlace(k, t, z)
    BY <1>1, GridValue
  <2> QED BY <2>1 DEF AtPlace
<1>3. hU \in Nat \ {0} /\ U = 2 * hU
  <2> DEFINE n == (t - 1) - z
  <2>1. n \in Nat /\ t - z = n + 1
    <3> HIDE DEF t
    <3> QED BY <1>1
  <2> HIDE DEF n
  <2>2. 2^n \in Nat \ {0} /\ 2^(n + 1) = 2 * 2^n
    BY <2>1, PowIsNat, PowNext
  <2>3. U = 2^(n + 1)
    BY <2>1
  <2> QED BY <2>2, <2>3 DEF n
<1>4. k % 2 = 0 => a % 2 = 0
  <2> SUFFICES ASSUME k % 2 = 0 PROVE a % 2 = 0
    OBVIOUS
  <2> DEFINE h == H \div 2
             i == k \div 2
  <2>1. h \in Nat /\ i \in Nat /\ H = 2 * h /\ k = 2 * i
    <3> HIDE DEF H
    <3> QED BY <1>1
  <2> HIDE DEF h, i, H
  <2>2. d * (2 * h) = 2 * (d * h) /\ d * h \in Nat
    BY <2>1
  <2> DEFINE e == d * h
  <2>3. a = 2 * e + 2 * i /\ e \in Nat
    BY <2>1, <2>2 DEF H
  <2> HIDE DEF e
  <2> QED BY <2>1, <2>3
(* A middle is at least half a place above a pattern in places of t.       *)
<1>5. ASSUME NEW b \in Nat, LastPlace(fmt, b) >= t
      PROVE  LET P == 2^((LastPlace(fmt, b) - 1) - z)
             IN  /\ P \in Nat /\ hU <= P /\ Grid(fmt, b, z) \in Nat
                 /\ Mid(fmt, b, z) = Grid(fmt, b, z) + P
                 /\ Grid(fmt, b + 1, z) = Grid(fmt, b, z) + 2 * P
  <2> DEFINE s == LastPlace(fmt, b)
             P == 2^((s - 1) - z)
  <2>1. s \in Int /\ Grid(fmt, b, z) \in Nat /\ Grid(fmt, b + 1, z) = Grid(fmt, b, z) + 2^(s - z)
    BY <1>1, GridNext
  <2>2. P \in Nat \ {0} /\ 2^(s - z) = 2 * P /\ Mid(fmt, b, z) = Grid(fmt, b, z) + P
    BY GridMiddle DEF Mid
  <2>3. hU <= P
    <3> DEFINE n == (t - 1) - z
               o == (s - 1) - z
    <3>1. n \in Nat /\ o \in Nat /\ n <= o
      <4> HIDE DEF t, s
      <4>1. t <= s
        BY <1>5 DEF s
      <4> QED BY <1>1, <2>1, <4>1
    <3> HIDE DEF n, o
    <3>2. 2^n <= 2^o
      BY <3>1, PowMonotone
    <3> QED BY <3>2 DEF n, o
  <2> QED BY <2>1, <2>2, <2>3
<1> HIDE DEF t, H, hU
<1>6. Mid(fmt, a, z) \in Nat /\ X <= Mid(fmt, a, z) /\ (X = Mid(fmt, a, z) => a % 2 = 0)
  <2> DEFINE P == 2^((LastPlace(fmt, a) - 1) - z)
             M == Mid(fmt, a, z)
  <2>1. P \in Nat /\ hU <= P /\ M = K + P
    BY <1>2, <1>5
  <2>2. 2 * X <= 2 * K + U /\ (2 * X = 2 * K + U => k % 2 = 0)
    BY DEF Rounded
  <2> HIDE DEF P, M, K
  <2>3. M \in Nat /\ X <= M /\ (X = M => 2 * X = 2 * K + U)
    BY <1>2, <1>3, <2>1, <2>2
  <2> QED BY <1>4, <2>2, <2>3 DEF M
<1>7. ASSUME a # 0
      PROVE  /\ Mid(fmt, a - 1, z) \in Nat /\ Mid(fmt, a - 1, z) <= X
             /\ Mid(fmt, a - 1, z) = X => a % 2 = 0
  <2> DEFINE b == a - 1
             P == 2^((LastPlace(fmt, b) - 1) - z)
             M == Mid(fmt, b, z)
             G == Grid(fmt, b, z)
  <2>1. b \in Nat /\ b + 1 = a
    BY <1>2, <1>7
  <2>2. 2 * K <= 2 * X + U /\ (2 * K = 2 * X + U => k % 2 = 0)
    BY DEF Rounded
  <2>3. CASE k > H \/ d = 0
    <3>1. k # 0 /\ k - 1 \in Nat /\ (k - 1 >= H \/ d = 0) /\ b = d * H + (k - 1)
      <4>1. d * H \in Nat /\ (d = 0 => d * H = 0)
        BY <1>1
      <4> DEFINE dH == d * H
      <4>2. a = dH + k
        BY DEF H
      <4> HIDE DEF dH
      <4>3. k # 0
        BY <1>1, <1>7, <2>3, <4>1, <4>2 DEF dH
      <4>4. k - 1 \in Nat /\ (k - 1 >= H \/ d = 0) /\ b = dH + (k - 1)
        BY <1>1, <2>3, <4>1, <4>2, <4>3 DEF dH
      <4> QED BY <4>3, <4>4 DEF dH
    <3>2. LastPlace(fmt, b) >= t
      <4> DEFINE i == k - 1
      <4>1. i \in Nat /\ (i >= H \/ d = 0) /\ b = d * H + i /\ i <= 2 * H
        BY <1>1, <3>1 DEF H
      <4> HIDE DEF i, b
      <4> QED BY <1>1, <4>1, GridValue DEF H, t
    <3>3. P \in Nat /\ hU <= P /\ G \in Nat /\ M = G + P /\ Grid(fmt, b + 1, z) = G + 2 * P
      <4> HIDE DEF b
      <4> QED BY <1>5, <2>1, <3>2
    <3>4. K = G + 2 * P
      BY <1>2, <2>1, <3>3
    <3> HIDE DEF P, M, G, K, b
    <3>5. M \in Nat /\ M <= X /\ (M = X => 2 * K = 2 * X + U)
      BY <1>2, <1>3, <2>2, <3>3, <3>4
    <3> QED BY <1>4, <2>2, <3>5 DEF M, b
  <2>4. CASE ~(k > H \/ d = 0)
    <3>1. d # 0 /\ k = H
      BY <1>1, <2>4 DEF H
    <3>2. K <= X
      BY <3>1 DEF H
    <3>3. /\ P \in Nat \ {0} /\ 2^(LastPlace(fmt, b) - z) = 2 * P
          /\ M = G + P
      <4> HIDE DEF b
      <4> QED BY <2>1, GridMiddle DEF Mid
    <3>4. G \in Nat /\ Grid(fmt, b + 1, z) = G + 2^(LastPlace(fmt, b) - z)
      <4> HIDE DEF b
      <4> QED BY <1>1, <2>1, GridNext
    <3>5. K = G + 2 * P
      BY <1>2, <2>1, <3>3, <3>4
    <3> HIDE DEF P, M, G, K, b
    <3>6. M \in Nat /\ M < X
      BY <1>2, <3>2, <3>3, <3>4, <3>5
    <3> QED BY <3>6 DEF M, b
  <2> QED BY <2>3, <2>4
<1> QED BY <1>2, <1>6, <1>7

(* The order of two numbers, at a place.                                   *)
LEMMA CmpOrders ==
  ASSUME NEW m \in Nat, NEW q \in Int, NEW n \in Nat, NEW s \in Int, NEW z \in Int, z <= q, z <= s
  PROVE  /\ AtPlace(m, q, z) \in Nat /\ AtPlace(n, s, z) \in Nat
         /\ FP!Cmp(m, q, n, s) < 0 <=> AtPlace(m, q, z) < AtPlace(n, s, z)
         /\ FP!Cmp(m, q, n, s) = 0 <=> AtPlace(m, q, z) = AtPlace(n, s, z)
         /\ FP!Cmp(m, q, n, s) > 0 <=> AtPlace(m, q, z) > AtPlace(n, s, z)
<1> DEFINE X == AtPlace(m, q, z)
           Y == AtPlace(n, s, z)
           c == FP!Cmp(m, q, n, s)
<1>1. X \in Nat /\ Y \in Nat /\ (X < Y => c = -1) /\ (X = Y => c = 0) /\ (X > Y => c = 1)
  BY CmpAt
<1> HIDE DEF X, Y, c
<1>2. X < Y \/ X = Y \/ X > Y
  BY <1>1
<1>3. (c < 0 <=> X < Y) /\ (c = 0 <=> X = Y) /\ (c > 0 <=> X > Y)
  BY <1>1, <1>2
<1> QED BY <1>1, <1>3 DEF X, Y, c

(* What it is to be nearest, at a place.                                   *)
LEMMA NearestAt ==
  ASSUME NEW fmt \in Formats, NEW x \in Floats, NEW z \in Int, z < Lowest(fmt), z <= x.q,
         NEW X, X = AtPlace(x.m, x.q, z), NEW b \in 0..FP!EXP(fmt)
  PROVE  /\ X \in Nat
         /\ FP!NearestTo(fmt, x, b) <=>
              /\ b # 0 => X > Mid(fmt, b - 1, z) \/ (X = Mid(fmt, b - 1, z) /\ b % 2 = 0)
              /\ b # FP!EXP(fmt) => X < Mid(fmt, b, z) \/ (X = Mid(fmt, b, z) /\ b % 2 = 0)
<1>1. x.m \in Nat /\ x.q \in Int /\ FP!EXP(fmt) \in Nat
  BY FloatFacts, FormatFacts
<1>2. ASSUME NEW a \in Nat
      PROVE  LET M == FP!Middle(fmt, a)
                 c == FP!Cmp(x.m, x.q, M.m, M.q)
             IN  /\ X \in Nat /\ Mid(fmt, a, z) \in Nat
                 /\ c < 0 <=> X < Mid(fmt, a, z)
                 /\ c = 0 <=> X = Mid(fmt, a, z)
                 /\ c > 0 <=> X > Mid(fmt, a, z)
  <2> DEFINE n == FP!Middle(fmt, a).m
             s == FP!Middle(fmt, a).q
  <2>1. n \in Nat /\ s \in Int /\ s >= z
    BY GridMiddle
  <2> DEFINE m == x.m
             q == x.q
  <2>2. m \in Nat /\ q \in Int /\ z <= q /\ z <= s
    BY <1>1, <2>1
  <2> HIDE DEF n, s, m, q
  <2>3. /\ AtPlace(m, q, z) \in Nat /\ AtPlace(n, s, z) \in Nat
        /\ FP!Cmp(m, q, n, s) < 0 <=> AtPlace(m, q, z) < AtPlace(n, s, z)
        /\ FP!Cmp(m, q, n, s) = 0 <=> AtPlace(m, q, z) = AtPlace(n, s, z)
        /\ FP!Cmp(m, q, n, s) > 0 <=> AtPlace(m, q, z) > AtPlace(n, s, z)
    BY <2>1, <2>2, CmpOrders
  <2> QED BY <2>3 DEF Mid, n, s, m, q
<1>3. b # 0 => b - 1 \in Nat
  BY <1>1
<1>4. b \in Nat /\ b + 0 = b
  BY <1>1
<1>5. b # 0 => LET M == FP!Middle(fmt, b - 1)
                   c == FP!Cmp(x.m, x.q, M.m, M.q)
               IN  (c = 0 <=> X = Mid(fmt, b - 1, z)) /\ (c > 0 <=> X > Mid(fmt, b - 1, z))
  BY <1>2, <1>3
<1>6. LET M == FP!Middle(fmt, b)
          c == FP!Cmp(x.m, x.q, M.m, M.q)
      IN  X \in Nat /\ (c = 0 <=> X = Mid(fmt, b, z)) /\ (c < 0 <=> X < Mid(fmt, b, z))
  BY <1>2, <1>4
<1> DEFINE cl == FP!Cmp(x.m, x.q, FP!Middle(fmt, b - 1).m, FP!Middle(fmt, b - 1).q)
           ch == FP!Cmp(x.m, x.q, FP!Middle(fmt, b).m, FP!Middle(fmt, b).q)
           even == b % 2 = 0
<1>7. FP!NearestTo(fmt, x, b) <=> /\ b # 0 => cl > 0 \/ (cl = 0 /\ even)
                                  /\ b # FP!EXP(fmt) => ch < 0 \/ (ch = 0 /\ even)
  BY DEF FP!NearestTo
<1>8. even \in BOOLEAN /\ (even <=> b % 2 = 0)
  OBVIOUS
<1>9. b # 0 => (cl = 0 <=> X = Mid(fmt, b - 1, z)) /\ (cl > 0 <=> X > Mid(fmt, b - 1, z))
  BY <1>5
<1>10. (ch = 0 <=> X = Mid(fmt, b, z)) /\ (ch < 0 <=> X < Mid(fmt, b, z))
  BY <1>6
<1> HIDE DEF cl, ch, even
<1>11. FP!NearestTo(fmt, x, b) <=>
         /\ b # 0 => X > Mid(fmt, b - 1, z) \/ (X = Mid(fmt, b - 1, z) /\ even)
         /\ b # FP!EXP(fmt) => X < Mid(fmt, b, z) \/ (X = Mid(fmt, b, z) /\ even)
  BY <1>7, <1>9, <1>10
<1> QED BY <1>6, <1>8, <1>11

(* Some place is below any three.                                          *)
LEMMA LowPlace ==
  ASSUME NEW a \in Int, NEW b \in Int, NEW c \in Int
  PROVE  \E z \in Int : z < a /\ z < b /\ z <= c
<1> DEFINE e == (IF a < b THEN a ELSE b) - 1
           z == IF e < c THEN e ELSE c
<1>1. e \in Int /\ e < a /\ e < b
  OBVIOUS
<1>2. z \in Int /\ z <= e /\ z <= c
  <2> HIDE DEF e
  <2> QED BY <1>1
<1> HIDE DEF e, z
<1>3. z < a /\ z < b /\ z <= c
  BY <1>1, <1>2
<1> QED BY <1>2, <1>3

(* A middle is between its pattern and the next.                           *)
LEMMA MiddleBetween ==
  ASSUME NEW fmt \in Formats, NEW a \in Nat, NEW z \in Int, z < Lowest(fmt)
  PROVE  /\ Grid(fmt, a, z) \in Nat /\ Mid(fmt, a, z) \in Nat /\ Grid(fmt, a + 1, z) \in Nat
         /\ Grid(fmt, a, z) < Mid(fmt, a, z) /\ Mid(fmt, a, z) < Grid(fmt, a + 1, z)
         /\ 2 * Mid(fmt, a, z) = 2 * Grid(fmt, a, z) + 2^(LastPlace(fmt, a) - z)
         /\ 2 * Grid(fmt, a + 1, z) = 2 * Mid(fmt, a, z) + 2^(LastPlace(fmt, a) - z)
<1> DEFINE P == 2^((LastPlace(fmt, a) - 1) - z)
           Gap == 2^(LastPlace(fmt, a) - z)
           M == Mid(fmt, a, z)
           G == Grid(fmt, a, z)
           N == Grid(fmt, a + 1, z)
<1>1. P \in Nat \ {0} /\ Gap = 2 * P /\ M = G + P
  BY GridMiddle DEF Mid
<1>2. G \in Nat /\ N = G + Gap
  <2>1. z <= Lowest(fmt)
    BY FormatPlaces
  <2> QED BY <2>1, GridNext
<1> HIDE DEF P, Gap, M, G, N
<1>3. G \in Nat /\ M \in Nat /\ N \in Nat /\ G < M /\ M < N /\ 2 * M = 2 * G + Gap /\ 2 * N = 2 * M + Gap
  BY <1>1, <1>2
<1> QED BY <1>3 DEF Gap, M, G, N

(* Whatever number, it is packed as the nearest pattern.                   *)
LEMMA PackNearest ==
  ASSUME NEW fmt \in Formats, NEW x \in Floats
  PROVE  FP!NearestTo(fmt, x, FP!Pack(fmt, x))
<1>1. Lowest(fmt) \in Int /\ x.q \in Int /\ x.m \in Nat
  BY FormatPlaces, FloatFacts
<1>2. PICK z \in Int : z < Lowest(fmt) /\ z <= x.q
  BY <1>1, LowPlace
<1> DEFINE X == AtPlace(x.m, x.q, z)
           E == FP!EXP(fmt)
           b == FP!Pack(fmt, x)
<1>3. b \in 0..E /\ E \in Nat \ {0}
  BY PackType, FormatFacts
<1>4. /\ X \in Nat
      /\ FP!NearestTo(fmt, x, b) <=>
           /\ b # 0 => X > Mid(fmt, b - 1, z) \/ (X = Mid(fmt, b - 1, z) /\ b % 2 = 0)
           /\ b # E => X < Mid(fmt, b, z) \/ (X = Mid(fmt, b, z) /\ b % 2 = 0)
  <2> HIDE DEF b
  <2> QED BY <1>1, <1>2, <1>3, NearestAt
<1>5. CASE x.m = 0
  <2>1. b = 0
    BY <1>5 DEF FP!Pack
  <2>2. X = 0
    <3>1. x.q - z \in Nat
      BY <1>1, <1>2
    <3>2. 2^(x.q - z) \in Nat
      BY <3>1, PowIsNat
    <3>3. 0 * 2^(x.q - z) = 0
      BY <3>2
    <3> QED BY <1>5, <3>3 DEF AtPlace
  <2>3. Grid(fmt, 0, z) \in Nat /\ Mid(fmt, 0, z) \in Nat /\ Grid(fmt, 0, z) < Mid(fmt, 0, z)
    <3>1. 0 \in Nat
      OBVIOUS
    <3> QED BY <1>2, <3>1, MiddleBetween
  <2>4. X < Mid(fmt, 0, z)
    BY <2>2, <2>3
  <2> QED BY <1>4, <2>1, <2>4
<1>6. CASE x.m # 0
  <2>1. PICK d \in Nat, k \in Nat :
          LET U == 2^(d + Lowest(fmt) - z)
              bits == d * Hidden(fmt) + k
          IN  /\ U \in Nat \ {0} /\ k <= 2 * Hidden(fmt) /\ (k >= Hidden(fmt) \/ d = 0)
              /\ Rounded(X, k, U) /\ (d # 0 => Hidden(fmt) * U <= X)
              /\ FP!Pack(fmt, x) = IF bits > FP!EXP(fmt) THEN FP!EXP(fmt) ELSE bits
    BY <1>2, <1>6, PackPlaced
  <2> DEFINE H == Hidden(fmt)
             low == Lowest(fmt)
             U == 2^((d + low) - z)
             bits == d * H + k
  <2>2. d + low - z = (d + low) - z
    BY <1>1
  <2>3. /\ U \in Nat \ {0} /\ k <= 2 * H /\ (k >= H \/ d = 0) /\ Rounded(X, k, U)
        /\ (d # 0 => H * U <= X) /\ b = IF bits > E THEN E ELSE bits
    <3>1. 2^(d + low - z) = U
      BY <2>2
    <3> HIDE DEF U
    <3> QED BY <2>1, <3>1
  <2>4. /\ bits \in Nat /\ Mid(fmt, bits, z) \in Nat
        /\ X <= Mid(fmt, bits, z) /\ (X = Mid(fmt, bits, z) => bits % 2 = 0)
        /\ bits # 0 => /\ Mid(fmt, bits - 1, z) \in Nat /\ Mid(fmt, bits - 1, z) <= X
                       /\ Mid(fmt, bits - 1, z) = X => bits % 2 = 0
    <3>1. U = 2^((d + Lowest(fmt)) - z)
      OBVIOUS
    <3> HIDE DEF U, X
    <3> QED BY <1>2, <1>4, <2>3, <3>1, BetweenMiddles DEF H
  <2>5. CASE ~(bits > E)
    <3>1. b = bits
      BY <2>3, <2>5
    <3> DEFINE lo == Mid(fmt, b - 1, z)
               hi == Mid(fmt, b, z)
    <3>2. hi \in Nat /\ X <= hi /\ (X = hi => b % 2 = 0)
          /\ (b # 0 => lo \in Nat /\ lo <= X /\ (lo = X => b % 2 = 0))
      BY <2>4, <3>1
    <3>3. FP!NearestTo(fmt, x, b) <=> /\ b # 0 => X > lo \/ (X = lo /\ b % 2 = 0)
                                      /\ b # E => X < hi \/ (X = hi /\ b % 2 = 0)
      BY <1>4
    <3> HIDE DEF lo, hi, X, b
    <3>4. /\ b # 0 => X > lo \/ (X = lo /\ b % 2 = 0)
          /\ b # E => X < hi \/ (X = hi /\ b % 2 = 0)
      BY <1>4, <3>2
    <3> QED BY <3>3, <3>4 DEF b
  <2>6. CASE bits > E
    <3>1. b = E
      BY <2>3, <2>6
    <3> DEFINE R == 2^fmt.e
               D == R - 2
               V == 2^((D + low) - z)
    <3>2. H \in Nat \ {0} /\ low \in Int /\ E = H * (R - 1) /\ R \in Nat /\ D \in Nat \ {0}
      <4>1. H \in Nat \ {0} /\ low \in Int /\ E = H * (R - 1) /\ R \in Nat
        BY FormatPlaces, FormatFacts
      <4>2. R >= 4
        <5>1. 2^(fmt.e - 1) > 1 /\ fmt.e \in Nat \ {0} /\ 2^(fmt.e - 1) \in Nat
          BY FormatBounds, FormatFacts
        <5>2. fmt.e - 1 \in Nat /\ (fmt.e - 1) + 1 = fmt.e
          BY <5>1
        <5>3. 2^((fmt.e - 1) + 1) = 2 * 2^(fmt.e - 1)
          BY <5>2, PowNext
        <5>4. R = 2 * 2^(fmt.e - 1)
          BY <5>2, <5>3
        <5> HIDE DEF R
        <5> QED BY <5>1, <5>4
      <4> QED BY <4>1, <4>2
    <3>3. d >= D
      <4> SUFFICES ASSUME d < D PROVE FALSE
        BY <3>2
      <4>1. PICK j \in Nat : R - 1 = (d + 2) + j
        <5>1. (R - 1) - (d + 2) \in Nat /\ R - 1 = (d + 2) + ((R - 1) - (d + 2))
          BY <3>2
        <5> QED BY <5>1
      <4>2. H * ((d + 2) + j) = d * H + 2 * H + H * j /\ H * j \in Nat /\ d * H \in Nat
        BY <3>2
      <4> DEFINE dH == d * H
                 Hj == H * j
      <4>3. E = dH + 2 * H + Hj /\ Hj \in Nat /\ dH \in Nat /\ bits = dH + k
        BY <3>2, <4>1, <4>2
      <4> HIDE DEF dH, Hj, E, bits, H
      <4> QED BY <2>3, <2>6, <3>2, <4>3
    <3>4. Grid(fmt, E, z) = H * V
      <4>1. H * (R - 1) = D * H + H
        <5>1. R - 1 = D + 1
          BY <3>2
        <5> HIDE DEF H, D, R
        <5>2. H * (D + 1) = D * H + H
          BY <3>2
        <5> QED BY <5>1, <5>2
      <4>2. E = D * Hidden(fmt) + Hidden(fmt) /\ Hidden(fmt) \in Nat /\ Hidden(fmt) <= 2 * Hidden(fmt)
            /\ Hidden(fmt) >= Hidden(fmt) /\ D \in Nat
        BY <3>2, <4>1
      <4>3. z <= Lowest(fmt)
        BY <1>1, <1>2
      <4> HIDE DEF E, D
      <4>4. Grid(fmt, E, z) = AtPlace(Hidden(fmt), D + Lowest(fmt), z)
        BY <1>2, <4>2, <4>3, GridValue
      <4> QED BY <4>4 DEF AtPlace, E, D
    <3>5. H * V <= X
      <4>1. V \in Nat \ {0} /\ V <= U
        <5> DEFINE n == (D + low) - z
                   o == (d + low) - z
        <5>1. n \in Nat /\ o \in Nat /\ n <= o
          <6> HIDE DEF D, low
          <6> QED BY <1>2, <3>2, <3>3 DEF low
        <5> HIDE DEF n, o
        <5>2. 2^n \in Nat \ {0} /\ 2^n <= 2^o
          BY <5>1, PowIsNat, PowMonotone
        <5> QED BY <5>2 DEF n, o
      <4>2. d # 0
        BY <3>2, <3>3
      <4>3. H * U <= X
        BY <2>3, <4>2
      <4> HIDE DEF V, U, H, X
      <4>4. PICK j \in Nat : U = V + j
        <5>1. U - V \in Nat /\ U = V + (U - V)
          BY <2>3, <4>1
        <5> QED BY <5>1
      <4>5. H * (V + j) = H * V + H * j /\ H * V \in Nat /\ H * j \in Nat
        BY <3>2, <4>1
      <4> DEFINE a == H * V
                 c == H * j
      <4>6. a \in Nat /\ c \in Nat /\ a + c <= X
        BY <4>3, <4>4, <4>5
      <4> HIDE DEF a, c
      <4>7. a <= X
        BY <1>4, <4>6
      <4> QED BY <4>7 DEF a
    <3>6. /\ E - 1 \in Nat /\ Mid(fmt, E - 1, z) \in Nat /\ Grid(fmt, E, z) \in Nat
          /\ Mid(fmt, E - 1, z) < Grid(fmt, E, z)
      <4> DEFINE a == E - 1
      <4>1. a \in Nat /\ a + 1 = E
        BY <1>3
      <4> HIDE DEF a, E
      <4>2. Mid(fmt, a, z) \in Nat /\ Grid(fmt, a + 1, z) \in Nat /\ Mid(fmt, a, z) < Grid(fmt, a + 1, z)
        BY <1>2, <4>1, MiddleBetween
      <4> QED BY <4>1, <4>2 DEF a
    <3>7. X > Mid(fmt, b - 1, z)
      <4>1. Grid(fmt, E, z) <= X
        BY <3>4, <3>5
      <4> HIDE DEF X
      <4> QED BY <1>4, <3>1, <3>6, <4>1
    <3>8. /\ b # 0 => X > Mid(fmt, b - 1, z) \/ (X = Mid(fmt, b - 1, z) /\ b % 2 = 0)
          /\ b # E => X < Mid(fmt, b, z) \/ (X = Mid(fmt, b, z) /\ b % 2 = 0)
      BY <3>1, <3>7
    <3> QED BY <1>4, <3>8
  <2> QED BY <2>5, <2>6
<1> QED BY <1>5, <1>6

(* Numbers of patterns are in the patterns' order.                         *)
LEMMA GridOrder ==
  ASSUME NEW fmt \in Formats, NEW a \in 0..(FP!SIGN(fmt) - 1), NEW b \in 0..(FP!SIGN(fmt) - 1),
         NEW z \in Int, z < Lowest(fmt)
  PROVE  /\ Grid(fmt, a, z) \in Nat /\ Grid(fmt, b, z) \in Nat
         /\ a < b <=> Grid(fmt, a, z) < Grid(fmt, b, z)
         /\ a = b <=> Grid(fmt, a, z) = Grid(fmt, b, z)
<1> DEFINE m == Significand(fmt, a)
           q == LastPlace(fmt, a)
           n == Significand(fmt, b)
           s == LastPlace(fmt, b)
           c == FP!Cmp(m, q, n, s)
           A == AtPlace(m, q, z)
           B == AtPlace(n, s, z)
<1>1. FP!SIGN(fmt) \in Nat /\ Lowest(fmt) \in Int
  BY FormatFacts, FormatPlaces
<1>2. a \in Nat /\ b \in Nat /\ z <= Lowest(fmt)
  BY <1>1
<1>3. m \in Nat /\ q \in Int /\ q >= Lowest(fmt) /\ n \in Nat /\ s \in Int /\ s >= Lowest(fmt)
  BY <1>2, GridNext
<1>4. z <= q /\ z <= s
  <2> HIDE DEF q, s
  <2> QED BY <1>1, <1>3
<1>5. A \in Nat /\ B \in Nat /\ (c < 0 <=> A < B) /\ (c = 0 <=> A = B) /\ (c > 0 <=> A > B)
  <2>1. m \in Nat /\ q \in Int /\ n \in Nat /\ s \in Int /\ z \in Int /\ z <= q /\ z <= s
    BY <1>3, <1>4
  <2> HIDE DEF m, q, n, s
  <2>2. /\ AtPlace(m, q, z) \in Nat /\ AtPlace(n, s, z) \in Nat
        /\ FP!Cmp(m, q, n, s) < 0 <=> AtPlace(m, q, z) < AtPlace(n, s, z)
        /\ FP!Cmp(m, q, n, s) = 0 <=> AtPlace(m, q, z) = AtPlace(n, s, z)
        /\ FP!Cmp(m, q, n, s) > 0 <=> AtPlace(m, q, z) > AtPlace(n, s, z)
    BY <2>1, CmpOrders
  <2> QED BY <2>2
<1>6. (a < b => c = -1) /\ (a = b => c = 0) /\ (a > b => c = 1)
  BY PatternsCompare
<1> HIDE DEF A, B, c
<1>7. (a < b <=> A < B) /\ (a = b <=> A = B)
  BY <1>2, <1>5, <1>6
<1> QED BY <1>5, <1>7 DEF Grid, A, B

(* Last places do not go down.                                             *)
LEMMA PlacesGrow ==
  ASSUME NEW fmt \in Formats, NEW a \in Nat
  PROVE  LastPlace(fmt, a) <= LastPlace(fmt, a + 1)
<1> DEFINE H == Hidden(fmt)
           b == a + 1
<1>1. H \in Nat \ {0} /\ Lowest(fmt) \in Int
  BY FormatPlaces
<1>2. PICK d \in Nat, k \in Nat :
        /\ k < 2 * H /\ (k >= H \/ d = 0) /\ a = d * H + k
        /\ Significand(fmt, a) = k /\ LastPlace(fmt, a) = d + Lowest(fmt)
  BY PutTogether
<1>3. b \in Nat
  OBVIOUS
<1>4. PICK e \in Nat, j \in Nat :
        /\ j < 2 * H /\ (j >= H \/ e = 0) /\ b = e * H + j
        /\ Significand(fmt, b) = j /\ LastPlace(fmt, b) = e + Lowest(fmt)
  <2> HIDE DEF b
  <2> QED BY <1>3, PutTogether
<1>5. d <= e
  <2> SUFFICES ASSUME e < d PROVE FALSE
    OBVIOUS
  <2>1. PICK i \in Nat : d = (e + 1) + i
    <3>1. d - (e + 1) \in Nat /\ d = (e + 1) + (d - (e + 1))
      OBVIOUS
    <3> QED BY <3>1
  <2>2. ((e + 1) + i) * H = e * H + H + i * H /\ e * H \in Nat /\ i * H \in Nat
    BY <1>1
  <2> DEFINE eH == e * H
             iH == i * H
  <2>3. a = eH + H + iH + k /\ b = eH + j /\ eH \in Nat /\ iH \in Nat /\ k >= H /\ j < 2 * H
    BY <1>2, <1>4, <2>1, <2>2
  <2> HIDE DEF eH, iH, H
  <2> QED BY <1>1, <2>3
<1> QED BY <1>1, <1>2, <1>4, <1>5

(* Which side of a pattern's number x is on, when it is packed elsewhere,  *)
(* and how far it is at most when not.                                     *)
LEMMA Sides ==
  ASSUME NEW fmt \in Formats, NEW x \in Floats, NEW z \in Int, z < Lowest(fmt), z <= x.q,
         NEW X, X = AtPlace(x.m, x.q, z), NEW b \in 0..FP!EXP(fmt), FP!NearestTo(fmt, x, b), NEW c \in 0..FP!EXP(fmt)
  PROVE  /\ X \in Nat
         /\ b < c => X < Grid(fmt, c, z)
         /\ b > c => X > Grid(fmt, c, z)
         /\ b # FP!EXP(fmt) => LET P == 2^(LastPlace(fmt, b) - z)
                            IN  2 * X <= 2 * Grid(fmt, b, z) + P /\ 2 * Grid(fmt, b, z) <= 2 * X + P
<1> DEFINE E == FP!EXP(fmt)
           lo == Mid(fmt, b - 1, z)
           hi == Mid(fmt, b, z)
<1>1. E \in Nat /\ FP!SIGN(fmt) \in Nat /\ E < FP!SIGN(fmt) /\ Lowest(fmt) \in Int
  <2>1. FP!EXP(fmt) \in Nat /\ FP!SIGN(fmt) = FP!EXP(fmt) + Hidden(fmt)
    BY FormatFacts
  <2>2. Hidden(fmt) \in Nat \ {0} /\ Lowest(fmt) \in Int
    BY FormatPlaces
  <2> QED BY <2>1, <2>2
<1>2. /\ X \in Nat
      /\ b # 0 => X > lo \/ (X = lo /\ b % 2 = 0)
      /\ b # E => X < hi \/ (X = hi /\ b % 2 = 0)
  <2>1. /\ X \in Nat
        /\ FP!NearestTo(fmt, x, b) <=>
             /\ b # 0 => X > lo \/ (X = lo /\ b % 2 = 0)
             /\ b # E => X < hi \/ (X = hi /\ b % 2 = 0)
    BY NearestAt
  <2> QED BY <2>1
<1>3. b \in Nat /\ c \in Nat /\ b <= E /\ c <= E
  BY <1>1
<1>4. ASSUME NEW i \in Nat, NEW j \in Nat, i <= j, j <= E
      PROVE  Grid(fmt, i, z) \in Nat /\ Grid(fmt, j, z) \in Nat /\ Grid(fmt, i, z) <= Grid(fmt, j, z)
  <2>1. i \in 0..(FP!SIGN(fmt) - 1) /\ j \in 0..(FP!SIGN(fmt) - 1)
    BY <1>1, <1>4
  <2> DEFINE A == Grid(fmt, i, z)
             B == Grid(fmt, j, z)
  <2>2. A \in Nat /\ B \in Nat /\ (i < j <=> A < B) /\ (i = j <=> A = B)
    BY <2>1, GridOrder
  <2> HIDE DEF A, B
  <2>3. A <= B
    BY <1>4, <2>2
  <2> QED BY <2>2, <2>3 DEF A, B
<1>5. ASSUME b < c PROVE X < Grid(fmt, c, z)
  <2>1. b # E /\ b + 1 \in Nat /\ b + 1 <= c
    BY <1>1, <1>3, <1>5
  <2>2. hi \in Nat /\ Grid(fmt, b + 1, z) \in Nat /\ hi < Grid(fmt, b + 1, z)
    BY <1>3, MiddleBetween
  <2>3. Grid(fmt, c, z) \in Nat /\ Grid(fmt, b + 1, z) <= Grid(fmt, c, z)
    <3> DEFINE n == b + 1
    <3>1. n \in Nat /\ n <= c
      BY <2>1
    <3> HIDE DEF n
    <3> QED BY <1>3, <1>4, <3>1 DEF n
  <2> HIDE DEF hi
  <2>4. X <= hi
    BY <1>2, <2>1, <2>2
  <2> QED BY <1>2, <2>2, <2>3, <2>4
<1>6. ASSUME b > c PROVE X > Grid(fmt, c, z)
  <2> DEFINE a == b - 1
  <2>1. b # 0 /\ a \in Nat /\ c <= a /\ a <= E
    BY <1>1, <1>3, <1>6
  <2> HIDE DEF a
  <2>2. Mid(fmt, a, z) \in Nat /\ Grid(fmt, a, z) \in Nat /\ Grid(fmt, a, z) < Mid(fmt, a, z)
    BY <2>1, MiddleBetween
  <2>3. Grid(fmt, c, z) \in Nat /\ Grid(fmt, c, z) <= Grid(fmt, a, z)
    BY <1>3, <1>4, <2>1
  <2>4. Mid(fmt, a, z) <= X
    BY <1>2, <2>1, <2>2 DEF a
  <2> QED BY <1>2, <2>2, <2>3, <2>4
<1>7. ASSUME b # E
      PROVE  LET P == 2^(LastPlace(fmt, b) - z)
             IN  2 * X <= 2 * Grid(fmt, b, z) + P /\ 2 * Grid(fmt, b, z) <= 2 * X + P
  <2> DEFINE P == 2^(LastPlace(fmt, b) - z)
             G == Grid(fmt, b, z)
  <2>1. G \in Nat /\ hi \in Nat /\ 2 * hi = 2 * G + P /\ P \in Nat
    <3>1. G \in Nat /\ hi \in Nat /\ 2 * hi = 2 * G + P
      BY <1>3, MiddleBetween
    <3>2. P \in Nat \ {0}
      <4>1. z <= Lowest(fmt)
        BY <1>1
      <4> QED BY <1>3, <4>1, GridNext
    <3> QED BY <3>1, <3>2
  <2>2. 2 * X <= 2 * G + P
    <3> HIDE DEF hi, G, P
    <3>1. X <= hi
      BY <1>2, <1>7, <2>1
    <3> QED BY <1>2, <2>1, <3>1
  <2>3. 2 * G <= 2 * X + P
    <3>1. CASE b = 0
      <4>1. G = 0
        <5>1. Significand(fmt, 0) = 0
          <6>1. 0 \in 0..(FP!SIGN(fmt) - 1)
            BY <1>1
          <6> QED BY <6>1, ZeroPattern
        <5>2. LastPlace(fmt, b) - z \in Nat
          <6>1. LastPlace(fmt, b) \in Int /\ LastPlace(fmt, b) >= Lowest(fmt)
            <7>1. z <= Lowest(fmt)
              BY <1>1
            <7> QED BY <1>3, <7>1, GridNext
          <6> QED BY <1>1, <6>1
        <5>3. 2^(LastPlace(fmt, b) - z) \in Nat
          BY <5>2, PowIsNat
        <5>4. 0 * 2^(LastPlace(fmt, b) - z) = 0
          BY <5>3
        <5> QED BY <3>1, <5>1, <5>4 DEF Grid, AtPlace
      <4> HIDE DEF G, P
      <4> QED BY <1>2, <2>1, <4>1
    <3>2. CASE b # 0
      <4> DEFINE a == b - 1
                 Q == 2^(LastPlace(fmt, a) - z)
                 M == Mid(fmt, a, z)
      <4>1. a \in Nat /\ a + 1 = b
        BY <1>3, <3>2
      <4> HIDE DEF a
      <4>2. M \in Nat /\ 2 * Grid(fmt, a + 1, z) = 2 * M + Q
        BY <4>1, MiddleBetween
      <4>3. 2 * G = 2 * M + Q
        BY <4>1, <4>2
      <4>4. Q \in Nat /\ Q <= P
        <5>1. /\ LastPlace(fmt, a) \in Int /\ LastPlace(fmt, a) >= Lowest(fmt) /\ LastPlace(fmt, b) \in Int
          <6>1. z <= Lowest(fmt)
            BY <1>1
          <6> QED BY <1>3, <4>1, <6>1, GridNext
        <5>2. LastPlace(fmt, a) <= LastPlace(fmt, b)
          BY <4>1, PlacesGrow
        <5> DEFINE n == LastPlace(fmt, a) - z
                   o == LastPlace(fmt, b) - z
        <5>3. n \in Nat /\ o \in Nat /\ n <= o
          BY <1>1, <5>1, <5>2
        <5> HIDE DEF n, o
        <5>4. 2^n \in Nat /\ 2^n <= 2^o
          BY <5>3, PowIsNat, PowMonotone
        <5> QED BY <5>4 DEF n, o
      <4>5. M <= X
        <5> HIDE DEF M
        <5>1. X > M \/ X = M
          BY <1>2, <3>2 DEF M, a
        <5> QED BY <1>2, <4>2, <5>1
      <4> HIDE DEF G, M, P, Q
      <4> QED BY <1>2, <2>1, <4>2, <4>3, <4>4, <4>5
    <3> QED BY <3>1, <3>2
  <2> QED BY <2>2, <2>3
<1> QED BY <1>2, <1>5, <1>6, <1>7

(* Packing what was unpacked gives the pattern back.                       *)
LEMMA Repacked ==
  ASSUME NEW fmt \in Formats, NEW a \in 0..(FP!EXP(fmt) - 1), NEW y \in Floats,
         y.m = Significand(fmt, a), y.q = LastPlace(fmt, a)
  PROVE  FP!Pack(fmt, y) = a
<1> DEFINE E == FP!EXP(fmt)
           b == FP!Pack(fmt, y)
<1>1. E \in Nat \ {0} /\ b \in 0..E /\ a \in 0..E /\ a \in Nat /\ Lowest(fmt) \in Int
  <2>1. FP!EXP(fmt) \in Nat \ {0} /\ FP!Pack(fmt, y) \in 0..FP!EXP(fmt) /\ Lowest(fmt) \in Int
    BY FormatFacts, PackType, FormatPlaces
  <2> QED BY <2>1
<1>2. PICK z \in Int : z < Lowest(fmt)
  BY <1>1, LowPlace
<1>3. LastPlace(fmt, a) \in Int /\ LastPlace(fmt, a) >= Lowest(fmt)
  <2>1. z <= Lowest(fmt)
    BY <1>1, <1>2
  <2> QED BY <1>1, <1>2, <2>1, GridNext
<1>4. z <= y.q
  BY <1>1, <1>2, <1>3
<1> DEFINE X == AtPlace(y.m, y.q, z)
<1>5. X = Grid(fmt, a, z)
  BY DEF Grid
<1>6. FP!NearestTo(fmt, y, b)
  BY PackNearest
<1>7. /\ X \in Nat
      /\ b < a => X < Grid(fmt, a, z)
      /\ b > a => X > Grid(fmt, a, z)
  <2> HIDE DEF b
  <2> QED BY <1>1, <1>2, <1>4, <1>6, Sides
<1> HIDE DEF b, X
<1>8. ~(b < a) /\ ~(b > a)
  BY <1>5, <1>7
<1>9. b = a
  BY <1>1, <1>8
<1> QED BY <1>9 DEF b

(* What is packed, without its sign.                                       *)
LEMMA PackedMagnitude ==
  ASSUME NEW fmt \in Formats, NEW x \in Floats, ~FP!isnan(x), ~FP!isinf(x)
  PROVE  /\ FP!Abs(fmt, FP!f2b(fmt, x)) = FP!Pack(fmt, x) /\ FP!Pack(fmt, x) \in 0..FP!EXP(fmt)
         /\ FP!f2b(fmt, x) \in FP!Patterns(fmt) /\ (FP!f2b(fmt, x) >= FP!SIGN(fmt) <=> x.neg)
<1>1. FP!Pack(fmt, x) \in 0..FP!EXP(fmt) /\ FP!EXP(fmt) \in Nat /\ FP!SIGN(fmt) = FP!EXP(fmt) + Hidden(fmt) /\ Hidden(fmt) \in Nat \ {0}
  BY PackType, FormatFacts, FormatPlaces
<1>2. FP!Pack(fmt, x) \in 0..(FP!SIGN(fmt) - 1)
  BY <1>1
<1>3. x.neg \in BOOLEAN
  BY FloatFacts
<1>4. FP!f2b(fmt, x) = (IF x.neg THEN FP!SIGN(fmt) ELSE 0) + FP!Pack(fmt, x)
  BY DEF FP!f2b
<1>5. FP!f2b(fmt, x) = FP!Pack(fmt, x) + IF x.neg THEN FP!SIGN(fmt) ELSE 0
  BY <1>1, <1>4
<1> QED BY <1>1, <1>2, <1>3, <1>5, UnderASign

(* A Python float is its own number, if there is one for the result.       *)
LEMMA PyFloatIs ==
  ASSUME NEW x \in Floats, ~FP!isnan(x), ~FP!isinf(x), NEW b, b = FP!Pack(FP!F64, x), NEW y, y = FP!PyFloat(x)
  PROVE  /\ y \in Floats /\ y.neg = x.neg /\ ~FP!isnan(y) /\ b \in 0..FP!EXP(FP!F64)
         /\ b = FP!EXP(FP!F64) <=> FP!isinf(y)
         /\ b # FP!EXP(FP!F64) => y = FP!Num(x.neg, Significand(FP!F64, b), LastPlace(FP!F64, b))
<1>1. FP!F64 \in Formats
  BY DEF Formats
<1> DEFINE u == FP!f2b(FP!F64, x)
<1>2. FP!Abs(FP!F64, u) = b /\ b \in 0..FP!EXP(FP!F64) /\ u \in FP!Patterns(FP!F64) /\ (u >= FP!SIGN(FP!F64) <=> x.neg)
  BY <1>1, PackedMagnitude
<1>3. x.neg \in BOOLEAN /\ FP!EXP(FP!F64) \in Nat
  BY <1>1, FloatFacts, FormatFacts
<1>4. (u >= FP!SIGN(FP!F64)) = x.neg
  BY <1>2, <1>3
<1>5. y = FP!b2f(FP!F64, u)
  BY DEF FP!PyFloat
<1>6. y \in Floats /\ ~FP!isnan(y) /\ y.neg = x.neg
  BY Coded
<1> HIDE DEF u
<1>7. /\ b = FP!EXP(FP!F64) => y = FP!Inf(x.neg)
      /\ b < FP!EXP(FP!F64) => y = FP!Num(x.neg, Significand(FP!F64, b), LastPlace(FP!F64, b))
  BY <1>1, <1>2, <1>4, <1>5, Unpacked
<1>8. b = FP!EXP(FP!F64) => FP!isinf(y)
  BY <1>7 DEF FP!Inf, FP!isinf
<1>9. b # FP!EXP(FP!F64) => y = FP!Num(x.neg, Significand(FP!F64, b), LastPlace(FP!F64, b)) /\ ~FP!isinf(y)
  <2> SUFFICES ASSUME b # FP!EXP(FP!F64)
      PROVE y = FP!Num(x.neg, Significand(FP!F64, b), LastPlace(FP!F64, b)) /\ ~FP!isinf(y)
    OBVIOUS
  <2>1. b < FP!EXP(FP!F64)
    BY <1>2, <1>3
  <2> QED BY <1>7, <2>1 DEF FP!Num, FP!isinf
<1> QED BY <1>2, <1>6, <1>8, <1>9

(* The last place of the wide format at a narrow middle.                   *)
WidePlace(b) == (FP!Middle(FP!F32, b).q + FP!bit_length(FP!Middle(FP!F32, b).m)) - P2

(* A number rounded to the wide format does not land on a narrow middle    *)
(* unless it was there.                                                    *)
HitsMiddles(m, q) ==
  \A b \in 0..(FP!EXP(FP!F32) - 1) : \A z \in Int :
    LET X == AtPlace(m, q, z)
        M == Mid(FP!F32, b, z)
        P == 2^(WidePlace(b) - z)
    IN  z <= q /\ z < Lowest(FP!F32) /\ z < Lowest(FP!F64) /\ 2 * X <= 2 * M + P /\ 2 * M <= 2 * X + P => X = M

(* How wide the formats are.                                               *)
LEMMA Widths ==
  /\ FP!F32 \in Formats /\ FP!F64 \in Formats /\ FP!F32.p = P1 /\ FP!F64.p = P2 /\ FP!F32.e = E1 /\ FP!F64.e = E2
  /\ P1 \in Nat /\ P1 > 1 /\ P2 \in Nat /\ P2 >= 2 * P1 + 2
  /\ 2^(E1 - 1) \in Nat /\ 2^(E2 - 1) \in Nat /\ P1 < 2^(E1 - 1) /\ 2 * 2^(E1 - 1) <= 2^(E2 - 1)
  /\ 2^E1 = 2 * 2^(E1 - 1) /\ 2^E2 = 2 * 2^(E2 - 1)
  /\ Lowest(FP!F32) \in Int /\ Lowest(FP!F64) \in Int
  /\ Lowest(FP!F32) = 3 - 2^(E1 - 1) - P1 /\ Lowest(FP!F64) = 3 - 2^(E2 - 1) - P2
<1>1. FP!F32 \in Formats /\ FP!F64 \in Formats /\ FP!F32.p = P1 /\ FP!F64.p = P2 /\ FP!F32.e = E1 /\ FP!F64.e = E2
  BY DEF Formats, FP!F32, FP!F64
<1>2. P1 \in Nat /\ P1 > 1 /\ P2 \in Nat /\ P2 >= 2 * P1 + 2 /\ E1 \in Nat \ {0} /\ E2 \in Nat /\ E2 > E1
  BY FormatAssumption DEF FP!FormatAssumption
<1>3. 2^(E1 - 1) \in Nat /\ 2^(E2 - 1) \in Nat /\ P1 < 2^(E1 - 1) /\ Lowest(FP!F32) \in Int /\ Lowest(FP!F64) \in Int
  BY <1>1, FormatPlaces, FormatBounds
<1>4. 2^E1 = 2 * 2^(E1 - 1) /\ 2^E2 = 2 * 2^(E2 - 1) /\ 2 * 2^(E1 - 1) <= 2^(E2 - 1)
  <2> DEFINE f == E1 - 1
             g == E2 - 1
  <2>1. f \in Nat /\ g \in Nat /\ f + 1 = E1 /\ g + 1 = E2 /\ E1 <= g
    BY <1>2
  <2> HIDE DEF f, g
  <2>2. 2^(f + 1) = 2 * 2^f /\ 2^(g + 1) = 2 * 2^g /\ 2^E1 <= 2^g
    BY <1>2, <2>1, PowNext, PowMonotone
  <2> QED BY <2>1, <2>2 DEF f, g
<1>5. Lowest(FP!F32) = 3 - 2^(E1 - 1) - P1 /\ Lowest(FP!F64) = 3 - 2^(E2 - 1) - P2
  BY <1>1 DEF Lowest
<1> QED BY <1>1, <1>2, <1>3, <1>4, <1>5

(* A narrow middle has few bits and is odd.                                *)
LEMMA MiddleFacts ==
  ASSUME NEW b \in 0..(FP!EXP(FP!F32) - 1)
  PROVE  LET M == FP!Middle(FP!F32, b)
             l == FP!bit_length(M.m)
         IN  /\ b \in Nat /\ M.m \in Nat \ {0} /\ M.m % 2 = 1 /\ M.m < 2^(P1 + 1)
             /\ l \in Nat \ {0} /\ l <= P1 + 1
             /\ M.q \in Int /\ M.q >= Lowest(FP!F32) - 1 /\ M.q <= 2^(E1 - 1) - P1 - 1
             /\ M.q = Lowest(FP!F32) - 1 \/ M.m > 2^P1
<1> DEFINE M == FP!Middle(FP!F32, b)
           s == Significand(FP!F32, b)
           q == LastPlace(FP!F32, b)
           H == Hidden(FP!F32)
<1>1. H \in Nat \ {0} /\ 2^P1 = 2 * H /\ FP!EXP(FP!F32) \in Nat /\ FP!SIGN(FP!F32) = FP!EXP(FP!F32) + H /\ FP!EXP(FP!F32) = H * (2^E1 - 1)
  BY Widths, FormatPlaces, FormatFacts
<1>2. b \in Nat /\ b \in 0..(FP!SIGN(FP!F32) - 1) /\ b < FP!EXP(FP!F32)
  <2> HIDE DEF H
  <2> QED BY <1>1
<1>3. s \in Nat /\ q \in Int /\ q >= Lowest(FP!F32)
  <2>1. PICK z \in Int : z < Lowest(FP!F32)
    BY Widths, LowPlace
  <2>2. z <= Lowest(FP!F32)
    BY <2>1, Widths
  <2> QED BY <1>2, <2>2, Widths, GridNext
<1>4. M.m = 2 * s + 1 /\ M.q = q - 1
  <2>1. PICK z \in Int : z < Lowest(FP!F32)
    BY Widths, LowPlace
  <2> QED BY <1>2, <2>1, Widths, GridMiddle
<1>5. s < 2^P1
  BY <1>2, Widths, SignificandFits
<1>6. 2^(P1 + 1) = 2 * 2^P1 /\ P1 \in Nat /\ P1 + 1 \in Nat
  BY Widths, PowNext
<1>7. q = Lowest(FP!F32) \/ s >= H
  <2>1. PICK d \in Nat, k \in Nat :
          (k >= Hidden(FP!F32) \/ d = 0) /\ Significand(FP!F32, b) = k /\ LastPlace(FP!F32, b) = d + Lowest(FP!F32)
    BY <1>2, Widths, PutTogether
  <2> QED BY <2>1, Widths
<1>8. q <= 2^(E1 - 1) - P1
  <2> DEFINE x == Exponent(FP!F32, b)
             e == IF x = 0 THEN 1 ELSE x
             B == 2^(E1 - 1)
  <2>1. x \in 0..(2^E1 - 1) /\ x # 2^E1 - 1
    <3>1. x \in 0..(2^E1 - 1) /\ ((x = 2^E1 - 1) = (b >= FP!EXP(FP!F32)))
      BY <1>2, Widths, FieldFacts
    <3>2. ~(b >= FP!EXP(FP!F32))
      BY <1>1, <1>2
    <3> QED BY <3>1, <3>2
  <2>2. 2^E1 = 2 * B /\ B \in Nat /\ B > 1
    BY Widths
  <2>3. e \in Int /\ e <= 2 * B - 2
    <3>1. x \in Nat /\ x <= 2 * B - 2
      <4> HIDE DEF x, B
      <4> QED BY <2>1, <2>2
    <3> HIDE DEF x, B
    <3> QED BY <2>2, <3>1
  <2>4. q = e + 1 - (B - 1) - P1
    BY Widths DEF LastPlace
  <2> HIDE DEF e, B, q
  <2>5. q <= B - P1
    BY <1>3, <1>6, <2>2, <2>3, <2>4
  <2> QED BY <2>5 DEF q, B
<1> HIDE DEF M, s, q, H
<1>9. M.m \in Nat \ {0} /\ M.m % 2 = 1 /\ M.m < 2^(P1 + 1) /\ (q = Lowest(FP!F32) \/ M.m > 2^P1)
  <2>1. 2 * s + 1 \in Nat \ {0} /\ (2 * s + 1) % 2 = 1
    BY <1>3
  <2> DEFINE A == 2^P1
             B == 2^(P1 + 1)
  <2>2. A = 2 * H /\ B = 2 * A /\ s < A
    BY <1>1, <1>5, <1>6
  <2> HIDE DEF A, B
  <2>3. 2 * s + 1 < B /\ (s >= H => 2 * s + 1 > A)
    BY <1>1, <1>3, <2>2
  <2> QED BY <1>4, <1>7, <2>1, <2>3 DEF A, B
<1>10. LET l == FP!bit_length(M.m) IN l \in Nat \ {0} /\ l <= P1 + 1
  <2> DEFINE m == M.m
  <2>1. m \in Nat \ {0} /\ m \in Nat /\ m < 2^(P1 + 1) /\ 0 \in Int /\ 0 <= 0
    BY <1>9
  <2> HIDE DEF m
  <2>2. FP!bit_length(m) \in Nat \ {0}
    BY <2>1, LengthAt
  <2>3. FP!bit_length(m) <= P1 + 1
    BY <1>6, <2>1, LengthBelow
  <2> QED BY <2>2, <2>3 DEF m
<1>11. M.q \in Int /\ M.q >= Lowest(FP!F32) - 1 /\ M.q <= 2^(E1 - 1) - P1 - 1
       /\ (M.q = Lowest(FP!F32) - 1 \/ M.m > 2^P1)
  <2> DEFINE B == 2^(E1 - 1)
             w == Lowest(FP!F32)
  <2>1. B \in Nat /\ P1 \in Nat /\ w \in Int /\ q >= w /\ q <= B - P1 /\ (q = w \/ M.m > 2^P1)
    BY <1>3, <1>8, <1>9, Widths
  <2> HIDE DEF B, w
  <2>2. q - 1 \in Int /\ q - 1 >= w - 1 /\ q - 1 <= B - P1 - 1 /\ (q - 1 = w - 1 \/ M.m > 2^P1)
    BY <1>3, <2>1
  <2> QED BY <1>4, <2>2 DEF B, w
<1> QED BY <1>2, <1>9, <1>10, <1>11 DEF M

(* Every narrow middle is a number of the wide format.                     *)
LEMMA MiddleIsPattern ==
  ASSUME NEW b \in 0..(FP!EXP(FP!F32) - 1)
  PROVE  \E c \in 0..(FP!EXP(FP!F64) - 1) :
           /\ LastPlace(FP!F64, c) = WidePlace(b)
           /\ \A z \in Int : z < Lowest(FP!F32) /\ z < Lowest(FP!F64) => Grid(FP!F64, c, z) = Mid(FP!F32, b, z)
<1> DEFINE M == FP!Middle(FP!F32, b)
           m == M.m
           s == M.q
           l == FP!bit_length(m)
           k == m * 2^(P2 - l)
           w == Lowest(FP!F64)
           T == (s + l) - P2
           d == T - w
<1>1. /\ m \in Nat \ {0} /\ l \in Nat \ {0} /\ l <= P1 + 1 /\ s \in Int /\ s >= Lowest(FP!F32) - 1
      /\ s <= 2^(E1 - 1) - P1 - 1
  BY MiddleFacts
<1> HIDE DEF m, s, l, M
<1>2. P2 - l \in Nat /\ T \in Int
  BY <1>1, Widths
<1>3. k \in Nat \ {0} /\ FP!bit_length(k) = P2
  <2> DEFINE n == P2 - l
  <2>1. n \in Nat /\ l + n = P2
    BY <1>1, <1>2, Widths
  <2> HIDE DEF n
  <2>2. m * 2^n \in Nat \ {0} /\ FP!bit_length(m * 2^n) = FP!bit_length(m) + n
    BY <1>1, <2>1, LengthScaled
  <2> QED BY <2>1, <2>2 DEF n, l
<1>4. d \in Nat /\ d + 2 < 2^E2
  <2> DEFINE A == 2^(E1 - 1)
             B == 2^(E2 - 1)
             R == 2^E2
             v == Lowest(FP!F32)
  <2>1. /\ A \in Nat /\ B \in Nat /\ R = 2 * B /\ 2 * A <= B /\ P1 \in Nat /\ P2 \in Nat /\ P1 < A
        /\ v = 3 - A - P1 /\ w = 3 - B - P2 /\ v \in Int /\ w \in Int /\ s >= v - 1 /\ s <= A - P1 - 1
    BY <1>1, Widths
  <2> HIDE DEF A, B, R, v, w
  <2>2. d \in Int /\ d >= 0
    BY <1>1, <2>1
  <2>3. d + 2 < R
    BY <1>1, <2>1
  <2> QED BY <2>2, <2>3 DEF R
<1> DEFINE c == d * Hidden(FP!F64) + k
<1>5. c \in 0..(FP!SIGN(FP!F64) - 1) /\ c < FP!EXP(FP!F64) /\ Significand(FP!F64, c) = k /\ LastPlace(FP!F64, c) = d + w
  <2> HIDE DEF d, k
  <2>1. FP!F64 \in Formats /\ FP!bit_length(k) = FP!F64.p /\ d + 2 < 2^FP!F64.e
    BY <1>3, <1>4, Widths
  <2> QED BY <1>3, <1>4, <2>1, Normal
<1>6. c \in 0..(FP!EXP(FP!F64) - 1)
  <2>1. FP!EXP(FP!F64) \in Nat /\ FP!SIGN(FP!F64) \in Nat
    BY Widths, FormatFacts
  <2> HIDE DEF c
  <2> QED BY <1>5, <2>1
<1>7. d + w = T
  BY <1>2, Widths
<1>8. LastPlace(FP!F64, c) = WidePlace(b)
  BY <1>5, <1>7 DEF WidePlace, s, l, m, M
<1>9. ASSUME NEW z \in Int, z < Lowest(FP!F32), z < Lowest(FP!F64)
      PROVE  Grid(FP!F64, c, z) = Mid(FP!F32, b, z)
  <2> DEFINE i == P2 - l
             j == T - z
  <2>1. i \in Nat /\ j \in Nat /\ s - z = i + j
    <3>1. w \in Int /\ z < w /\ P2 \in Nat
      BY <1>9, Widths
    <3> HIDE DEF w
    <3>2. T \in Int /\ T >= w
      <4>1. d >= 0
        BY <1>4
      <4> QED BY <1>2, <3>1, <4>1
    <3> QED BY <1>1, <1>2, <3>1, <3>2
  <2>2. Grid(FP!F64, c, z) = (m * 2^i) * 2^j
    BY <1>5, <1>7 DEF Grid, AtPlace
  <2>3. Mid(FP!F32, b, z) = m * 2^(s - z)
    BY DEF Mid, AtPlace, m, s, M
  <2> HIDE DEF i, j, c, k
  <2>4. 2^(i + j) = 2^i * 2^j /\ 2^i \in Nat /\ 2^j \in Nat
    BY <2>1, PowSum, PowIsNat
  <2>5. (m * 2^i) * 2^j = m * (2^i * 2^j)
    <3> DEFINE I == 2^i
               J == 2^j
    <3>1. I \in Nat /\ J \in Nat
      BY <2>4
    <3> HIDE DEF I, J
    <3>2. (m * I) * J = m * (I * J)
      BY <1>1, <3>1
    <3> QED BY <3>2 DEF I, J
  <2> QED BY <2>1, <2>2, <2>3, <2>4, <2>5
<1> HIDE DEF c
<1> QED BY <1>6, <1>8, <1>9

(* A result that is the nearest pattern to x, with its sign.               *)
RoundedOnce(fmt, x, res) ==
  /\ res \in FP!Patterns(fmt) /\ (res >= FP!SIGN(fmt) <=> x.neg)
  /\ FP!NearestTo(fmt, x, FP!Abs(fmt, res))

(* Rounded to the wide format, a number is on the side of every narrow     *)
(* middle it was on.                                                       *)
LEMMA SidesKept ==
  ASSUME NEW x \in Floats, HitsMiddles(x.m, x.q), NEW b, b = FP!Pack(FP!F64, x),
         NEW z \in Int, z < Lowest(FP!F32), z < Lowest(FP!F64), z <= x.q,
         NEW a \in 0..(FP!EXP(FP!F32) - 1)
  PROVE  LET X == AtPlace(x.m, x.q, z)
             M == Mid(FP!F32, a, z)
             Y == Grid(FP!F64, b, z)
         IN  /\ X \in Nat /\ Y \in Nat /\ M \in Nat
             /\ b = FP!EXP(FP!F64) => X > M
             /\ b # FP!EXP(FP!F64) => (X < M <=> Y < M) /\ (X = M <=> Y = M)
<1> DEFINE X == AtPlace(x.m, x.q, z)
           M == Mid(FP!F32, a, z)
           Y == Grid(FP!F64, b, z)
           E == FP!EXP(FP!F64)
<1>1. FP!F64 \in Formats /\ E \in Nat \ {0} /\ FP!SIGN(FP!F64) \in Nat /\ E < FP!SIGN(FP!F64)
  <2>1. FP!F64 \in Formats
    BY Widths
  <2>2. FP!EXP(FP!F64) \in Nat \ {0} /\ FP!SIGN(FP!F64) = FP!EXP(FP!F64) + Hidden(FP!F64) /\ Hidden(FP!F64) \in Nat \ {0}
    BY <2>1, FormatFacts, FormatPlaces
  <2> QED BY <2>1, <2>2
<1>2. PICK c \in 0..(E - 1) :
        /\ LastPlace(FP!F64, c) = WidePlace(a)
        /\ \A w \in Int : w < Lowest(FP!F32) /\ w < Lowest(FP!F64) => Grid(FP!F64, c, w) = Mid(FP!F32, a, w)
  BY MiddleIsPattern
<1>3. b \in 0..E /\ FP!NearestTo(FP!F64, x, b)
  BY <1>1, PackType, PackNearest
<1>4. c \in 0..E /\ c # E /\ c \in 0..(FP!SIGN(FP!F64) - 1) /\ b \in 0..(FP!SIGN(FP!F64) - 1) /\ b \in Nat /\ c \in Nat
  BY <1>1, <1>3
<1>5. M = Grid(FP!F64, c, z)
  BY <1>2
<1>6. /\ X \in Nat
      /\ b < c => X < Grid(FP!F64, c, z)
      /\ b > c => X > Grid(FP!F64, c, z)
      /\ b # E => LET P == 2^(LastPlace(FP!F64, b) - z)
                  IN  2 * X <= 2 * Grid(FP!F64, b, z) + P /\ 2 * Grid(FP!F64, b, z) <= 2 * X + P
  <2> HIDE DEF E
  <2>1. x \in Floats /\ z \in Int /\ z < Lowest(FP!F64) /\ z <= x.q /\ X = AtPlace(x.m, x.q, z)
    OBVIOUS
  <2> HIDE DEF X
  <2> QED BY <1>1, <1>3, <1>4, <2>1, Sides DEF E
<1>7. /\ Y \in Nat /\ Grid(FP!F64, c, z) \in Nat
      /\ b < c <=> Y < Grid(FP!F64, c, z)
      /\ b = c <=> Y = Grid(FP!F64, c, z)
  BY <1>1, <1>4, GridOrder
<1>8. b = c => X = M
  <2> SUFFICES ASSUME b = c PROVE X = M
    OBVIOUS
  <2>1. LET P == 2^(WidePlace(a) - z)
        IN  2 * X <= 2 * M + P /\ 2 * M <= 2 * X + P
    BY <1>2, <1>4, <1>5, <1>6
  <2>2. z <= x.q /\ z < Lowest(FP!F32) /\ z < Lowest(FP!F64)
    OBVIOUS
  <2> QED BY <2>1, <2>2 DEF HitsMiddles
<1> HIDE DEF X, M, Y, E
<1>9. X \in Nat /\ Y \in Nat /\ M \in Nat
  BY <1>5, <1>6, <1>7
<1>10. b = E => X > M
  <2>1. b = E => b > c
    BY <1>1, <1>2
  <2> QED BY <1>5, <1>6, <2>1
<1>11. (X < M <=> Y < M) /\ (X = M <=> Y = M)
  <2>1. CASE b < c
    BY <1>4, <1>5, <1>6, <1>7, <1>9, <2>1
  <2>2. CASE b = c
    BY <1>4, <1>5, <1>7, <1>8, <1>9, <2>2
  <2>3. CASE b > c
    BY <1>4, <1>5, <1>6, <1>7, <1>9, <2>3
  <2> QED BY <1>4, <2>1, <2>2, <2>3
<1> QED BY <1>9, <1>10, <1>11 DEF X, M, Y, E

(* Rounding to the wide format first does no harm to what does not land on *)
(* a middle.                                                               *)
LEMMA RoundsTwice ==
  ASSUME NEW x \in Floats, ~FP!isnan(x), ~FP!isinf(x), HitsMiddles(x.m, x.q)
  PROVE  RoundedOnce(FP!F32, x, FP!f2b(FP!F32, FP!PyFloat(x)))
<1> DEFINE y == FP!PyFloat(x)
           b == FP!Pack(FP!F64, x)
           res == FP!f2b(FP!F32, y)
           E == FP!EXP(FP!F32)
<1>1. FP!F32 \in Formats /\ FP!F64 \in Formats /\ Lowest(FP!F32) \in Int /\ Lowest(FP!F64) \in Int /\ x.q \in Int
  BY Widths, FloatFacts
<1>2. E \in Nat \ {0}
  BY <1>1, FormatFacts
<1>3. PICK z \in Int : z < Lowest(FP!F32) /\ z < Lowest(FP!F64) /\ z <= x.q
  BY <1>1, LowPlace
<1>4. /\ y \in Floats /\ y.neg = x.neg /\ ~FP!isnan(y) /\ b \in 0..FP!EXP(FP!F64)
      /\ b = FP!EXP(FP!F64) <=> FP!isinf(y)
      /\ b # FP!EXP(FP!F64) => y = FP!Num(x.neg, Significand(FP!F64, b), LastPlace(FP!F64, b))
  BY PyFloatIs
<1>5. res \in FP!Patterns(FP!F32) /\ (res >= FP!SIGN(FP!F32) <=> x.neg) /\ (FP!isinf(y) => FP!Abs(FP!F32, res) = E)
  <2> HIDE DEF y
  <2>1. /\ FP!f2b(FP!F32, y) \in FP!Patterns(FP!F32)
        /\ ~FP!isnan(y) => (FP!f2b(FP!F32, y) >= FP!SIGN(FP!F32) <=> y.neg)
        /\ FP!isinf(y) => FP!Abs(FP!F32, FP!f2b(FP!F32, y)) = FP!EXP(FP!F32)
    BY <1>1, <1>4, Packed
  <2> QED BY <1>4, <2>1
<1> DEFINE X == AtPlace(x.m, x.q, z)
<1>6. ASSUME NEW a \in 0..(E - 1)
      PROVE  LET M == Mid(FP!F32, a, z)
                 Y == Grid(FP!F64, b, z)
             IN  /\ X \in Nat /\ Y \in Nat /\ M \in Nat
                 /\ b = FP!EXP(FP!F64) => X > M
                 /\ b # FP!EXP(FP!F64) => (X < M <=> Y < M) /\ (X = M <=> Y = M)
  <2> HIDE DEF b
  <2>1. b = FP!Pack(FP!F64, x)
    BY DEF b
  <2> QED BY <1>3, <2>1, SidesKept
<1>7. ASSUME NEW e \in 0..E
      PROVE  /\ X \in Nat
             /\ FP!NearestTo(FP!F32, x, e) <=>
                  /\ e # 0 => X > Mid(FP!F32, e - 1, z) \/ (X = Mid(FP!F32, e - 1, z) /\ e % 2 = 0)
                  /\ e # E => X < Mid(FP!F32, e, z) \/ (X = Mid(FP!F32, e, z) /\ e % 2 = 0)
  BY <1>1, <1>3, NearestAt
<1> HIDE DEF X, b, y
<1>8. CASE b = FP!EXP(FP!F64)
  <2> DEFINE e == E
  <2>1. E \in 0..E /\ E - 1 \in 0..(E - 1)
    BY <1>2
  <2>2. X > Mid(FP!F32, E - 1, z)
    BY <1>6, <1>8, <2>1
  <2>3. FP!NearestTo(FP!F32, x, E) <=>
          /\ E # 0 => X > Mid(FP!F32, E - 1, z) \/ (X = Mid(FP!F32, E - 1, z) /\ E % 2 = 0)
          /\ E # E => X < Mid(FP!F32, E, z) \/ (X = Mid(FP!F32, E, z) /\ E % 2 = 0)
    BY <1>7, <2>1
  <2>4. FP!NearestTo(FP!F32, x, E)
    BY <2>2, <2>3
  <2>5. FP!Abs(FP!F32, res) = E
    BY <1>4, <1>5, <1>8
  <2> HIDE DEF res
  <2> QED BY <1>5, <2>4, <2>5 DEF RoundedOnce, res, y
<1>9. CASE b # FP!EXP(FP!F64)
  <2> DEFINE e == FP!Pack(FP!F32, y)
             Y == AtPlace(y.m, y.q, z)
  <2>1. y.m = Significand(FP!F64, b) /\ y.q = LastPlace(FP!F64, b) /\ ~FP!isinf(y)
    BY <1>4, <1>9 DEF FP!Num
  <2>2. Y = Grid(FP!F64, b, z)
    BY <2>1 DEF Grid
  <2>3. e \in 0..E /\ FP!Abs(FP!F32, res) = e
    BY <1>1, <1>4, <2>1, PackedMagnitude
  <2>4. FP!NearestTo(FP!F32, y, e)
    BY <1>1, <1>4, PackNearest
  <2>5. z <= y.q
    <3>1. b \in Nat
      <4>1. FP!EXP(FP!F64) \in Nat
        BY <1>1, FormatFacts
      <4> QED BY <1>4, <4>1
    <3>2. LastPlace(FP!F64, b) \in Int /\ LastPlace(FP!F64, b) >= Lowest(FP!F64)
      <4>1. z <= Lowest(FP!F64)
        BY <1>1, <1>3
      <4> QED BY <1>1, <3>1, <4>1, GridNext
    <3> QED BY <1>1, <1>3, <2>1, <3>2
  <2>6. /\ Y \in Nat
        /\ FP!NearestTo(FP!F32, y, e) <=>
             /\ e # 0 => Y > Mid(FP!F32, e - 1, z) \/ (Y = Mid(FP!F32, e - 1, z) /\ e % 2 = 0)
             /\ e # E => Y < Mid(FP!F32, e, z) \/ (Y = Mid(FP!F32, e, z) /\ e % 2 = 0)
    <3> HIDE DEF e
    <3> QED BY <1>1, <1>3, <1>4, <2>3, <2>5, NearestAt
  <2>7. ASSUME NEW a \in 0..(E - 1)
        PROVE  /\ Mid(FP!F32, a, z) \in Nat /\ X \in Nat /\ Y \in Nat
               /\ (X < Mid(FP!F32, a, z) <=> Y < Mid(FP!F32, a, z)) /\ (X = Mid(FP!F32, a, z) <=> Y = Mid(FP!F32, a, z))
    BY <1>6, <1>9, <2>2
  <2> HIDE DEF e, Y, res, E
  <2>8. e # 0 => (X > Mid(FP!F32, e - 1, z) <=> Y > Mid(FP!F32, e - 1, z)) /\ (X = Mid(FP!F32, e - 1, z) <=> Y = Mid(FP!F32, e - 1, z))
    <3> SUFFICES ASSUME e # 0
        PROVE (X > Mid(FP!F32, e - 1, z) <=> Y > Mid(FP!F32, e - 1, z)) /\ (X = Mid(FP!F32, e - 1, z) <=> Y = Mid(FP!F32, e - 1, z))
      OBVIOUS
    <3> DEFINE a == e - 1
    <3>1. a \in 0..(E - 1)
      BY <1>2, <2>3
    <3> HIDE DEF a
    <3> DEFINE M == Mid(FP!F32, a, z)
    <3>2. M \in Nat /\ X \in Nat /\ Y \in Nat /\ (X < M <=> Y < M) /\ (X = M <=> Y = M)
      BY <2>7, <3>1
    <3> HIDE DEF M
    <3>3. (X > M <=> Y > M) /\ (X = M <=> Y = M)
      BY <3>2
    <3> QED BY <3>3 DEF M, a
  <2>9. e # E => (X < Mid(FP!F32, e, z) <=> Y < Mid(FP!F32, e, z)) /\ (X = Mid(FP!F32, e, z) <=> Y = Mid(FP!F32, e, z))
    <3>1. e # E => e \in 0..(E - 1)
      BY <1>2, <2>3
    <3> QED BY <2>7, <3>1
  <2>10. FP!NearestTo(FP!F32, x, e) <=>
             /\ e # 0 => X > Mid(FP!F32, e - 1, z) \/ (X = Mid(FP!F32, e - 1, z) /\ e % 2 = 0)
             /\ e # E => X < Mid(FP!F32, e, z) \/ (X = Mid(FP!F32, e, z) /\ e % 2 = 0)
    BY <1>7, <2>3
  <2>11. FP!NearestTo(FP!F32, x, e)
    BY <2>4, <2>6, <2>8, <2>9, <2>10
  <2>12. FP!NearestTo(FP!F32, x, FP!Abs(FP!F32, res))
    BY <2>3, <2>11
  <2> QED BY <1>5, <2>12 DEF RoundedOnce, res, y
<1> QED BY <1>8, <1>9

(* In the wide format the second time changes nothing.                     *)
LEMMA RoundsWide ==
  ASSUME NEW x \in Floats, ~FP!isnan(x), ~FP!isinf(x)
  PROVE  RoundedOnce(FP!F64, x, FP!f2b(FP!F64, FP!PyFloat(x)))
<1> DEFINE y == FP!PyFloat(x)
           b == FP!Pack(FP!F64, x)
           res == FP!f2b(FP!F64, y)
           E == FP!EXP(FP!F64)
<1>1. FP!F64 \in Formats /\ E \in Nat
  BY Widths, FormatFacts
<1>2. /\ y \in Floats /\ y.neg = x.neg /\ ~FP!isnan(y) /\ b \in 0..E
      /\ b = E <=> FP!isinf(y)
      /\ b # E => y = FP!Num(x.neg, Significand(FP!F64, b), LastPlace(FP!F64, b))
  BY PyFloatIs
<1>3. FP!NearestTo(FP!F64, x, b)
  BY <1>1, PackNearest
<1> HIDE DEF y, b
<1>4. res \in FP!Patterns(FP!F64) /\ (res >= FP!SIGN(FP!F64) <=> x.neg) /\ (FP!isinf(y) => FP!Abs(FP!F64, res) = E)
  BY <1>1, <1>2, Packed
<1>5. FP!Abs(FP!F64, res) = b
  <2>1. CASE b = E
    BY <1>2, <1>4, <2>1
  <2>2. CASE b # E
    <3>1. y.m = Significand(FP!F64, b) /\ y.q = LastPlace(FP!F64, b) /\ ~FP!isinf(y)
      BY <1>2, <2>2 DEF FP!Num
    <3>2. b \in 0..(E - 1)
      BY <1>1, <1>2, <2>2
    <3>3. FP!Pack(FP!F64, y) = b
      BY <1>1, <1>2, <3>1, <3>2, Repacked
    <3>4. FP!Abs(FP!F64, res) = FP!Pack(FP!F64, y)
      BY <1>1, <1>2, <3>1, PackedMagnitude
    <3> QED BY <3>3, <3>4
  <2> QED BY <2>1, <2>2
<1> HIDE DEF res
<1>6. RoundedOnce(FP!F64, x, res)
  BY <1>3, <1>4, <1>5 DEF RoundedOnce
<1> QED BY <1>6 DEF res, y

(* Packed at once, a number is rounded once, in any format.                *)
LEMMA RoundsDirectly ==
  ASSUME NEW fmt \in Formats, NEW x \in Floats, ~FP!isnan(x), ~FP!isinf(x)
  PROVE  RoundedOnce(fmt, x, FP!f2b(fmt, x))
<1>1. FP!Abs(fmt, FP!f2b(fmt, x)) = FP!Pack(fmt, x) /\ FP!f2b(fmt, x) \in FP!Patterns(fmt) /\ (FP!f2b(fmt, x) >= FP!SIGN(fmt) <=> x.neg)
  BY PackedMagnitude
<1>2. FP!NearestTo(fmt, x, FP!Pack(fmt, x))
  BY PackNearest
<1> QED BY <1>1, <1>2 DEF RoundedOnce

(* mu * 2^s is a middle, for all that matters of it.                       *)
MiddleAt(mu, s) ==
  /\ mu \in Nat \ {0} /\ mu % 2 = 1 /\ mu < 2^(P1 + 1)
  /\ FP!bit_length(mu) \in Nat \ {0} /\ FP!bit_length(mu) <= P1 + 1
  /\ s \in Int /\ s >= Lowest(FP!F32) - 1
  /\ s = Lowest(FP!F32) - 1 \/ mu > 2^P1

(* Below the wide format's last place there, m * 2^q is not within half a  *)
(* place of it unless it is it.                                            *)
Apart(m, q, mu, s) ==
  LET T == (s + FP!bit_length(mu)) - P2
      G == mu * 2^(s - q)
      D == 2^(T - q)
  IN  q < T /\ 2 * m <= 2 * G + D /\ 2 * G <= 2 * m + D => m = G

(* Scaling keeps the order.                                                *)
LEMMA OrderedScaled ==
  ASSUME NEW a \in Nat, NEW b \in Nat, NEW S \in Nat \ {0}
  PROVE  a <= b <=> a * S <= b * S
<1> DEFINE aS == a * S
           bS == b * S
<1>1. aS \in Nat /\ bS \in Nat /\ (a < b <=> aS < bS) /\ (a = b <=> aS = bS)
  <2>1. a * S \in Nat /\ b * S \in Nat
    OBVIOUS
  <2>2. (a < b <=> a * S < b * S) /\ (a = b <=> a * S = b * S)
    BY ScalesOrder
  <2> QED BY <2>1, <2>2
<1> HIDE DEF aS, bS
<1>2. a <= b <=> aS <= bS
  BY <1>1
<1> QED BY <1>2 DEF aS, bS

(* The powers a middle is made of, over a place below its last wide one.   *)
LEMMA Spans ==
  ASSUME NEW mu, NEW s, MiddleAt(mu, s), NEW q \in Int,
         NEW T, T = (s + FP!bit_length(mu)) - P2
  PROVE  LET j == P2 - FP!bit_length(mu)
             N == mu * 2^j
         IN  /\ T \in Int /\ j \in Nat /\ j >= P1 + 1 /\ j >= FP!bit_length(mu) /\ s - T = j
             /\ 2^j \in Nat \ {0} /\ N \in Nat \ {0} /\ 2^(P2 - 1) <= N /\ N < 2^P2 /\ mu < 2^j /\ 2^(P1 + 1) <= 2^j
             /\ q < T => LET D == 2^(T - q)
                             h == 2^((T - q) - 1)
                         IN  /\ D \in Nat \ {0} /\ h \in Nat \ {0} /\ D = 2 * h
                             /\ s - q \in Nat /\ s - q = j + (T - q)
                             /\ 2^(s - q) = 2^j * D /\ 2^(s - q) \in Nat \ {0}
                             /\ mu * 2^(s - q) = N * D
<1> DEFINE l == FP!bit_length(mu)
           j == P2 - l
           N == mu * 2^j
<1>1. /\ mu \in Nat \ {0} /\ s \in Int /\ l \in Nat \ {0} /\ l <= P1 + 1
      /\ P1 \in Nat /\ P2 \in Nat /\ P2 >= 2 * P1 + 2
  BY Widths DEF MiddleAt
<1> HIDE DEF l
<1>2. T \in Int /\ j \in Nat /\ j >= P1 + 1 /\ j >= l /\ s - T = j /\ l + j = P2 /\ P1 + 1 \in Nat
  BY <1>1 DEF l
<1> HIDE DEF j
<1>3. 2^j \in Nat \ {0} /\ 2^(P1 + 1) <= 2^j /\ 2^l <= 2^j /\ mu < 2^l
  <2>1. mu < 2^l
    BY <1>1, LengthCounts DEF Takes, l
  <2> QED BY <1>1, <1>2, <2>1, PowIsNat, PowMonotone
<1>4. mu < 2^j
  <2> DEFINE a == 2^l
             b == 2^j
  <2>1. a \in Nat /\ b \in Nat /\ mu < a /\ a <= b
    BY <1>1, <1>3, PowIsNat
  <2> HIDE DEF a, b
  <2> QED BY <1>1, <2>1 DEF b
<1>5. N \in Nat \ {0} /\ 2^(P2 - 1) <= N /\ N < 2^P2
  <2>1. mu * 2^j \in Nat \ {0} /\ FP!bit_length(mu * 2^j) = FP!bit_length(mu) + j
    BY <1>1, <1>2, LengthScaled
  <2>2. N \in Nat \ {0} /\ N \in Nat /\ FP!bit_length(N) = P2
    BY <1>2, <2>1 DEF l
  <2> HIDE DEF N
  <2>3. Takes(N, P2)
    BY <2>2, LengthCounts
  <2>4. P2 # 0 /\ P2 - 1 \in Nat
    BY <1>1
  <2>5. 2^(P2 - 1) \in Nat
    BY <2>4, PowIsNat
  <2> QED BY <2>2, <2>3, <2>4, <2>5 DEF Takes
<1>6. ASSUME q < T
      PROVE  LET D == 2^(T - q)
                 h == 2^((T - q) - 1)
             IN  /\ D \in Nat \ {0} /\ h \in Nat \ {0} /\ D = 2 * h
                 /\ s - q \in Nat /\ s - q = j + (T - q)
                 /\ 2^(s - q) = 2^j * D /\ 2^(s - q) \in Nat \ {0}
                 /\ mu * 2^(s - q) = N * D
  <2> DEFINE n == T - q
             i == n - 1
  <2>1. n \in Nat /\ i \in Nat /\ n = i + 1 /\ s - q \in Nat /\ s - q = j + n
    BY <1>1, <1>2, <1>6
  <2> HIDE DEF n, i
  <2>2. 2^n \in Nat \ {0} /\ 2^i \in Nat \ {0} /\ 2^(i + 1) = 2 * 2^i /\ 2^(j + n) = 2^j * 2^n
        /\ 2^(s - q) \in Nat \ {0}
    BY <1>2, <2>1, PowIsNat, PowNext, PowSum
  <2>3. mu * (2^j * 2^n) = N * 2^n
    <3> DEFINE J == 2^j
               D == 2^n
    <3>1. J \in Nat /\ D \in Nat
      BY <1>3, <2>2
    <3> HIDE DEF J, D
    <3>2. mu * (J * D) = (mu * J) * D
      BY <1>1, <3>1
    <3> QED BY <3>2 DEF J, D
  <2>4. 2^n = 2 * 2^i /\ 2^(s - q) = 2^j * 2^n
    BY <2>1, <2>2
  <2> QED BY <2>1, <2>2, <2>3, <2>4 DEF n, i
<1> HIDE DEF N
<1> QED BY <1>2, <1>3, <1>4, <1>5, <1>6 DEF N, j, l

(* A number that is apart from everything like a middle hits none.         *)
LEMMA Apartness ==
  ASSUME NEW m \in Nat, NEW q \in Int, \A mu, s : MiddleAt(mu, s) => Apart(m, q, mu, s)
  PROVE  HitsMiddles(m, q)
<1> SUFFICES ASSUME NEW b \in 0..(FP!EXP(FP!F32) - 1), NEW z \in Int, z <= q, z < Lowest(FP!F32), z < Lowest(FP!F64),
                    LET X == AtPlace(m, q, z)
                        M == Mid(FP!F32, b, z)
                        P == 2^(WidePlace(b) - z)
                    IN  2 * X <= 2 * M + P /\ 2 * M <= 2 * X + P
             PROVE  AtPlace(m, q, z) = Mid(FP!F32, b, z)
  BY DEF HitsMiddles
<1> DEFINE mu == FP!Middle(FP!F32, b).m
           s == FP!Middle(FP!F32, b).q
           T == (s + FP!bit_length(mu)) - P2
           X == AtPlace(m, q, z)
           M == Mid(FP!F32, b, z)
           P == 2^(T - z)
           j == P2 - FP!bit_length(mu)
           N == mu * 2^j
<1>1. MiddleAt(mu, s)
  BY MiddleFacts DEF MiddleAt
<1>2. WidePlace(b) = T /\ M = mu * 2^(s - z)
  BY DEF WidePlace, Mid, AtPlace
<1>3. 2 * X <= 2 * M + P /\ 2 * M <= 2 * X + P
  BY <1>2
<1>4. Apart(m, q, mu, s)
  BY <1>1
<1>5. z < T
  <2>1. PICK c \in 0..(FP!EXP(FP!F64) - 1) : LastPlace(FP!F64, c) = WidePlace(b)
    BY MiddleIsPattern
  <2>2. c \in Nat
    <3>1. FP!EXP(FP!F64) \in Nat
      BY Widths, FormatFacts
    <3> QED BY <3>1
  <2>3. LastPlace(FP!F64, c) \in Int /\ LastPlace(FP!F64, c) >= Lowest(FP!F64)
    <3>1. z <= Lowest(FP!F64)
      BY Widths
    <3> QED BY <2>2, <3>1, Widths, GridNext
  <2> QED BY <1>2, <2>1, <2>3, Widths
<1> HIDE DEF mu, s
<1>6. /\ T \in Int /\ j \in Nat /\ s - T = j /\ 2^j \in Nat \ {0} /\ N \in Nat \ {0}
      /\ P \in Nat \ {0} /\ mu * 2^(s - z) = N * P
      /\ q < T => LET D == 2^(T - q)
                  IN  /\ D \in Nat \ {0} /\ s - q \in Nat /\ 2^(s - q) = 2^j * D
                      /\ 2^(s - q) \in Nat \ {0} /\ mu * 2^(s - q) = N * D
  <2>1. T = (s + FP!bit_length(mu)) - P2
    OBVIOUS
  <2> HIDE DEF T
  <2>2. /\ T \in Int /\ j \in Nat /\ s - T = j /\ 2^j \in Nat \ {0} /\ N \in Nat \ {0}
        /\ q < T => LET D == 2^(T - q)
                    IN  /\ D \in Nat \ {0} /\ s - q \in Nat /\ 2^(s - q) = 2^j * D
                        /\ 2^(s - q) \in Nat \ {0} /\ mu * 2^(s - q) = N * D
    BY <1>1, <2>1, Spans
  <2>3. z < T => P \in Nat \ {0} /\ mu * 2^(s - z) = N * P
    BY <1>1, <2>1, Spans
  <2> QED BY <1>5, <2>2, <2>3
<1>7. CASE q < T
  <2> DEFINE G == mu * 2^(s - q)
             D == 2^(T - q)
             S == 2^(q - z)
  <2>1. q - z \in Nat /\ T - q \in Nat /\ T - z = (T - q) + (q - z)
    <3> HIDE DEF T
    <3> QED BY <1>6, <1>7
  <2>2. S \in Nat \ {0} /\ D \in Nat \ {0} /\ P = D * S
    <3> DEFINE n == q - z
               o == T - q
    <3>1. n \in Nat /\ o \in Nat /\ T - z = o + n
      BY <2>1
    <3> HIDE DEF n, o, T
    <3>2. 2^n \in Nat \ {0} /\ 2^o \in Nat \ {0} /\ 2^(o + n) = 2^o * 2^n
      BY <3>1, PowIsNat, PowSum
    <3> QED BY <3>1, <3>2 DEF n, o
  <2>3. X = m * S
    BY DEF AtPlace
  <2>4. G = N * D /\ M = N * (D * S)
    BY <1>2, <1>6, <1>7, <2>2
  <2> HIDE DEF G, D, S, X, M, P, N, T, j
  <2>5. M = G * S /\ G \in Nat
    BY <1>6, <2>2, <2>4
  <2>6. 2 * m <= 2 * G + D /\ 2 * G <= 2 * m + D
    <3> DEFINE a == 2 * m
               c == 2 * G + D
               e == 2 * G
               f == 2 * m + D
    <3>1. a \in Nat /\ c \in Nat /\ e \in Nat /\ f \in Nat
      BY <2>2, <2>5
    <3>2. a * S = 2 * X /\ c * S = 2 * M + P /\ e * S = 2 * M /\ f * S = 2 * X + P
      <4>1. (2 * m) * S = 2 * (m * S) /\ (2 * G + D) * S = 2 * (G * S) + D * S /\ (2 * G) * S = 2 * (G * S)
            /\ (2 * m + D) * S = 2 * (m * S) + D * S
        BY <2>2, <2>5
      <4> QED BY <2>2, <2>3, <2>5, <4>1
    <3> HIDE DEF a, c, e, f
    <3>3. (a <= c <=> a * S <= c * S) /\ (e <= f <=> e * S <= f * S)
      BY <2>2, <3>1, OrderedScaled
    <3>4. a <= c /\ e <= f
      BY <1>3, <3>2, <3>3
    <3> QED BY <3>4 DEF a, c, e, f
  <2>7. m = G
    BY <1>4, <1>7, <2>6 DEF Apart, G, D, T
  <2>8. X = M
    BY <2>3, <2>5, <2>7
  <2> QED BY <2>8 DEF X, M
<1>8. CASE ~(q < T)
  <2> DEFINE a == m * 2^(q - T)
  <2>1. q - T \in Nat /\ T - z \in Nat /\ q - z = (q - T) + (T - z)
    <3> HIDE DEF T
    <3> QED BY <1>5, <1>6, <1>8
  <2>2. a \in Nat /\ X = a * P
    <3> DEFINE n == q - T
               o == T - z
    <3>1. n \in Nat /\ o \in Nat /\ q - z = n + o
      BY <2>1
    <3> HIDE DEF n, o, T
    <3>2. 2^n \in Nat \ {0} /\ 2^o \in Nat \ {0} /\ 2^(n + o) = 2^n * 2^o
      BY <3>1, PowIsNat, PowSum
    <3>3. m * (2^n * 2^o) = (m * 2^n) * 2^o /\ m * 2^n \in Nat
      <4> DEFINE A == 2^n
                 B == 2^o
      <4>1. A \in Nat /\ B \in Nat
        BY <3>2
      <4> HIDE DEF A, B
      <4>2. m * (A * B) = (m * A) * B /\ m * A \in Nat
        BY <4>1
      <4> QED BY <4>2 DEF A, B
    <3>4. X = m * 2^(n + o)
      BY <3>1 DEF AtPlace
    <3> QED BY <3>2, <3>3, <3>4 DEF n, o
  <2>3. M = N * P
    BY <1>2, <1>6
  <2> HIDE DEF a, X, M, P, N, T, j
  <2>4. a <= N /\ N <= a
    <3> DEFINE aP == a * P
               NP == N * P
    <3>1. (N + 1) * P = NP + P /\ (a + 1) * P = aP + P /\ aP \in Nat /\ NP \in Nat
      BY <1>6, <2>2
    <3>2. aP < NP + P /\ NP < aP + P
      <4>1. 2 * aP <= 2 * NP + P /\ 2 * NP <= 2 * aP + P
        BY <1>3, <2>2, <2>3
      <4> HIDE DEF aP, NP
      <4> QED BY <1>6, <3>1, <4>1
    <3> DEFINE N1 == N + 1
               aNext == a + 1
    <3>3. N \in Nat /\ N1 \in Nat /\ aNext \in Nat
      BY <1>6, <2>2
    <3> HIDE DEF N1, aNext
    <3>4. (a < N1 <=> a * P < N1 * P) /\ (N < aNext <=> N * P < aNext * P)
      BY <1>6, <2>2, <3>3, ScalesOrder
    <3>5. a < N1 /\ N < aNext
      BY <3>1, <3>2, <3>4 DEF N1, aNext
    <3> QED BY <1>6, <2>2, <3>5 DEF N1, aNext
  <2>5. a = N
    BY <1>6, <2>2, <2>4
  <2> QED BY <2>2, <2>3, <2>5 DEF X, M
<1> QED BY <1>7, <1>8

(* A number of fewer bits than the wide format's is apart: products of     *)
(* narrow numbers, and integers that fit.                                  *)
LEMMA SmallApart ==
  ASSUME NEW m \in Nat, m < 2^(P2 - 1), NEW q \in Int, NEW mu, NEW s, MiddleAt(mu, s)
  PROVE  Apart(m, q, mu, s)
<1> DEFINE T == (s + FP!bit_length(mu)) - P2
           j == P2 - FP!bit_length(mu)
           N == mu * 2^j
           D == 2^(T - q)
           B == 2^(P2 - 1)
           G == mu * 2^(s - q)
<1> SUFFICES ASSUME q < T, 2 * m <= 2 * G + D, 2 * G <= 2 * m + D PROVE FALSE
  BY DEF Apart
<1>1. N \in Nat \ {0} /\ B <= N /\ D \in Nat \ {0} /\ D >= 2 /\ G = N * D
  <2>1. T = (s + FP!bit_length(mu)) - P2
    OBVIOUS
  <2> HIDE DEF T
  <2>2. /\ N \in Nat \ {0} /\ B <= N
        /\ q < T => LET h == 2^((T - q) - 1)
                    IN  D \in Nat \ {0} /\ h \in Nat \ {0} /\ D = 2 * h /\ G = N * D
    BY <2>1, Spans
  <2> HIDE DEF D
  <2>3. D >= 2
    <3> DEFINE h == 2^((T - q) - 1)
    <3>1. h \in Nat \ {0} /\ D = 2 * h
      BY <2>2
    <3> HIDE DEF h
    <3> QED BY <3>1
  <2> QED BY <2>2, <2>3
<1>2. B \in Nat \ {0} /\ m < B
  <2>1. P2 - 1 \in Nat
    BY Widths
  <2> QED BY <2>1, PowIsNat
<1>3. 2 * G <= 2 * m + D
  OBVIOUS
<1> HIDE DEF N, D, B, G, T
<1>4. PICK n \in Nat : N = B + n
  <2>1. N - B \in Nat /\ N = B + (N - B)
    BY <1>1, <1>2
  <2> QED BY <2>1
<1>5. PICK d \in Nat : D = 2 + d
  <2>1. D - 2 \in Nat /\ D = 2 + (D - 2)
    BY <1>1
  <2> QED BY <2>1
<1>6. (B + n) * (2 + d) = 2 * B + B * d + n * (2 + d) /\ B * d \in Nat /\ n * (2 + d) \in Nat /\ B * d >= d
  <2>1. PICK c \in Nat : B = 1 + c
    <3>1. B - 1 \in Nat /\ B = 1 + (B - 1)
      BY <1>2
    <3> QED BY <3>1
  <2>2. (1 + c) * d = d + c * d /\ c * d \in Nat
    OBVIOUS
  <2>3. (B + n) * (2 + d) = 2 * B + B * d + n * (2 + d) /\ B * d \in Nat /\ n * (2 + d) \in Nat
    BY <1>2
  <2> DEFINE cd == c * d
  <2>4. B * d = d + cd /\ cd \in Nat
    BY <2>1, <2>2
  <2> HIDE DEF cd
  <2>5. B * d >= d
    BY <2>4
  <2> QED BY <2>3, <2>5
<1> DEFINE Bd == B * d
           nd == n * (2 + d)
<1>7. G = 2 * B + Bd + nd /\ Bd \in Nat /\ nd \in Nat /\ Bd >= d
  BY <1>1, <1>4, <1>5, <1>6
<1> HIDE DEF Bd, nd
<1> QED BY <1>2, <1>3, <1>5, <1>7

(* Multiples of K that are less than K apart are the same.                 *)
LEMMA SameMultiple ==
  ASSUME NEW a \in Nat, NEW b \in Nat, NEW K \in Nat \ {0}, a * K < b * K + K, b * K < a * K + K
  PROVE  a = b
<1> DEFINE aNext == a + 1
           bNext == b + 1
<1>1. aNext \in Nat /\ bNext \in Nat /\ aNext * K = a * K + K /\ bNext * K = b * K + K
  OBVIOUS
<1> HIDE DEF aNext, bNext
<1>2. (a < bNext <=> a * K < bNext * K) /\ (b < aNext <=> b * K < aNext * K)
  BY <1>1, ScalesOrder
<1>3. a < bNext /\ b < aNext
  BY <1>1, <1>2
<1> QED BY <1>3 DEF aNext, bNext

(* A product grows with its factors.                                       *)
LEMMA ProductGrows ==
  ASSUME NEW a \in Nat, NEW b \in Nat, NEW c \in Nat, NEW d \in Nat, a <= c, b <= d
  PROVE  a * b \in Nat /\ c * d \in Nat /\ a * b <= c * d
<1>1. PICK i \in Nat, j \in Nat : c = a + i /\ d = b + j
  <2>1. c - a \in Nat /\ c = a + (c - a) /\ d - b \in Nat /\ d = b + (d - b)
    OBVIOUS
  <2> QED BY <2>1
<1>2. (a + i) * (b + j) = a * b + a * j + i * b + i * j /\ a * b \in Nat /\ a * j \in Nat /\ i * b \in Nat /\ i * j \in Nat
  OBVIOUS
<1> DEFINE ab == a * b
           aj == a * j
           ib == i * b
           ij == i * j
<1>3. c * d = ab + aj + ib + ij /\ ab \in Nat /\ aj \in Nat /\ ib \in Nat /\ ij \in Nat
  BY <1>1, <1>2
<1> HIDE DEF ab, aj, ib, ij
<1>4. ab <= ab + aj + ib + ij /\ ab + aj + ib + ij \in Nat
  BY <1>3
<1> QED BY <1>3, <1>4 DEF ab

(* A sum of two narrow numbers is never so close to a middle and below it. *)
LEMMA SumApart ==
  ASSUME NEW m1 \in Nat \ {0}, m1 < 2^P1, NEW m2 \in Nat \ {0}, m2 < 2^P1, NEW d \in Nat,
         NEW q \in Int, q >= Lowest(FP!F32), NEW m \in Nat, NEW A, A = m1 * 2^d,
         m = A + m2 \/ m = A - m2 \/ m = m2 - A,
         NEW mu, NEW s, MiddleAt(mu, s)
  PROVE  Apart(m, q, mu, s)
<1> DEFINE T == (s + FP!bit_length(mu)) - P2
           j == P2 - FP!bit_length(mu)
           D == 2^(T - q)
           h == 2^((T - q) - 1)
           K == 2^(s - q)
           J == 2^j
           G == mu * K
           p == 2^P1
           E == 2^d
<1> SUFFICES ASSUME q < T, 2 * m <= 2 * G + D, 2 * G <= 2 * m + D PROVE FALSE
  BY DEF Apart
<1>1. /\ T \in Int /\ D \in Nat \ {0} /\ h \in Nat \ {0} /\ D = 2 * h /\ j \in Nat
      /\ s - q \in Nat /\ s - q = j + (T - q) /\ K = J * D /\ K \in Nat \ {0}
      /\ J \in Nat \ {0} /\ 2^(P1 + 1) <= J
  <2>1. T = (s + FP!bit_length(mu)) - P2
    OBVIOUS
  <2> HIDE DEF T
  <2> QED BY <2>1, Spans
<1>2. mu \in Nat \ {0} /\ mu % 2 = 1 /\ s \in Int /\ mu > p
  <2>1. mu \in Nat \ {0} /\ mu % 2 = 1 /\ s \in Int /\ (s = Lowest(FP!F32) - 1 \/ mu > 2^P1) /\ Lowest(FP!F32) \in Int
    BY Widths DEF MiddleAt
  <2>2. s # Lowest(FP!F32) - 1
    <3> HIDE DEF T, j, K, D, h
    <3>1. s - q >= 0
      BY <1>1
    <3> QED BY <2>1, <3>1
  <2> QED BY <2>1, <2>2
<1>3. p \in Nat \ {0} /\ 2^(P1 + 1) = 2 * p /\ E \in Nat \ {0} /\ m1 < p /\ m2 < p /\ A = m1 * E
  BY Widths, PowIsNat, PowNext
<1>4. K >= 4 * (p * h) /\ p * h \in Nat /\ p * h >= h /\ p * h >= p
  <2>1. K = 2 * (J * h)
    <3> HIDE DEF K, J, D, h
    <3>1. J * (2 * h) = 2 * (J * h)
      BY <1>1
    <3> QED BY <1>1, <3>1
  <2>2. (2 * p) * h <= J * h /\ (2 * p) * h = 2 * (p * h) /\ J * h \in Nat /\ p * h \in Nat
    <3> DEFINE pp == 2 * p
    <3>1. pp \in Nat /\ pp <= J
      BY <1>1, <1>3
    <3>2. pp * h = 2 * (p * h) /\ p * h \in Nat /\ J * h \in Nat
      <4> HIDE DEF p, h, J
      <4> QED BY <1>1, <1>3
    <3> HIDE DEF pp, J, h
    <3>3. J \in Nat /\ h \in Nat /\ h <= h
      BY <1>1
    <3>4. pp * h <= J * h
      BY <3>1, <3>3, ProductGrows
    <3> QED BY <3>2, <3>4 DEF pp
  <2>3. 1 * h <= p * h /\ p * 1 <= p * h
    <3> HIDE DEF p, h
    <3>1. 1 \in Nat /\ h \in Nat /\ p \in Nat /\ 1 <= p /\ 1 <= h /\ h <= h /\ p <= p
      BY <1>1, <1>3
    <3> QED BY <3>1, ProductGrows
  <2> DEFINE Jh == J * h
             ph == p * h
  <2>4. Jh \in Nat /\ ph \in Nat /\ K = 2 * Jh /\ 2 * ph <= Jh /\ h <= ph /\ p <= ph
    <3>1. 1 * h = h /\ p * 1 = p
      <4> HIDE DEF h, p
      <4> QED BY <1>1, <1>3
    <3> QED BY <2>1, <2>2, <2>3, <3>1
  <2> HIDE DEF Jh, ph, K, h, p
  <2>5. K >= 4 * ph /\ ph >= h /\ ph >= p
    BY <1>1, <1>3, <2>4
  <2> QED BY <2>4, <2>5 DEF ph
<1>5. 2 * m <= 2 * G + D /\ 2 * G <= 2 * m + D /\ G \in Nat /\ G = mu * K
  BY <1>1, <1>2
<1> DEFINE ph == p * h
<1>6. ph \in Nat /\ K >= 4 * ph /\ ph >= h /\ ph >= p /\ D = 2 * h
  BY <1>1, <1>4
<1>7. CASE d >= s - q
  <2> DEFINE i == d - (s - q)
             c == m1 * 2^i
             cK == c * K
  <2>1. i \in Nat /\ d = i + (s - q)
    <3> HIDE DEF K, T, j
    <3> QED BY <1>1, <1>7
  <2>2. c \in Nat /\ A = cK /\ cK \in Nat
    <3> DEFINE n == s - q
    <3>1. n \in Nat /\ d = i + n
      BY <1>1, <2>1
    <3> HIDE DEF i, n
    <3>2. 2^i \in Nat \ {0} /\ 2^n \in Nat \ {0} /\ 2^(i + n) = 2^i * 2^n
      BY <2>1, <3>1, PowIsNat, PowSum
    <3>3. m1 * (2^i * 2^n) = (m1 * 2^i) * 2^n /\ m1 * 2^i \in Nat /\ (m1 * 2^i) * 2^n \in Nat
      <4> DEFINE I == 2^i
                 L == 2^n
      <4>1. I \in Nat /\ L \in Nat
        BY <3>2
      <4> HIDE DEF I, L
      <4>2. m1 * (I * L) = (m1 * I) * L /\ m1 * I \in Nat /\ (m1 * I) * L \in Nat
        BY <4>1
      <4> QED BY <4>2 DEF I, L
    <3> QED BY <3>1, <3>2, <3>3 DEF n
  <2>3. c = mu
    <3>1. cK < G + K /\ G < cK + K
      <4> HIDE DEF cK, G, K, D, h, p, ph
      <4>1. G >= K
        <5>1. 1 * K <= mu * K
          <6>1. 1 \in Nat /\ K \in Nat /\ mu \in Nat /\ 1 <= mu /\ K <= K
            BY <1>1, <1>2
          <6> QED BY <6>1, ProductGrows
        <5>2. 1 * K = K
          BY <1>1
        <5> QED BY <5>1, <5>2 DEF G
      <4>2. 2 * m <= 2 * G + 2 * h /\ 2 * G <= 2 * m + 2 * h
        BY <1>5, <1>6
      <4>3. CASE m = A + m2
        BY <1>1, <1>3, <1>5, <1>6, <2>2, <4>2, <4>3
      <4>4. CASE m = A - m2
        BY <1>1, <1>3, <1>5, <1>6, <2>2, <4>2, <4>4
      <4>5. CASE m = m2 - A
        BY <1>1, <1>3, <1>5, <1>6, <2>2, <4>1, <4>2, <4>5
      <4> QED BY <4>3, <4>4, <4>5
    <3> HIDE DEF c, K
    <3>2. c * K < mu * K + K /\ mu * K < c * K + K
      BY <3>1
    <3> QED BY <1>1, <1>2, <2>2, <3>2, SameMultiple
  <2>4. CASE i = 0
    <3>1. 2^i = 1
      <4>1. 2^0 = 1
        OBVIOUS
      <4> QED BY <2>4, <4>1
    <3>2. c = m1
      <4> HIDE DEF i
      <4> QED BY <3>1
    <3> HIDE DEF p, c
    <3> QED BY <1>2, <1>3, <2>3, <3>2
  <2>5. CASE i # 0
    <3> DEFINE k == i - 1
    <3>1. k \in Nat /\ i = k + 1
      BY <2>1, <2>5
    <3> HIDE DEF k, i
    <3>2. 2^i = 2 * 2^k /\ 2^k \in Nat
      BY <3>1, PowNext, PowIsNat
    <3> DEFINE I == 2^k
    <3>3. c = 2 * (m1 * I) /\ m1 * I \in Nat
      <4>1. I \in Nat /\ c = m1 * (2 * I)
        BY <3>2
      <4> HIDE DEF I, c
      <4> QED BY <4>1
    <3> DEFINE e == m1 * I
    <3>4. c = 2 * e /\ e \in Nat
      BY <3>3
    <3> HIDE DEF e, c
    <3>5. c % 2 = 0
      BY <3>4
    <3> QED BY <1>2, <2>3, <3>5
  <2> QED BY <2>4, <2>5
<1>8. CASE d < s - q
  <2>1. K >= 2 * E
    <3> DEFINE n == s - q
    <3>1. n \in Nat /\ d + 1 \in Nat /\ d + 1 <= n
      <4> HIDE DEF K, T, j
      <4> QED BY <1>1, <1>8
    <3> HIDE DEF n
    <3>2. 2^(d + 1) <= 2^n /\ 2^(d + 1) = 2 * 2^d
      BY <3>1, PowMonotone, PowNext
    <3> QED BY <3>2 DEF n
  <2>2. A <= p * E /\ p * E >= p /\ p * E \in Nat /\ A \in Nat
    <3> HIDE DEF p, E
    <3>1. m1 \in Nat /\ E \in Nat /\ p \in Nat /\ m1 <= p /\ E <= E /\ p <= p /\ 1 \in Nat /\ 1 <= E
      BY <1>3
    <3>2. m1 * E <= p * E /\ p * 1 <= p * E /\ m1 * E \in Nat /\ p * E \in Nat
      BY <3>1, ProductGrows
    <3>3. p * 1 = p
      BY <1>3
    <3> QED BY <1>3, <3>2, <3>3
  <2>3. G >= p * K + K /\ p * K \in Nat
    <3> HIDE DEF p, K, G
    <3> DEFINE p1 == p + 1
    <3>1. p1 \in Nat /\ K \in Nat /\ mu \in Nat /\ p1 <= mu /\ K <= K
      BY <1>1, <1>2, <1>3
    <3>2. p1 * K = p * K + K /\ p * K \in Nat
      BY <1>1, <1>3
    <3> HIDE DEF p1
    <3>3. p1 * K <= mu * K
      BY <3>1, ProductGrows
    <3> QED BY <1>5, <3>2, <3>3
  <2>4. p * K >= 2 * (p * E)
    <3> HIDE DEF p, K, E
    <3> DEFINE EE == 2 * E
    <3>1. EE \in Nat /\ EE <= K /\ p \in Nat /\ p <= p /\ K \in Nat /\ p * EE = 2 * (p * E)
      BY <1>1, <1>3, <2>1
    <3> HIDE DEF EE
    <3>2. p * EE <= p * K
      BY <3>1, ProductGrows
    <3> QED BY <3>1, <3>2
  <2> DEFINE pE == p * E
             pK == p * K
  <2>5. A <= pE /\ pE >= p /\ pE \in Nat /\ A \in Nat /\ G >= pK + K /\ pK \in Nat /\ pK >= 2 * pE
    BY <2>2, <2>3, <2>4
  <2> HIDE DEF pE, pK, G, K, D, h, p, ph, E
  <2>6. m <= A + m2
    BY <2>5
  <2> QED BY <1>1, <1>3, <1>5, <1>6, <2>5, <2>6
<1> QED
  <2> HIDE DEF K, T, j
  <2> QED BY <1>1, <1>7, <1>8

(* A quotient's bits, a half place and a sticky bit included.              *)
Sticky(n, m) == 2 * (n \div m) + (IF n % m = 0 THEN 0 ELSE 1)

(* Twice the quotient and the sticky bit is within one of twice the exact  *)
(* quotient.                                                               *)
LEMMA StickyQuotient ==
  ASSUME NEW n \in Nat, NEW m2 \in Nat \ {0},
         NEW m, m = Sticky(n, m2)
  PROVE  /\ m \in Nat /\ m * m2 \in Nat
         /\ m * m2 < 2 * n + m2 /\ 2 * n < m * m2 + m2
         /\ \A g \in Nat : n = m2 * g => m = 2 * g
<1> DEFINE t == n \div m2
           rem == n % m2
           o == IF rem = 0 THEN 0 ELSE 1
           tm == m2 * t
<1>1. t \in Nat /\ rem \in 0..(m2 - 1) /\ n = tm + rem
  <2>1. n \in Int
    OBVIOUS
  <2>2. n \div m2 \in Nat
    BY QuotientType
  <2>3. n % m2 \in 0..(m2 - 1) /\ n = (m2 * (n \div m2)) + (n % m2)
    BY <2>1, DivMod
  <2> QED BY <2>2, <2>3
<1>2. m = 2 * t + o
  BY DEF Sticky
<1>3. ASSUME NEW g \in Nat, n = m2 * g PROVE m = 2 * g
  <2>1. n \in Int /\ g \in Int /\ 0 \in 0..(m2 - 1) /\ n = m2 * g + 0
    BY <1>3
  <2>2. n \div m2 = g /\ n % m2 = 0
    BY <2>1, QuotientIs
  <2> QED BY <2>2 DEF Sticky
<1> HIDE DEF t, rem
<1>4. o \in {0, 1} /\ (o = 0 <=> rem = 0)
  OBVIOUS
<1>5. tm \in Nat /\ (2 * t + 1) * m2 = 2 * tm + m2 /\ (2 * t + 0) * m2 = 2 * tm
  BY <1>1
<1> HIDE DEF o, tm
<1>6. m \in Nat /\ (o = 0 => m * m2 = 2 * tm) /\ (o = 1 => m * m2 = 2 * tm + m2)
  BY <1>1, <1>2, <1>4, <1>5
<1> DEFINE mm == m * m2
<1>7. (o = 0 => mm = 2 * tm) /\ (o = 1 => mm = 2 * tm + m2)
  BY <1>6
<1> HIDE DEF mm
<1>8. mm \in Nat /\ mm < 2 * n + m2 /\ 2 * n < mm + m2
  BY <1>1, <1>4, <1>5, <1>7
<1> QED BY <1>3, <1>6, <1>8 DEF mm

(* How a middle compares with the powers that narrow numbers are below.    *)
MiddleSized(mu, s, q) ==
  \E h \in Nat \ {0} : \E J \in Nat \ {0} : \E N \in Nat \ {0} :
    LET p == 2^P1
        D == 2^(((s + FP!bit_length(mu)) - P2) - q)
        K == 2^(s - q)
    IN  /\ D = 2 * h /\ (D # 2 => \E e \in Nat : h = 2 * e)
        /\ s - q \in Nat /\ K \in Nat \ {0} /\ K = 2 * (J * h) /\ mu * K = N * (2 * h)
        /\ mu \in Nat \ {0} /\ mu < J /\ N = mu * J
        /\ p \in Nat /\ p >= 4 /\ 2 * p <= J /\ 2 * (p * p) <= N /\ N < 2^P2

(* A middle above a small place has these sizes.                           *)
LEMMA MiddleSizes ==
  ASSUME NEW mu, NEW s, MiddleAt(mu, s), NEW q \in Int, q < (s + FP!bit_length(mu)) - P2
  PROVE  MiddleSized(mu, s, q)
<1> DEFINE T == (s + FP!bit_length(mu)) - P2
           D == 2^(T - q)
           h == 2^((T - q) - 1)
           j == P2 - FP!bit_length(mu)
           J == 2^j
           N == mu * J
           K == 2^(s - q)
           p == 2^P1
<1>1. /\ T \in Int /\ j \in Nat /\ J \in Nat \ {0} /\ N \in Nat \ {0} /\ 2^(P2 - 1) <= N /\ N < 2^P2
      /\ mu < J /\ 2^(P1 + 1) <= J
      /\ D \in Nat \ {0} /\ h \in Nat \ {0} /\ D = 2 * h
      /\ s - q \in Nat /\ K = J * D /\ K \in Nat \ {0} /\ mu * K = N * D
  <2>1. T = (s + FP!bit_length(mu)) - P2 /\ q < T
    OBVIOUS
  <2> HIDE DEF T
  <2> QED BY <2>1, Spans
<1>2. mu \in Nat \ {0}
  BY DEF MiddleAt
<1>3. p \in Nat /\ p >= 4 /\ 2^(P1 + 1) = 2 * p /\ 2 * (p * p) <= 2^(P2 - 1)
  <2>1. P1 \in Nat /\ P1 >= 2 /\ P2 - 1 \in Nat /\ P1 + P1 \in Nat /\ (P1 + P1) + 1 <= P2 - 1 /\ (P1 + P1) + 1 \in Nat
    BY Widths
  <2>2. p \in Nat \ {0} /\ 2^(P1 + 1) = 2 * p /\ 2^(P1 + P1) = p * p /\ 2^((P1 + P1) + 1) = 2 * 2^(P1 + P1)
        /\ 2^((P1 + P1) + 1) <= 2^(P2 - 1)
    BY <2>1, PowIsNat, PowNext, PowSum, PowMonotone
  <2>3. 2^2 <= p /\ 2^2 = 4
    <3>1. 2 \in Nat /\ 2^(1 + 1) = 2 * 2^1 /\ 2^(0 + 1) = 2 * 2^0
      <4>1. 1 \in Nat /\ 0 \in Nat
        OBVIOUS
      <4> QED BY <4>1, PowNext
    <3>2. 2^0 = 1 /\ 0 + 1 = 1 /\ 1 + 1 = 2
      OBVIOUS
    <3>3. 2^2 <= 2^P1
      BY <2>1, <3>1, PowMonotone
    <3> QED BY <3>1, <3>2, <3>3
  <2> QED BY <2>2, <2>3
<1>4. D # 2 => \E e \in Nat : h = 2 * e
  <2> SUFFICES ASSUME D # 2 PROVE \E e \in Nat : h = 2 * e
    OBVIOUS
  <2> DEFINE n == (T - q) - 1
  <2>1. n \in Nat
    <3> HIDE DEF T
    <3>1. q < T
      BY DEF T
    <3> QED BY <1>1, <3>1
  <2>2. h # 1
    BY <1>1
  <2>3. n # 0
    <3> SUFFICES ASSUME n = 0 PROVE FALSE
      OBVIOUS
    <3>1. 2^0 = 1 /\ h = 2^n
      OBVIOUS
    <3> HIDE DEF n, h
    <3> QED BY <2>2, <3>1
  <2> HIDE DEF n
  <2> DEFINE i == n - 1
  <2>4. i \in Nat /\ n = i + 1
    BY <2>1, <2>3
  <2> HIDE DEF i
  <2>5. 2^n = 2 * 2^i /\ 2^i \in Nat
    BY <2>4, PowNext, PowIsNat
  <2> QED BY <2>5 DEF n
<1> HIDE DEF N, J, h, K, p
<1>5. K = 2 * (J * h) /\ mu * K = N * (2 * h)
  <2>1. J * (2 * h) = 2 * (J * h)
    BY <1>1
  <2> QED BY <1>1, <2>1
<1>6. 2 * p <= J /\ 2 * (p * p) <= N
  <2> DEFINE pp == p * p
             B == 2^(P2 - 1)
             C == 2^(P1 + 1)
  <2>1. pp \in Nat /\ B \in Nat
    <3>1. P2 - 1 \in Nat
      BY Widths
    <3> QED BY <1>3, <3>1, PowIsNat
  <2>2. 2 * pp <= B /\ B <= N /\ C = 2 * p /\ C <= J
    BY <1>1, <1>3
  <2> HIDE DEF pp, B, C
  <2>3. 2 * pp <= N /\ 2 * p <= J
    BY <1>1, <2>1, <2>2
  <2> QED BY <2>3 DEF pp
<1>7. N = mu * J
  BY DEF N
<1> QED BY <1>1, <1>2, <1>3, <1>4, <1>5, <1>6, <1>7 DEF K, p, MiddleSized

(* A quotient of two narrow numbers is apart from every middle.            *)
LEMMA QuotientApart ==
  ASSUME NEW m1 \in Nat, m1 < 2^P1, NEW m2 \in Nat \ {0}, m2 < 2^P1, NEW f \in Nat,
         NEW n, n = m1 * 2^f, NEW m, m = Sticky(n, m2),
         NEW q \in Int, NEW mu, NEW s, MiddleAt(mu, s)
  PROVE  Apart(m, q, mu, s)
<1> DEFINE T == (s + FP!bit_length(mu)) - P2
           D == 2^(T - q)
           K == 2^(s - q)
           G == mu * K
           p == 2^P1
           V == 2^(f + 1)
<1> SUFFICES ASSUME q < T, 2 * m <= 2 * G + D, 2 * G <= 2 * m + D PROVE m = G
  BY DEF Apart
<1>1. PICK h \in Nat \ {0}, J \in Nat \ {0}, N \in Nat \ {0} :
        /\ D = 2 * h /\ s - q \in Nat /\ K \in Nat \ {0} /\ K = 2 * (J * h) /\ G = N * (2 * h)
        /\ mu \in Nat \ {0}
        /\ p \in Nat /\ p >= 4 /\ 2 * p <= J /\ 2 * (p * p) <= N
  BY MiddleSizes DEF MiddleSized
<1>2. f + 1 \in Nat /\ V \in Nat \ {0} /\ 2^f \in Nat \ {0} /\ V = 2 * 2^f
  BY PowIsNat, PowNext
<1>3. n \in Nat /\ 2 * n = m1 * V
  <2> DEFINE Gap == 2^f
  <2>1. Gap \in Nat /\ V = 2 * Gap /\ n = m1 * Gap
    BY <1>2
  <2> HIDE DEF Gap, V
  <2>2. m1 * Gap \in Nat /\ 2 * (m1 * Gap) = m1 * (2 * Gap)
    BY <2>1
  <2> QED BY <2>1, <2>2
<1>4. /\ m \in Nat /\ m * m2 \in Nat
      /\ m * m2 < 2 * n + m2 /\ 2 * n < m * m2 + m2
      /\ \A g \in Nat : n = m2 * g => m = 2 * g
  <2>1. n \in Nat /\ m2 \in Nat \ {0} /\ m = Sticky(n, m2)
    BY <1>3
  <2> HIDE DEF T, D, K, G, p, V
  <2>2. /\ m \in Nat /\ m * m2 \in Nat
        /\ m * m2 < 2 * n + m2 /\ 2 * n < m * m2 + m2
        /\ \A g \in Nat : n = m2 * g => m = 2 * g
    BY ONLY <2>1, StickyQuotient
  <2> QED BY <2>2
<1>5. 2 * m <= 2 * G + 2 * h /\ 2 * G <= 2 * m + 2 * h
  BY <1>1
<1>6. m2 \in Nat /\ m2 < p /\ m1 \in Nat /\ m1 < p
  OBVIOUS
<1> HIDE DEF D, K, V, p, T
<1>7. G \in Nat /\ G = 2 * (mu * (J * h)) /\ mu * (J * h) \in Nat
  <2> DEFINE Jh == J * h
  <2>1. Jh \in Nat /\ K = 2 * Jh
    BY <1>1
  <2> HIDE DEF Jh
  <2>2. mu * (2 * Jh) = 2 * (mu * Jh) /\ mu * Jh \in Nat
    BY <1>1, <2>1
  <2> QED BY <2>1, <2>2 DEF Jh
(* An exact quotient is the middle.                                        *)
<1>8. ASSUME 2 * n = G * m2 PROVE m = G
  <2> DEFINE g == mu * (J * h)
  <2>1. g \in Nat /\ G = 2 * g
    BY <1>7
  <2> HIDE DEF g, G
  <2>2. (2 * g) * m2 = 2 * (m2 * g) /\ m2 * g \in Nat
    BY <2>1
  <2> DEFINE e == m2 * g
  <2>3. 2 * n = 2 * e /\ e \in Nat
    BY <1>8, <2>1, <2>2
  <2> HIDE DEF e
  <2>4. n = e
    BY <1>3, <2>3
  <2>5. m = 2 * g
    BY <1>4, <2>1, <2>4 DEF e
  <2> QED BY <2>1, <2>5
(* Otherwise they differ by less than two places' worth.                   *)
<1> DEFINE Gm == G * m2
           hm == h * m2
           n2 == 2 * n
<1>9. n2 < Gm + 2 * hm /\ Gm < n2 + 2 * hm /\ Gm \in Nat /\ hm \in Nat /\ n2 \in Nat
  <2> DEFINE mm == m * m2
  <2>1. m <= G + h /\ G <= m + h
    BY <1>1, <1>4, <1>5, <1>7
  <2>2. m * m2 <= (G + h) * m2 /\ G * m2 <= (m + h) * m2
    <3> DEFINE a == G + h
               b == m + h
    <3>1. a \in Nat /\ b \in Nat /\ m <= a /\ G <= b
      BY <1>1, <1>4, <1>7, <2>1
    <3>2. m2 <= m2 /\ m \in Nat /\ G \in Nat
      BY <1>4, <1>6, <1>7
    <3> HIDE DEF a, b, G
    <3>3. m * m2 <= a * m2 /\ G * m2 <= b * m2
      BY <1>6, <3>1, <3>2, ProductGrows
    <3> QED BY <3>3 DEF a, b
  <2>3. (G + h) * m2 = Gm + hm /\ (m + h) * m2 = mm + hm /\ Gm \in Nat /\ hm \in Nat /\ mm \in Nat
    <3> HIDE DEF G
    <3> QED BY <1>1, <1>4, <1>6, <1>7
  <2>4. m2 <= hm
    <3>1. 1 * m2 <= h * m2
      <4>1. 1 \in Nat /\ h \in Nat /\ 1 <= h /\ m2 <= m2
        BY <1>1, <1>6
      <4> QED BY <1>6, <4>1, ProductGrows
    <3>2. 1 * m2 = m2
      OBVIOUS
    <3> QED BY <3>1, <3>2
  <2>5. mm < n2 + m2 /\ n2 < mm + m2 /\ n2 \in Nat
    BY <1>3, <1>4
  <2>6. mm <= Gm + hm /\ Gm <= mm + hm
    BY <2>2, <2>3
  <2> HIDE DEF mm, Gm, hm, n2
  <2> QED BY <1>6, <2>3, <2>4, <2>5, <2>6
<1>10. hm <= p * h /\ p * h \in Nat
  <2>1. h * m2 <= h * p /\ h * p \in Nat
    <3>1. h \in Nat /\ h <= h /\ m2 <= p /\ p \in Nat
      BY <1>1, <1>6
    <3> QED BY <1>6, <3>1, ProductGrows
  <2>2. h * p = p * h
    BY <1>1
  <2> QED BY <2>1, <2>2
<1>11. 4 * (p * h) <= K
  <2> DEFINE pp == 2 * p
             Jh == J * h
             ph == p * h
  <2>1. pp \in Nat /\ pp <= J /\ J \in Nat /\ h \in Nat /\ h <= h
    BY <1>1
  <2>2. pp * h <= J * h /\ J * h \in Nat
    <3> HIDE DEF pp
    <3> QED BY <2>1, ProductGrows
  <2>3. pp * h = 2 * ph /\ ph \in Nat /\ K = 2 * Jh
    BY <1>1
  <2> HIDE DEF pp, ph, Jh
  <2>4. 4 * ph <= K
    BY <2>2, <2>3 DEF Jh
  <2> QED BY <2>4 DEF ph
<1>12. CASE f + 1 >= s - q
  <2> DEFINE i == (f + 1) - (s - q)
             a == m1 * 2^i
             c == mu * m2
  <2>1. i \in Nat /\ f + 1 = i + (s - q)
    BY <1>1, <1>2, <1>12
  <2>2. a \in Nat /\ n2 = a * K
    <3> DEFINE o == s - q
    <3>1. o \in Nat /\ f + 1 = i + o
      BY <1>1, <2>1
    <3> HIDE DEF i, o
    <3>2. 2^i \in Nat /\ 2^o \in Nat /\ 2^(i + o) = 2^i * 2^o
      BY <2>1, <3>1, PowIsNat, PowSum
    <3>3. m1 * (2^i * 2^o) = (m1 * 2^i) * 2^o /\ m1 * 2^i \in Nat
      <4> DEFINE I == 2^i
                 L == 2^o
      <4>1. I \in Nat /\ L \in Nat
        BY <3>2
      <4> HIDE DEF I, L
      <4>2. m1 * (I * L) = (m1 * I) * L /\ m1 * I \in Nat
        BY <4>1
      <4> QED BY <4>2 DEF I, L
    <3>4. V = 2^(i + o) /\ K = 2^o
      BY <3>1 DEF V, K, o
    <3> QED BY <1>3, <3>2, <3>3, <3>4
  <2>3. c \in Nat /\ Gm = c * K
    <3>1. (mu * K) * m2 = (mu * m2) * K /\ mu * m2 \in Nat
      BY <1>1
    <3> QED BY <3>1
  <2>4. n2 < Gm + K /\ Gm < n2 + K
    <3> DEFINE ph == p * h
    <3>1. hm <= ph /\ ph \in Nat /\ 4 * ph <= K
      BY <1>10, <1>11
    <3> HIDE DEF ph, hm, Gm, n2
    <3> QED BY <1>1, <1>9, <3>1
  <2> HIDE DEF a, c, Gm, n2
  <2>5. a * K < c * K + K /\ c * K < a * K + K
    BY <2>2, <2>3, <2>4
  <2>6. a = c
    BY <1>1, <2>2, <2>3, <2>5, SameMultiple
  <2>7. n2 = Gm
    BY <2>2, <2>3, <2>6
  <2> QED BY <1>8, <2>7 DEF n2, Gm
<1>13. CASE f + 1 < s - q
  <2> DEFINE i == (s - q) - (f + 1)
             I == 2^i
             c == (mu * m2) * I
  <2>1. i \in Nat /\ s - q = i + (f + 1)
    BY <1>1, <1>2, <1>13
  <2>2. I \in Nat /\ K = I * V
    <3> DEFINE o == f + 1
    <3>1. o \in Nat /\ s - q = i + o
      BY <1>2, <2>1
    <3> HIDE DEF i, o
    <3>2. 2^i \in Nat \ {0} /\ 2^(i + o) = 2^i * 2^o
      BY <2>1, <3>1, PowIsNat, PowSum
    <3> QED BY <3>1, <3>2 DEF K, V, o
  <2> HIDE DEF I
  <2>3. c \in Nat /\ Gm = c * V
    <3>1. (mu * (I * V)) * m2 = ((mu * m2) * I) * V /\ (mu * m2) * I \in Nat
      BY <1>1, <1>2, <2>2
    <3> QED BY <2>2, <3>1
  <2> HIDE DEF c
  <2>4. CASE 2 * hm <= V
    <3>1. m1 * V < c * V + V /\ c * V < m1 * V + V
      <4>1. n2 = m1 * V
        BY <1>3
      <4>2. n2 < Gm + V /\ Gm < n2 + V
        <5> HIDE DEF n2, Gm, hm
        <5> QED BY <1>2, <1>9, <2>4
      <4> QED BY <2>3, <4>1, <4>2
    <3>2. m1 = c
      BY <1>2, <1>6, <2>3, <3>1, SameMultiple
    <3>3. n2 = Gm
      BY <1>3, <2>3, <3>2
    <3> QED BY <1>8, <3>3 DEF n2, Gm
  <2>5. CASE ~(2 * hm <= V)
    <3> DEFINE ph == p * h
               pV == p * V
               pph == p * ph
    <3>1. V <= 2 * ph /\ ph \in Nat
      <4>1. hm <= ph /\ ph \in Nat
        BY <1>10
      <4> HIDE DEF ph, hm
      <4> QED BY <1>2, <1>9, <2>5, <4>1
    <3>2. n2 <= pV /\ pV \in Nat
      <4>1. m1 <= p /\ V <= V /\ V \in Nat /\ p \in Nat
        BY <1>1, <1>2, <1>6
      <4>2. m1 * V <= p * V /\ p * V \in Nat
        BY <1>6, <4>1, ProductGrows
      <4> QED BY <1>3, <4>2
    <3>3. pV <= 2 * pph /\ pph \in Nat
      <4> DEFINE e == 2 * ph
      <4>1. e \in Nat /\ V <= e /\ V \in Nat /\ p \in Nat /\ p <= p
        BY <1>1, <1>2, <3>1
      <4>2. p * e = 2 * pph /\ pph \in Nat
        <5> HIDE DEF ph
        <5> QED BY <1>1, <3>1
      <4> HIDE DEF e, pph
      <4>3. p * V <= p * e
        BY <4>1, ProductGrows
      <4> QED BY <4>2, <4>3
    <3>4. 4 * pph <= G
      <4> DEFINE a == 2 * (p * p)
                 b == 2 * h
      <4>1. a \in Nat /\ b \in Nat /\ a <= N /\ N \in Nat /\ b <= b
        BY <1>1
      <4>2. a * b = 4 * pph
        BY <1>1
      <4> HIDE DEF a, b, pph, G
      <4>3. a * b <= N * b
        BY <4>1, ProductGrows
      <4> QED BY <1>1, <4>2, <4>3 DEF b, G
    <3>5. G <= Gm
      <4>1. G * 1 <= G * m2
        <5> HIDE DEF G
        <5>1. 1 \in Nat /\ 1 <= m2 /\ G <= G
          BY <1>7
        <5> QED BY <1>6, <1>7, <5>1, ProductGrows
      <4>2. G * 1 = G
        <5> HIDE DEF G
        <5> QED BY <1>7
      <4> QED BY <4>1, <4>2
    <3>6. 4 * ph <= pph
      <4> HIDE DEF ph
      <4>1. 4 \in Nat /\ 4 <= p /\ p \in Nat /\ ph <= ph
        BY <1>1, <3>1
      <4> QED BY <3>1, <4>1, ProductGrows
    <3>7. hm <= ph /\ 1 <= ph
      <4>1. 1 * 1 <= p * h
        <5>1. 1 \in Nat /\ 1 <= p /\ p \in Nat /\ 1 <= h /\ h \in Nat
          BY <1>1
        <5> QED BY <5>1, ProductGrows
      <4> QED BY <1>10, <4>1
    <3> HIDE DEF ph, pV, pph, hm, Gm, n2, G
    <3>8. FALSE
      BY <1>7, <1>9, <3>1, <3>2, <3>3, <3>4, <3>5, <3>6, <3>7
    <3> QED BY <3>8
  <2> QED BY <2>4, <2>5
<1> QED BY <1>1, <1>2, <1>12, <1>13

(* Twice a root and a sticky bit.                                          *)
StickyRoot(n, i) == 2 * i + (IF i * i = n THEN 0 ELSE 1)

(* What is near twice g has a square near that of g.                       *)
LEMMA SquaresNear ==
  ASSUME NEW n \in Nat, NEW root \in Nat, root * root <= n, n < (root + 1) * (root + 1),
         NEW m, m = StickyRoot(n, root), NEW g \in Nat, NEW e \in Nat, m <= 2 * g + 2 * e, 2 * g <= m + 2 * e
  PROVE  /\ n <= g * g + 2 * (g * e) + e * e /\ g * g <= n + 2 * (g * e) + e * e
         /\ n = g * g => m = 2 * g
<1> DEFINE o == IF root * root = n THEN 0 ELSE 1
           rr == root * root
           ge == g * e
           gg == g * g
           ee == e * e
<1>1. m = 2 * root + o /\ o \in {0, 1} /\ (o = 0 <=> rr = n)
  BY DEF StickyRoot
<1>2. gg \in Nat /\ ge \in Nat /\ ee \in Nat /\ rr \in Nat /\ (g + e) * (g + e) = gg + 2 * ge + ee
  OBVIOUS
<1>3. n <= (g + e) * (g + e)
  <2> DEFINE a == g + e
             t == root + 1
  <2>1. a \in Nat /\ t \in Nat
    OBVIOUS
  <2>2. CASE o = 0
    <3>1. root <= a
      <4> HIDE DEF o
      <4> QED BY <1>1, <2>2
    <3> HIDE DEF a
    <3>2. root * root <= a * a
      BY <2>1, <3>1, ProductGrows
    <3>3. root * root = n
      BY <1>1, <2>2
    <3> QED BY <3>2, <3>3 DEF a
  <2>3. CASE o = 1
    <3>1. t <= a
      <4> HIDE DEF o
      <4> QED BY <1>1, <2>3
    <3>2. n < t * t
      OBVIOUS
    <3> HIDE DEF a, t
    <3>3. t * t <= a * a /\ t * t \in Nat /\ a * a \in Nat
      BY <2>1, <3>1, ProductGrows
    <3> DEFINE tt == t * t
               aa == a * a
    <3>4. n < tt /\ tt <= aa /\ tt \in Nat /\ aa \in Nat
      BY <3>2, <3>3
    <3> HIDE DEF tt, aa
    <3>5. n <= aa
      BY <3>4
    <3> QED BY <3>5 DEF aa, a
  <2> HIDE DEF o
  <2> QED BY <1>1, <2>2, <2>3
<1>4. gg <= n + 2 * ge + ee
  <2>1. CASE g < e
    <3>1. gg <= ge
      <4>1. g <= g /\ g <= e
        BY <2>1
      <4> QED BY <4>1, ProductGrows
    <3> HIDE DEF gg, ge, ee
    <3> QED BY <1>2, <3>1
  <2>2. CASE ~(g < e)
    <3> DEFINE b == g - e
    <3>1. b \in Nat /\ g = b + e /\ b <= root
      <4>1. b \in Nat /\ g = b + e
        BY <2>2
      <4> HIDE DEF b, o
      <4>2. 2 * b <= 2 * root + o
        BY <1>1, <4>1
      <4> QED BY <1>1, <4>1, <4>2
    <3> HIDE DEF b
    <3>2. b * b <= rr
      BY <3>1, ProductGrows
    <3> DEFINE bb == b * b
               be == b * e
    <3>3. gg = bb + 2 * be + ee /\ ge = be + ee /\ bb \in Nat /\ be \in Nat
      BY <3>1
    <3>4. bb <= rr /\ rr <= n
      BY <3>2
    <3> HIDE DEF bb, be, gg, ge, ee, rr
    <3> QED BY <1>2, <3>3, <3>4
  <2> QED BY <2>1, <2>2
<1>5. ASSUME n = gg PROVE m = 2 * g
  <2> DEFINE t == root + 1
             u == g + 1
  <2>1. t \in Nat /\ u \in Nat /\ rr <= gg /\ gg < t * t
    BY <1>5
  <2>2. ~(root < g)
    <3> SUFFICES ASSUME root < g PROVE FALSE
      OBVIOUS
    <3>1. t <= g
      OBVIOUS
    <3> HIDE DEF t
    <3>2. t * t <= g * g /\ t * t \in Nat
      BY <2>1, <3>1, ProductGrows
    <3> DEFINE tt == t * t
    <3>3. tt \in Nat /\ tt <= gg /\ gg < tt
      BY <2>1, <3>2
    <3> HIDE DEF tt, gg
    <3> QED BY <1>2, <3>3
  <2>3. ~(g < root)
    <3> SUFFICES ASSUME g < root PROVE FALSE
      OBVIOUS
    <3>1. u <= root
      OBVIOUS
    <3>2. u * u = gg + 2 * g + 1
      OBVIOUS
    <3> HIDE DEF u
    <3>3. u * u <= root * root
      BY <2>1, <3>1, ProductGrows
    <3> DEFINE uu == u * u
    <3>4. uu = gg + 2 * g + 1 /\ uu <= rr
      BY <3>2, <3>3
    <3> HIDE DEF uu, rr, gg
    <3> QED BY <1>2, <2>1, <3>4
  <2>4. root = g
    BY <2>2, <2>3
  <2>5. o = 0
    BY <1>1, <1>5, <2>4
  <2> HIDE DEF o
  <2> QED BY <1>1, <2>4, <2>5
<1> QED BY <1>2, <1>3, <1>4, <1>5

(* A root that is large has a large one before it was rounded down.        *)
LEMMA RootIsLarge ==
  ASSUME NEW n \in Nat, NEW root \in Nat, n < (root + 1) * (root + 1), NEW Q \in Nat, Q * Q <= n
  PROVE  Q <= root
<1> SUFFICES ASSUME root < Q PROVE FALSE
  OBVIOUS
<1> DEFINE t == root + 1
<1>1. t \in Nat /\ t <= Q /\ n < t * t
  OBVIOUS
<1> HIDE DEF t
<1>2. t * t <= Q * Q /\ t * t \in Nat /\ Q * Q \in Nat
  BY <1>1, ProductGrows
<1> DEFINE tt == t * t
           QQ == Q * Q
<1>3. tt \in Nat /\ QQ \in Nat /\ tt <= QQ /\ n < tt /\ QQ <= n
  BY <1>1, <1>2
<1> HIDE DEF tt, QQ
<1> QED BY <1>3

(* A root of a narrow number is apart from every middle.                   *)
LEMMA RootApart ==
  ASSUME NEW m1 \in Nat \ {0}, m1 < 2^P1, NEW w \in Nat, w >= 2 * P2 + 2, NEW n, n = m1 * 2^w,
         NEW root \in Nat, root * root <= n, n < (root + 1) * (root + 1), NEW m, m = StickyRoot(n, root),
         NEW q \in Int, NEW mu, NEW s, MiddleAt(mu, s)
  PROVE  Apart(m, q, mu, s)
<1> DEFINE T == (s + FP!bit_length(mu)) - P2
           D == 2^(T - q)
           K == 2^(s - q)
           G == mu * K
           p == 2^P1
           V == 2^w
           B == 2^P2
<1> SUFFICES ASSUME q < T, 2 * m <= 2 * G + D, 2 * G <= 2 * m + D PROVE m = G
  BY DEF Apart
<1>0. MiddleAt(mu, s) /\ q \in Int /\ q < (s + FP!bit_length(mu)) - P2
  OBVIOUS
<1>01. MiddleSized(mu, s, q)
  BY ONLY <1>0, MiddleSizes
<1>1. PICK h \in Nat \ {0}, J \in Nat \ {0}, N \in Nat \ {0} :
        /\ D = 2 * h /\ (D # 2 => \E e \in Nat : h = 2 * e)
        /\ s - q \in Nat /\ K \in Nat \ {0} /\ K = 2 * (J * h) /\ G = N * (2 * h)
        /\ mu \in Nat \ {0} /\ mu < J /\ N = mu * J
        /\ p \in Nat /\ p >= 4 /\ 2 * p <= J /\ 2 * (p * p) <= N /\ N < B
  BY <1>01 DEF MiddleSized
<1>2. V \in Nat \ {0} /\ B \in Nat \ {0} /\ P2 \in Nat /\ n = m1 * V /\ n \in Nat
  <2>1. V \in Nat \ {0} /\ B \in Nat \ {0} /\ P2 \in Nat
    BY Widths, PowIsNat
  <2>2. n = m1 * V
    OBVIOUS
  <2> HIDE DEF V
  <2> QED BY <2>1, <2>2
<1>3. 2 * m <= 2 * G + 2 * h /\ 2 * G <= 2 * m + 2 * h
  BY <1>1
<1>4. 2 * B <= root
  <2> DEFINE Q == 2^(P2 + 1)
  <2>1. P2 + 1 \in Nat /\ (P2 + 1) + (P2 + 1) \in Nat /\ (P2 + 1) + (P2 + 1) <= w
    BY <1>2
  <2>2. Q \in Nat \ {0} /\ Q = 2 * B /\ 2^((P2 + 1) + (P2 + 1)) = Q * Q /\ 2^((P2 + 1) + (P2 + 1)) <= V
    BY <1>2, <2>1, PowIsNat, PowNext, PowSum, PowMonotone
  <2>3. V <= n
    <3>1. 1 * V <= m1 * V
      <4> HIDE DEF V
      <4>1. 1 \in Nat /\ 1 <= m1 /\ m1 \in Nat /\ V \in Nat /\ V <= V
        BY <1>2
      <4> QED BY <4>1, ProductGrows
    <3>2. 1 * V = V
      <4> HIDE DEF V
      <4> QED BY <1>2
    <3> QED BY <1>2, <3>1, <3>2
  <2> HIDE DEF Q, V, B
  <2> DEFINE QQ == Q * Q
  <2>4. QQ \in Nat /\ QQ <= V
    BY <2>2
  <2> HIDE DEF QQ
  <2>5. QQ <= n
    BY <1>2, <2>3, <2>4
  <2>6. Q <= root
    BY <1>2, <2>2, <2>5, RootIsLarge DEF QQ
  <2> QED BY <2>2, <2>6
<1>5. m \in Nat /\ m >= 2 * root
  BY <1>2 DEF StickyRoot
<1>6. \E e \in Nat : h = 2 * e
  <2> SUFFICES ASSUME D = 2 PROVE FALSE
    BY <1>1
  <2>1. h = 1
    BY <1>1
  <2>2. G = 2 * N
    <3> HIDE DEF G
    <3> QED BY <1>1, <2>1
  <2> HIDE DEF G, D, B
  <2>3. N \in Nat /\ N < B
    BY <1>1 DEF B
  <2> QED BY <1>2, <1>3, <1>4, <1>5, <2>1, <2>2, <2>3
<1>7. PICK e \in Nat : h = 2 * e
  BY <1>6
<1> DEFINE k == J * h
           g == mu * k
           c == s - q - 1
<1>8. k \in Nat \ {0} /\ g \in Nat /\ G = 2 * g /\ g = N * h /\ c \in Nat /\ k = 2^c
  <2>1. k \in Nat \ {0} /\ K = 2 * k
    BY <1>1
  <2>2. s - q # 0
    <3> SUFFICES ASSUME s - q = 0 PROVE FALSE
      OBVIOUS
    <3>1. 2^0 = 1
      OBVIOUS
    <3>2. K = 1
      BY <3>1
    <3> HIDE DEF k, K
    <3> QED BY <2>1, <3>2
  <2> DEFINE i == s - q
  <2>3. i \in Nat /\ i # 0 /\ s \in Int
    BY <1>1, <2>2 DEF MiddleAt
  <2>4. c = i - 1
    BY <2>3
  <2> HIDE DEF i
  <2>5. c \in Nat /\ i = c + 1
    <3> DEFINE i1 == i - 1
    <3>1. i1 \in Nat /\ i = i1 + 1
      BY <2>3
    <3> HIDE DEF c
    <3> QED BY <2>4, <3>1
  <2> HIDE DEF c
  <2>6. 2^(c + 1) = 2 * 2^c /\ 2^c \in Nat
    BY <2>5, PowNext, PowIsNat
  <2>7. K = 2^i
    BY DEF i
  <2>8. k = 2^c
    <3> DEFINE C == 2^c
    <3>1. K = 2 * C /\ C \in Nat
      BY <2>5, <2>6, <2>7
    <3> HIDE DEF C, K, k
    <3>2. k = C
      BY <2>1, <3>1
    <3> QED BY <3>2 DEF C
  <2>9. g \in Nat /\ G = 2 * g /\ g = N * h
    <3>1. mu * (2 * (J * h)) = 2 * (mu * (J * h)) /\ mu * (J * h) \in Nat /\ mu * (J * h) = (mu * J) * h
      BY <1>1
    <3> HIDE DEF K
    <3> QED BY <1>1, <3>1
  <2> QED BY <2>1, <2>5, <2>8, <2>9
<1> HIDE DEF D, K, V, p, T, B, G, g, k, c
<1> DEFINE gg == g * g
           ge == g * e
           ee == e * e
           kk == k * k
<1>9. n <= gg + 2 * ge + ee /\ gg <= n + 2 * ge + ee /\ (n = gg => m = 2 * g)
      /\ gg \in Nat /\ ge \in Nat /\ ee \in Nat /\ kk \in Nat
  <2>1. m <= 2 * g + 2 * e /\ 2 * g <= m + 2 * e
    BY <1>3, <1>5, <1>7, <1>8
  <2>2. n <= g * g + 2 * (g * e) + e * e /\ g * g <= n + 2 * (g * e) + e * e /\ (n = g * g => m = 2 * g)
    BY <1>2, <1>8, <2>1, SquaresNear
  <2>3. gg \in Nat /\ ge \in Nat /\ ee \in Nat /\ kk \in Nat
    BY <1>7, <1>8
  <2> QED BY <2>2, <2>3
<1>10. n = gg => m = G
  BY <1>8, <1>9
<1> DEFINE Nee == N * ee
           slack == 2 * ge + ee
(* The slack, in the same units as the squares.                            *)
<1>11. ge = 2 * Nee /\ gg = 4 * (N * Nee) /\ Nee \in Nat /\ N * Nee \in Nat /\ ee \in Nat \ {0}
  <2>1. e \in Nat \ {0}
    BY <1>1, <1>7
  <2>2. g = 2 * (N * e) /\ N * e \in Nat
    <3>1. N * (2 * e) = 2 * (N * e)
      BY <1>1, <1>7
    <3> QED BY <1>1, <1>7, <1>8, <3>1
  <2> DEFINE x == N * e
  <2>3. (2 * x) * e = 2 * (x * e) /\ (2 * x) * (2 * x) = 4 * (x * x) /\ x * e = N * (e * e) /\ x * x = N * (N * (e * e))
    BY <1>1, <1>7
  <2>4. e * e \in Nat \ {0} /\ N * (e * e) \in Nat /\ N * (N * (e * e)) \in Nat
    <3>1. e * e \in Nat \ {0}
      <4>1. 1 * 1 <= e * e
        <5>1. 1 \in Nat /\ 1 <= e
          BY <2>1
        <5> QED BY <5>1, ProductGrows
      <4> QED BY <1>7, <4>1
    <3> DEFINE E == e * e
    <3> HIDE DEF E
    <3>2. N * E \in Nat /\ N * (N * E) \in Nat
      BY <1>1, <3>1 DEF E
    <3> QED BY <3>1, <3>2 DEF E
  <2> QED BY <2>2, <2>3, <2>4
<1>12. slack \in Nat /\ slack = 4 * Nee + ee
  <2> HIDE DEF ge, ee, Nee
  <2> QED BY <1>9, <1>11
<1>13. CASE w >= 2 * c
  <2> DEFINE i == w - 2 * c
             a == m1 * 2^i
             b == mu * mu
  <2>1. i \in Nat /\ w = i + (c + c) /\ c + c \in Nat
    BY <1>8, <1>13
  <2>2. a \in Nat /\ n = a * kk /\ kk \in Nat \ {0}
    <3> HIDE DEF i
    <3>1. 2^i \in Nat /\ 2^c \in Nat \ {0} /\ 2^(i + (c + c)) = 2^i * 2^(c + c) /\ 2^(c + c) = 2^c * 2^c
          /\ 2^(c + c) \in Nat \ {0}
      BY <1>8, <2>1, PowIsNat, PowSum
    <3>2. V = 2^i * kk /\ kk \in Nat \ {0}
      BY <1>8, <2>1, <3>1 DEF V
    <3>3. m1 * (2^i * kk) = (m1 * 2^i) * kk /\ m1 * 2^i \in Nat
      <4> DEFINE I == 2^i
      <4>1. I \in Nat
        BY <3>1
      <4> HIDE DEF I, kk
      <4>2. m1 * (I * kk) = (m1 * I) * kk /\ m1 * I \in Nat
        BY <3>2, <4>1
      <4> QED BY <4>2 DEF I
    <3> QED BY <1>2, <3>2, <3>3
  <2>3. b \in Nat /\ gg = b * kk
    <3>1. (mu * k) * (mu * k) = (mu * mu) * (k * k) /\ mu * mu \in Nat
      BY <1>1, <1>8
    <3> QED BY <3>1 DEF g
  <2>4. slack < kk
    <3> DEFINE x == J * e
               JJe == J * (J * ee)
               Je == J * ee
    <3>1. k = 2 * x /\ x \in Nat
      <4>1. J * (2 * e) = 2 * (J * e) /\ J * e \in Nat
        BY <1>1, <1>7
      <4> QED BY <1>7, <4>1 DEF k
    <3>2. kk = 4 * JJe /\ JJe \in Nat /\ Je \in Nat
      <4>1. (2 * (J * e)) * (2 * (J * e)) = 4 * (J * (J * (e * e))) /\ J * (e * e) \in Nat /\ J * (J * (e * e)) \in Nat
        BY <1>1, <1>7
      <4> QED BY <3>1, <4>1
    <3>3. JJe >= Nee + Je
      <4> DEFINE m3 == mu + 1
      <4>1. m3 \in Nat /\ m3 <= J /\ J \in Nat /\ Je <= Je /\ Je \in Nat
        BY <1>1, <3>2
      <4>2. m3 * Je = Nee + Je
        <5>1. (mu + 1) * (J * (e * e)) = (mu * J) * (e * e) + J * (e * e)
          BY <1>1, <1>7
        <5> QED BY <1>1, <5>1
      <4> HIDE DEF m3, Je, Nee
      <4>3. m3 * Je <= J * Je
        BY <4>1, ProductGrows
      <4> QED BY <4>2, <4>3 DEF Je
    <3>4. Je >= ee
      <4> HIDE DEF ee
      <4>1. 1 * ee <= J * ee
        <5>1. 1 \in Nat /\ 1 <= J /\ J \in Nat /\ ee \in Nat /\ ee <= ee
          BY <1>1, <1>9
        <5> QED BY <5>1, ProductGrows
      <4>2. 1 * ee = ee
        BY <1>9
      <4> QED BY <4>1, <4>2
    <3> HIDE DEF slack, kk, JJe, Je, Nee, ee
    <3> QED BY <1>11, <1>12, <3>2, <3>3, <3>4
  <2> HIDE DEF a, b, kk, gg
  <2>5. a * kk < b * kk + kk /\ b * kk < a * kk + kk
    <3>1. n < gg + kk /\ gg < n + kk
      <4>1. n <= gg + slack /\ gg <= n + slack
        <5> HIDE DEF ge, ee
        <5> QED BY <1>2, <1>9
      <4> HIDE DEF slack
      <4> QED BY <1>2, <1>9, <1>12, <2>2, <2>4, <4>1
    <3> QED BY <2>2, <2>3, <3>1
  <2>6. a = b
    BY <2>2, <2>3, <2>5, SameMultiple
  <2> QED BY <1>10, <2>2, <2>3, <2>6
<1>14. CASE w < 2 * c
  <2> DEFINE i == 2 * c - w
             I == 2^i
             b == (mu * mu) * I
  <2>1. i \in Nat /\ c + c = i + w
    BY <1>8, <1>14
  <2>2. I \in Nat /\ kk = I * V
    <3> HIDE DEF i
    <3>1. 2^i \in Nat \ {0} /\ 2^(i + w) = 2^i * 2^w /\ 2^(c + c) = 2^c * 2^c
      BY <1>8, <2>1, PowIsNat, PowSum
    <3> QED BY <1>8, <2>1, <3>1 DEF V
  <2> HIDE DEF I
  <2>3. b \in Nat /\ gg = b * V
    <3>1. (mu * k) * (mu * k) = (mu * mu) * (k * k) /\ (mu * mu) * (I * V) = ((mu * mu) * I) * V /\ (mu * mu) * I \in Nat
      BY <1>1, <1>2, <1>8, <2>2
    <3> QED BY <2>2, <3>1 DEF g
  <2>4. n <= gg + slack /\ gg <= n + slack
    <3> HIDE DEF gg, ge, ee
    <3> QED BY <1>2, <1>9
  <2> HIDE DEF b, gg
  <2>5. CASE slack < V
    <3>1. n < gg + V /\ gg < n + V
      <4> HIDE DEF slack
      <4> QED BY <1>2, <1>9, <1>12, <2>4, <2>5
    <3>2. m1 * V < b * V + V /\ b * V < m1 * V + V
      BY <1>2, <2>3, <3>1
    <3>3. m1 = b
      BY <1>2, <2>3, <3>2, SameMultiple
    <3> QED BY <1>2, <1>10, <2>3, <3>3
  <2>6. CASE ~(slack < V)
    <3> DEFINE pN == p * Nee
               NN == N * Nee
               pe == p * ee
    <3>1. n <= p * slack /\ p * slack \in Nat
      <4> HIDE DEF slack
      <4>1. m1 \in Nat /\ V \in Nat /\ p \in Nat /\ m1 <= p /\ V <= slack
        BY <1>1, <1>2, <1>12, <2>6 DEF p
      <4>2. m1 * V <= p * slack /\ p * slack \in Nat
        BY <1>12, <4>1, ProductGrows
      <4> QED BY <1>2, <4>2
    <3>2. p * slack = 4 * pN + pe /\ pN \in Nat /\ pe \in Nat
      <4> HIDE DEF Nee, ee, slack
      <4>1. p * (4 * Nee + ee) = 4 * (p * Nee) + p * ee /\ p * Nee \in Nat /\ p * ee \in Nat
        BY <1>1, <1>9, <1>11
      <4> QED BY <1>12, <4>1
    <3>3. 8 * pN <= NN
      <4> DEFINE x == 2 * (p * p)
                 y == 2 * (4 * p)
      <4>1. x \in Nat /\ x <= N /\ N \in Nat /\ y \in Nat
        BY <1>1
      <4>2. y <= x
        <5>1. 4 * p <= p * p
          <6>1. 4 \in Nat /\ 4 <= p /\ p \in Nat /\ p <= p
            BY <1>1
          <6> QED BY <6>1, ProductGrows
        <5> DEFINE pp == p * p
        <5>2. pp \in Nat /\ 4 * p <= pp
          BY <1>1, <5>1
        <5> HIDE DEF pp
        <5>3. 2 * (4 * p) <= 2 * pp
          BY <1>1, <5>2
        <5> QED BY <5>3 DEF pp
      <4>3. y * Nee = 8 * pN
        <5> HIDE DEF Nee
        <5> QED BY <1>1, <1>11
      <4> HIDE DEF x, y, Nee, pN, NN
      <4>4. y <= N /\ Nee <= Nee
        BY <1>11, <4>1, <4>2
      <4>5. y * Nee <= N * Nee
        BY <1>11, <4>1, <4>4, ProductGrows
      <4> QED BY <4>3, <4>5 DEF NN
    <3>4. Nee >= ee /\ pN >= pe /\ pN >= Nee
      <4> HIDE DEF ee
      <4>1. 1 * ee <= N * ee /\ 1 * ee = ee
        <5>1. 1 \in Nat /\ 1 <= N /\ N \in Nat /\ ee \in Nat /\ ee <= ee
          BY <1>1, <1>9
        <5> QED BY <1>9, <5>1, ProductGrows
      <4>2. p * ee <= p * Nee
        <5>1. p \in Nat /\ p <= p /\ ee \in Nat /\ Nee \in Nat /\ ee <= Nee
          BY <1>1, <1>9, <1>11, <4>1
        <5> HIDE DEF Nee
        <5> QED BY <5>1, ProductGrows
      <4>3. 1 * Nee <= p * Nee /\ 1 * Nee = Nee
        <5>1. 1 \in Nat /\ 1 <= p /\ p \in Nat /\ Nee \in Nat /\ Nee <= Nee
          BY <1>1, <1>11
        <5> HIDE DEF Nee
        <5> QED BY <5>1, ProductGrows
      <4> QED BY <4>1, <4>2, <4>3
    <3>5. gg = 4 * NN /\ NN \in Nat
      BY <1>11 DEF gg
    <3> HIDE DEF pN, NN, pe, slack, Nee, ee
    <3> DEFINE ps == p * slack
    <3>6. n <= ps /\ ps = 4 * pN + pe
      BY <3>1, <3>2
    <3> HIDE DEF ps
    <3>7. FALSE
      BY <1>2, <1>11, <1>12, <2>4, <3>2, <3>3, <3>4, <3>5, <3>6
    <3> QED BY <3>7
  <2> HIDE DEF slack
  <2> QED BY <2>5, <2>6
<1> QED BY <1>8, <1>13, <1>14

(* A number whose significand and last place are those of the narrow       *)
(* format.                                                                 *)
Narrow(x) == x \in Floats /\ ~FP!isnan(x) /\ x.m < 2^P1 /\ x.q >= Lowest(FP!F32)

(* What is unpacked from the narrow format is narrow.                      *)
LEMMA UnpackedNarrow ==
  ASSUME NEW u \in FP!Patterns(FP!F32), ~FP!isnan(FP!b2f(FP!F32, u))
  PROVE  Narrow(FP!b2f(FP!F32, u))
<1> DEFINE x == FP!b2f(FP!F32, u)
           a == FP!Abs(FP!F32, u)
           minus == u >= FP!SIGN(FP!F32)
<1>1. FP!F32 \in Formats /\ FP!F32.p = P1 /\ P1 \in Nat /\ Lowest(FP!F32) \in Int /\ Lowest(FP!F32) = 3 - 2^(E1 - 1) - P1
      /\ 2^(E1 - 1) \in Nat /\ P1 > 1 /\ P1 < 2^(E1 - 1)
  BY Widths
<1>2. x \in Floats /\ (FP!isnan(x) <=> FP!is_nan(FP!F32, u)) /\ a \in 0..(FP!SIGN(FP!F32) - 1)
  BY <1>1, UnpackedType, PatternFacts
<1>3. 2^P1 \in Nat \ {0} /\ Lowest(FP!F32) < 0
  <2> DEFINE e == 2^(E1 - 1)
             k == 2^P1
  <2>1. Lowest(FP!F32) = 3 - e - P1 /\ e \in Nat /\ P1 < e /\ k \in Nat \ {0}
    BY <1>1, PowIsNat
  <2> HIDE DEF e
  <2>2. Lowest(FP!F32) < 0
    BY <1>1, <2>1
  <2> QED BY <2>1, <2>2
<1>4. /\ a > FP!EXP(FP!F32) => x = FP!Nan
      /\ a = FP!EXP(FP!F32) => x = FP!Inf(minus)
      /\ a < FP!EXP(FP!F32) => x = FP!Num(minus, Significand(FP!F32, a), LastPlace(FP!F32, a))
  <2> HIDE DEF a, minus
  <2>1. a = FP!Abs(FP!F32, u) /\ minus = (u >= FP!SIGN(FP!F32))
    BY DEF a, minus
  <2> QED BY <1>1, <2>1, Unpacked
<1>5. FP!EXP(FP!F32) \in Nat /\ a \in Nat
  BY <1>1, <1>2, FormatFacts
<1>6. x.m < 2^P1 /\ x.q >= Lowest(FP!F32)
  <2>1. CASE a < FP!EXP(FP!F32)
    <3>1. x.m = Significand(FP!F32, a) /\ x.q = LastPlace(FP!F32, a)
      BY <1>4, <2>1 DEF FP!Num
    <3>2. Significand(FP!F32, a) < 2^P1
      BY <1>1, <1>2, SignificandFits
    <3>3. LastPlace(FP!F32, a) >= Lowest(FP!F32)
      <4> HIDE DEF a
      <4>1. \E d \in Nat : LastPlace(FP!F32, a) = d + Lowest(FP!F32)
        BY <1>1, <1>5, PutTogether
      <4>2. PICK d \in Nat : LastPlace(FP!F32, a) = d + Lowest(FP!F32)
        BY <4>1
      <4> QED BY <1>1, <4>2
    <3> QED BY <3>1, <3>2, <3>3
  <2>2. CASE a >= FP!EXP(FP!F32)
    <3>1. x.m = 0 /\ x.q = 0
      BY <1>4, <1>5, <2>2 DEF FP!Nan, FP!Inf
    <3> QED BY <1>1, <1>3, <3>1
  <2> QED BY <1>5, <2>1, <2>2
<1> QED BY <1>2, <1>6 DEF Narrow

(* A significand of the wide format's width is apart from the middles.     *)
LEMMA SmallHits ==
  ASSUME NEW m \in Nat, NEW q \in Int, m < 2^(P2 - 1)
  PROVE  HitsMiddles(m, q)
<1>1. ASSUME NEW mu, NEW s, MiddleAt(mu, s) PROVE Apart(m, q, mu, s)
  BY <1>1, SmallApart
<1> QED BY <1>1, Apartness

(* So is one of the narrow format's, and a product of two.                 *)
LEMMA NarrowPowers ==
  /\ 2^P1 \in Nat \ {0} /\ 2^(P2 - 1) \in Nat \ {0}
  /\ 2^P1 * 2^P1 <= 2^(P2 - 1) /\ 2^P1 <= 2^(P2 - 1)
<1>1. P1 \in Nat /\ P2 - 1 \in Nat /\ P1 + P1 \in Nat /\ P1 + P1 <= P2 - 1 /\ P1 <= P2 - 1
  BY Widths
<1>2. 2^(P1 + P1) = 2^P1 * 2^P1
  BY <1>1, PowSum
<1> QED BY <1>1, <1>2, PowIsNat, PowMonotone

(* A signed sum of narrow numbers, one of them scaled,                     *)
LEMMA SignedSumHits ==
  ASSUME NEW x \in Floats, NEW y \in Floats, NEW d \in Nat, x.m # 0, y.m # 0, x.m < 2^P1, y.m < 2^P1,
         x.q - d >= Lowest(FP!F32), NEW z, z = FP!SignedSum(x, y, d)
  PROVE  HitsMiddles(z.m, z.q)
<1> DEFINE A == x.m * 2^d
           i == IF x.neg THEN -x.m ELSE x.m
           j == IF y.neg THEN -y.m ELSE y.m
           t == i * 2^d + j
           m == IF t < 0 THEN -t ELSE t
           q == x.q - d
<1>1. x.m \in Nat \ {0} /\ y.m \in Nat \ {0} /\ x.q \in Int /\ x.neg \in BOOLEAN /\ y.neg \in BOOLEAN
      /\ 2^d \in Nat \ {0}
  BY FloatFacts, PowIsNat
<1>2. A \in Nat \ {0} /\ q \in Int /\ i * 2^d = (IF x.neg THEN -A ELSE A)
  <2> DEFINE k == 2^d
             n == x.m
  <2>1. n \in Nat \ {0} /\ k \in Nat \ {0} /\ x.q \in Int
    BY <1>1
  <2> HIDE DEF k, n
  <2>2. n * k \in Nat \ {0} /\ (-n) * k = -(n * k)
    BY <2>1
  <2> QED BY <1>1, <2>1, <2>2 DEF k, n
<1>3. z = IF t = 0 THEN FP!Num(x.neg /\ y.neg, 0, 0) ELSE FP!Num(t < 0, m, q)
  BY DEF FP!SignedSum
<1>4. t = (IF x.neg THEN -A ELSE A) + j
  BY <1>2
<1> HIDE DEF A, t
<1>5. t \in Int /\ m \in Nat /\ (m = A + y.m \/ m = A - y.m \/ m = y.m - A)
  <2> DEFINE n == y.m
  <2>1. n \in Nat /\ j = (IF y.neg THEN -n ELSE n)
    BY <1>1
  <2> HIDE DEF n, j
  <2>2. t \in Int /\ m \in Nat
    BY <1>1, <1>2, <1>4, <2>1
  <2>3. m = A + n \/ m = A - n \/ m = n - A
    <3>1. CASE x.neg /\ y.neg
      BY <1>2, <1>4, <2>1, <3>1
    <3>2. CASE x.neg /\ ~y.neg
      BY <1>2, <1>4, <2>1, <3>2
    <3>3. CASE ~x.neg /\ y.neg
      BY <1>2, <1>4, <2>1, <3>3
    <3>4. CASE ~x.neg /\ ~y.neg
      BY <1>2, <1>4, <2>1, <3>4
    <3> QED BY <3>1, <3>2, <3>3, <3>4
  <2> QED BY <2>2, <2>3 DEF n
<1>6. CASE t = 0
  <2>1. z.m = 0 /\ z.q = 0
    BY <1>3, <1>6 DEF FP!Num
  <2>2. 0 < 2^(P2 - 1)
    BY NarrowPowers
  <2> QED BY <2>1, <2>2, SmallHits
<1>7. CASE t # 0
  <2> HIDE DEF m, q
  <2>1. z.m = m /\ z.q = q
    BY <1>3, <1>7 DEF FP!Num
  <2>2. q \in Int /\ q >= Lowest(FP!F32)
    BY <1>2 DEF q
  <2> DEFINE m1 == x.m
             m2 == y.m
  <2>3. m1 \in Nat \ {0} /\ m1 < 2^P1 /\ m2 \in Nat \ {0} /\ m2 < 2^P1 /\ A = m1 * 2^d
        /\ (m = A + m2 \/ m = A - m2 \/ m = m2 - A)
    BY <1>1, <1>5 DEF A
  <2> HIDE DEF m1, m2
  <2>4. ASSUME NEW mu, NEW s, MiddleAt(mu, s) PROVE Apart(m, q, mu, s)
    <3>1. MiddleAt(mu, s) /\ m \in Nat /\ d \in Nat
      BY <1>5, <2>4
    <3> QED BY ONLY <2>2, <2>3, <3>1, SumApart
  <2>5. m \in Nat
    BY <1>5
  <2> QED BY ONLY <2>1, <2>2, <2>4, <2>5, Apartness
<1> QED BY <1>6, <1>7

(* The places that a sum shifts by.                                        *)
LEMMA FarIs == FP!Far \in Nat /\ FP!Far \div 2 + 2 \in Nat /\ FP!Far \div 2 + 2 <= FP!Far /\ FP!Far = 2 * P2 + 4
<1>1. P2 \in Nat
  BY Widths
<1>2. FP!Far = 2 * (P2 + 2) + 0 /\ FP!Far = 2 * P2 + 4 /\ FP!Far \in Int
  BY <1>1 DEF FP!Far
<1>3. FP!Far \div 2 = P2 + 2
  <2>1. P2 + 2 \in Int /\ 2 \in Nat \ {0} /\ 0 \in 0..(2 - 1)
    BY <1>1
  <2> HIDE DEF FP!Far
  <2> QED BY <1>2, <2>1, QuotientIs
<1> HIDE DEF FP!Far
<1> QED BY <1>1, <1>2, <1>3

(* a sum,                                                                  *)
LEMMA SumHits ==
  ASSUME NEW x, NEW y, Narrow(x), Narrow(y), NEW z, z = FP!Sum(x, y), ~FP!isnan(z), ~FP!isinf(z)
  PROVE  HitsMiddles(z.m, z.q)
<1>1. x \in Floats /\ y \in Floats /\ x.m < 2^P1 /\ y.m < 2^P1 /\ x.q >= Lowest(FP!F32) /\ y.q >= Lowest(FP!F32)
      /\ x.m \in Nat /\ y.m \in Nat /\ x.q \in Int /\ y.q \in Int /\ Lowest(FP!F32) \in Int
  BY FloatFacts, Widths DEF Narrow
<1>2. FP!isnan(FP!Nan)
  BY DEF FP!isnan, FP!Nan
<1>3. ~FP!isinf(x) /\ ~FP!isinf(y)
  BY <1>2 DEF FP!Sum
<1>4. CASE x.m = 0 \/ y.m = 0
  <2>1. (z.m = 0 /\ z.q = 0) \/ z = x \/ z = y
    BY <1>3, <1>4 DEF FP!Sum, FP!Num
  <2>2. z.m \in Nat /\ z.q \in Int /\ z.m < 2^(P2 - 1)
    BY <1>1, <2>1, NarrowPowers
  <2> QED BY <2>2, SmallHits
<1>5. CASE x.m # 0 /\ y.m # 0
  <2> DEFINE big == IF x.q >= y.q THEN x ELSE y
             small == IF x.q >= y.q THEN y ELSE x
             one == [small EXCEPT !.m = 1]
             d == big.q - small.q
  <2>1. z = IF d <= FP!Far THEN FP!SignedSum(big, small, d) ELSE FP!SignedSum(big, one, FP!Far \div 2 + 2)
    BY <1>3, <1>5 DEF FP!Sum
  <2>2. big \in Floats /\ small \in Floats /\ big.m # 0 /\ small.m # 0 /\ big.m < 2^P1 /\ small.m < 2^P1
        /\ small.q >= Lowest(FP!F32) /\ d \in Nat /\ big.q - d = small.q /\ big.q \in Int /\ small.q \in Int
    BY <1>1, <1>5
  <2>3. one \in Floats /\ one.m = 1 /\ 1 < 2^P1
    <3>1. one \in Floats /\ one.m = 1
      <4> HIDE DEF small
      <4> QED BY <2>2 DEF Floats
    <3>2. 1 <= small.m /\ small.m \in Nat
      BY <1>1, <2>2
    <3> QED BY <2>2, <3>1, <3>2, NarrowPowers
  <2> HIDE DEF big, small, one, d
  <2>4. CASE d <= FP!Far
    <3>1. z = FP!SignedSum(big, small, d) /\ big.q - d >= Lowest(FP!F32)
      BY <2>1, <2>2, <2>4
    <3> QED BY <2>2, <3>1, SignedSumHits
  <2>5. CASE ~(d <= FP!Far)
    <3> DEFINE e == FP!Far \div 2 + 2
    <3>1. z = FP!SignedSum(big, one, e)
      BY <2>1, <2>5
    <3>2. e \in Nat /\ e <= FP!Far /\ FP!Far \in Nat
      BY FarIs
    <3> HIDE DEF e
    <3>3. big.q - e >= Lowest(FP!F32)
      BY <1>1, <2>2, <2>5, <3>2
    <3>4. one.m # 0 /\ one.m < 2^P1
      BY <2>3
    <3> QED BY <2>2, <2>3, <3>1, <3>2, <3>3, <3>4, SignedSumHits
  <2> QED BY <2>4, <2>5
<1> QED BY <1>4, <1>5

(* a product                                                               *)
LEMMA ProductHits ==
  ASSUME NEW x, NEW y, Narrow(x), Narrow(y), NEW z, z = FP!Product(x, y), ~FP!isnan(z), ~FP!isinf(z)
  PROVE  HitsMiddles(z.m, z.q)
<1>1. x \in Floats /\ y \in Floats /\ x.m < 2^P1 /\ y.m < 2^P1
      /\ x.m \in Nat /\ y.m \in Nat /\ x.q \in Int /\ y.q \in Int
  BY FloatFacts DEF Narrow
<1>2. z = FP!Num(x.neg # y.neg, x.m * y.m, x.q + y.q)
  BY DEF FP!Product, FP!Nan, FP!Inf, FP!isnan, FP!isinf
<1> DEFINE m1 == x.m
           m2 == y.m
           p == 2^P1
           B == 2^(P2 - 1)
<1>3. z.m = m1 * m2 /\ z.q \in Int
  BY <1>1, <1>2 DEF FP!Num
<1>4. m1 \in Nat /\ m2 \in Nat /\ p \in Nat \ {0} /\ B \in Nat /\ m1 < p /\ m2 < p /\ p * p <= B
  BY <1>1, NarrowPowers
<1> HIDE DEF m1, m2, p, B
<1>5. m1 * m2 \in Nat /\ m1 * m2 < B
  <2> DEFINE c == p - 1
  <2>1. c \in Nat /\ m1 <= c /\ m2 <= p /\ p \in Nat
    BY <1>4
  <2>2. c * p = p * p - p /\ p * p \in Nat
    BY <1>4
  <2> HIDE DEF c
  <2>3. m1 * m2 <= c * p /\ m1 * m2 \in Nat
    BY <1>4, <2>1, ProductGrows
  <2> DEFINE mm == m1 * m2
             pp == p * p
  <2>4. mm \in Nat /\ pp \in Nat /\ mm <= pp - p /\ pp <= B
    BY <1>4, <2>2, <2>3
  <2> HIDE DEF mm, pp
  <2>5. mm < B
    BY <1>4, <2>4
  <2> QED BY <2>3, <2>5 DEF mm
<1> QED BY <1>3, <1>5, SmallHits DEF B

(* and a quotient of narrow numbers are.                                   *)
LEMMA QuotientHits ==
  ASSUME NEW x, NEW y, Narrow(x), Narrow(y), ~FP!iszero(y), NEW z, z = FP!Quotient(x, y), ~FP!isnan(z), ~FP!isinf(z)
  PROVE  HitsMiddles(z.m, z.q)
<1>1. x \in Floats /\ y \in Floats /\ x.m < 2^P1 /\ y.m < 2^P1
      /\ x.m \in Nat /\ y.m \in Nat /\ x.q \in Int /\ y.q \in Int /\ ~FP!isnan(y)
  BY FloatFacts DEF Narrow
<1>2. ~FP!isinf(x)
  BY DEF FP!Quotient, FP!Nan, FP!Inf, FP!isnan, FP!isinf
<1>3. CASE FP!isinf(y)
  <2>1. z.m = 0 /\ z.q = 0
    BY <1>2, <1>3 DEF FP!Quotient, FP!Num
  <2>2. 0 < 2^(P2 - 1)
    BY NarrowPowers
  <2> QED BY <2>1, <2>2, SmallHits
<1>4. CASE ~FP!isinf(y)
  <2> DEFINE m1 == x.m
             m2 == y.m
             f == FP!Far - 2
             n == m1 * 2^f
             m == Sticky(n, m2)
             q == x.q - y.q - FP!Far + 1
  <2>1. z.m = m /\ z.q = q
    BY <1>2, <1>4 DEF FP!Quotient, FP!Num, Sticky
  <2>2. m2 \in Nat \ {0}
    BY <1>1, <1>4, FloatFacts
  <2>3. f \in Nat /\ q \in Int /\ m1 \in Nat /\ m1 < 2^P1 /\ m2 < 2^P1
    <3> HIDE DEF FP!Far
    <3> QED BY <1>1, FarType
  <2>4. n \in Nat
    <3> HIDE DEF f
    <3>1. 2^f \in Nat
      BY <2>3, PowIsNat
    <3> QED BY <2>3, <3>1
  <2>5. m \in Nat
    <3> HIDE DEF n, m2
    <3>1. m = Sticky(n, m2)
      OBVIOUS
    <3> HIDE DEF m
    <3> QED BY ONLY <2>2, <2>4, <3>1, StickyQuotient
  <2>6. ASSUME NEW mu, NEW s, MiddleAt(mu, s) PROVE Apart(m, q, mu, s)
    <3>1. n = m1 * 2^f /\ m = Sticky(n, m2) /\ MiddleAt(mu, s)
      BY <2>6
    <3> HIDE DEF m1, m2, f, n, m, q
    <3> QED BY ONLY <2>2, <2>3, <3>1, QuotientApart
  <2> HIDE DEF m, q
  <2> QED BY ONLY <2>1, <2>3, <2>5, <2>6, Apartness
<1> QED BY <1>3, <1>4

(* The root that is chosen for a number that is not zero.                  *)
LEMMA RootIs ==
  ASSUME NEW x \in Floats, ~FP!isnan(x), ~FP!isinf(x), ~FP!iszero(x), x.m < 2^P2
  PROVE  \E i \in Nat :
           LET odd == x.q % 2
               e == FP!Far - 2 + odd
               n == x.m * 2^e
               q == (x.q - odd) \div 2 - (FP!Far - 2) \div 2 - 1
           IN  /\ e \in Nat /\ e >= 2 * P2 + 2 /\ n \in Nat /\ i * i <= n /\ n < (i + 1) * (i + 1)
               /\ q \in Int /\ FP!Root(x) = FP!Num(FALSE, StickyRoot(n, i), q)
<1> DEFINE odd == x.q % 2
           e == FP!Far - 2 + odd
           n == x.m * 2^e
           K == (P2 + FP!Far) \div 2
           RootOf(i) == i * i <= n /\ n < (i + 1) * (i + 1)
           root == CHOOSE i \in 0..2^K : RootOf(i)
           q == (x.q - odd) \div 2 - (FP!Far - 2) \div 2 - 1
<1>1. x.m \in Nat /\ x.q \in Int /\ P2 \in Nat /\ FP!Far \in Nat /\ FP!Far - 2 \in Nat /\ FP!Far = 2 * P2 + 4
  BY FloatFacts, FarType, FormatAssumption DEF FP!FormatAssumption, FP!Far
<1>2. odd \in 0..1
  BY <1>1
<1>3. e \in Nat /\ e <= FP!Far - 1 /\ e >= 2 * P2 + 2
  <2> HIDE DEF odd
  <2> QED BY <1>1, <1>2
<1>4. K \in Nat /\ P2 + e <= K + K
  <2> HIDE DEF e
  <2>1. K \in Nat /\ P2 + FP!Far <= 2 * K + 1
    BY <1>1
  <2> HIDE DEF K
  <2> QED BY <1>1, <1>3, <2>1
<1>5. n \in Nat /\ n < 2^K * 2^K
  <2> HIDE DEF e, K
  <2>1. 2^P2 \in Nat /\ 2^e \in Nat \ {0} /\ 2^(P2 + e) = 2^P2 * 2^e
    BY <1>1, <1>3, PowIsNat, PowSum
  <2>2. 2^(P2 + e) <= 2^(K + K)
    BY <1>1, <1>3, <1>4, PowMonotone
  <2>3. 2^(K + K) = 2^K * 2^K /\ 2^(K + K) \in Nat
    BY <1>4, PowSum, PowIsNat
  <2> DEFINE A == 2^P2
             B == 2^e
  <2>4. A \in Nat /\ B \in Nat \ {0} /\ x.m < A
    BY <2>1
  <2>5. n = x.m * B
    OBVIOUS
  <2>6. 2^(P2 + e) = A * B
    BY <2>1
  <2> HIDE DEF A, B, n
  <2>7. x.m * B < A * B /\ x.m * B \in Nat /\ A * B \in Nat
    BY <1>1, <2>4
  <2> QED BY <2>2, <2>3, <2>5, <2>6, <2>7
<1>6. 2^K \in Nat \ {0}
  BY <1>4, PowIsNat
<1>7. root \in 0..2^K /\ RootOf(root)
  <2> HIDE DEF n, K
  <2>1. \E i \in 0..2^K : RootOf(i)
    BY <1>5, <1>6, RootExists
  <2> QED BY <2>1
<1>8. root \in Nat
  BY <1>6, <1>7
<1>9. q \in Int
  <2>1. (FP!Far - 2) \div 2 \in Int
    BY <1>1
  <2>2. (x.q - odd) \div 2 \in Int
    <3> HIDE DEF odd
    <3> QED BY <1>1, <1>2
  <2> QED BY <2>1, <2>2
<1>10. FP!Root(x) = FP!Num(FALSE, StickyRoot(n, root), q)
  BY DEF FP!Root, StickyRoot
<1> HIDE DEF root
<1>11. root * root <= n /\ n < (root + 1) * (root + 1)
  BY <1>7
<1> HIDE DEF RootOf
<1> WITNESS root \in Nat
<1> QED BY <1>3, <1>5, <1>9, <1>10, <1>11

(* A root of a narrow number is apart from the middles.                    *)
LEMMA RootHits ==
  ASSUME NEW x, Narrow(x), NEW z, z = FP!Root(x), ~FP!isinf(z)
  PROVE  HitsMiddles(z.m, z.q)
<1>1. x \in Floats /\ x.m < 2^P1 /\ x.m \in Nat /\ x.q \in Int /\ ~FP!isnan(x) /\ ~FP!isinf(x)
  BY FloatFacts DEF Narrow, FP!Root
<1>2. CASE FP!iszero(x)
  <2>1. z = x /\ x.m = 0
    BY <1>2 DEF FP!Root, FP!iszero
  <2>2. 0 < 2^(P2 - 1)
    BY NarrowPowers
  <2> QED BY <1>1, <2>1, <2>2, SmallHits
<1>3. CASE ~FP!iszero(x)
  <2>1. x.m < 2^P2
    <3>1. 2^(P2 - 1) <= 2^P2
      <4>1. P2 \in Nat /\ P2 - 1 \in Nat /\ P2 - 1 <= P2
        BY Widths
      <4> QED BY <4>1, PowMonotone
    <3>2. 2^P2 \in Nat
      BY Widths, PowIsNat
    <3> DEFINE a == 2^P1
               b == 2^(P2 - 1)
               c == 2^P2
    <3>3. a \in Nat /\ b \in Nat /\ c \in Nat /\ a <= b /\ b <= c /\ x.m < a
      BY <1>1, <3>1, <3>2, NarrowPowers
    <3> HIDE DEF a, b, c
    <3>4. x.m < c
      BY <1>1, <3>3
    <3> QED BY <3>4 DEF c
  <2> DEFINE odd == x.q % 2
             e == FP!Far - 2 + odd
             n == x.m * 2^e
             q == (x.q - odd) \div 2 - (FP!Far - 2) \div 2 - 1
  <2>2. PICK i \in Nat :
          /\ e \in Nat /\ e >= 2 * P2 + 2 /\ n \in Nat /\ i * i <= n /\ n < (i + 1) * (i + 1)
          /\ q \in Int /\ FP!Root(x) = FP!Num(FALSE, StickyRoot(n, i), q)
    BY <1>1, <1>3, <2>1, RootIs
  <2> DEFINE m1 == x.m
             m == StickyRoot(n, i)
  <2>3. m1 \in Nat \ {0} /\ m1 < 2^P1
    BY <1>1, <1>3, FloatFacts
  <2>4. n = m1 * 2^e /\ m = StickyRoot(n, i)
    OBVIOUS
  <2>5. z.m = m /\ z.q = q
    BY <2>2 DEF FP!Num
  <2> HIDE DEF odd, e, n, q, m1, m
  <2>6. m \in Nat
    BY <2>2, <2>4 DEF StickyRoot
  <2>7. ASSUME NEW mu, NEW s, MiddleAt(mu, s) PROVE Apart(m, q, mu, s)
    <3>1. MiddleAt(mu, s)
      BY <2>7
    <3> QED BY ONLY <2>2, <2>3, <2>4, <3>1, RootApart
  <2> QED BY ONLY <2>2, <2>5, <2>6, <2>7, Apartness
<1> QED BY <1>2, <1>3

(* The result is x rounded once, to an infinity if it is one.              *)
Rounds(fmt, x, res) ==
  /\ res \in FP!Patterns(fmt) /\ (res >= FP!SIGN(fmt) <=> x.neg)
  /\ IF FP!isinf(x) THEN FP!Abs(fmt, res) = FP!EXP(fmt) ELSE FP!NearestTo(fmt, x, FP!Abs(fmt, res))

(* Through a Python float, a number apart from the middles is.             *)
LEMMA CodedRounds ==
  ASSUME NEW fmt \in Formats, NEW x \in Floats, ~FP!isnan(x),
         fmt = FP!F32 /\ ~FP!isinf(x) => HitsMiddles(x.m, x.q)
  PROVE  Rounds(fmt, x, FP!f2b(fmt, FP!PyFloat(x)))
<1>1. CASE FP!isinf(x)
  <2> DEFINE y == FP!PyFloat(x)
  <2>1. y \in Floats /\ ~FP!isnan(y) /\ y.neg = x.neg /\ FP!isinf(y)
    BY <1>1, Coded
  <2> HIDE DEF y
  <2>2. FP!f2b(fmt, y) \in FP!Patterns(fmt) /\ (FP!f2b(fmt, y) >= FP!SIGN(fmt) <=> y.neg) /\ FP!Abs(fmt, FP!f2b(fmt, y)) = FP!EXP(fmt)
    BY <2>1, Packed
  <2> QED BY <1>1, <2>1, <2>2 DEF Rounds, y
<1>2. CASE ~FP!isinf(x)
  <2>1. RoundedOnce(fmt, x, FP!f2b(fmt, FP!PyFloat(x)))
    <3>1. CASE fmt = FP!F32
      BY <1>2, <3>1, RoundsTwice
    <3>2. CASE fmt = FP!F64
      BY <1>2, <3>2, RoundsWide
    <3> QED BY <3>1, <3>2 DEF Formats
  <2> QED BY <1>2, <2>1 DEF RoundedOnce, Rounds
<1> QED BY <1>1, <1>2

(* What is exact of two narrow numbers is apart from the middles.          *)
LEMMA ExactHits ==
  ASSUME NEW op \in FP!Arithmetic, NEW x, NEW y, Narrow(x), Narrow(y), op = "div" => ~FP!iszero(y),
         NEW z, z = FP!Exact(op, x, y), ~FP!isnan(z), ~FP!isinf(z)
  PROVE  HitsMiddles(z.m, z.q)
<1>1. CASE op = "add"
  BY <1>1, SumHits DEF FP!Exact
<1>2. CASE op = "sub"
  <2> DEFINE w == [y EXCEPT !.neg = ~y.neg]
  <2>1. y \in Floats /\ ~FP!isnan(y)
    BY DEF Narrow
  <2>2. w \in Floats /\ w.m = y.m /\ w.q = y.q /\ w.kind = y.kind
    BY <2>1, NegatedFacts
  <2>3. z = FP!Sum(x, w)
    BY <1>2 DEF FP!Exact
  <2> HIDE DEF w
  <2>4. Narrow(w)
    BY <2>1, <2>2 DEF Narrow, FP!isnan
  <2> QED BY <2>3, <2>4, SumHits
<1>3. CASE op = "mul"
  BY <1>3, ProductHits DEF FP!Exact
<1>4. CASE op = "div"
  BY <1>4, QuotientHits DEF FP!Exact
<1> QED BY <1>1, <1>2, <1>3, <1>4 DEF FP!Arithmetic

(* add, sub, mul and div round once,                                       *)
LEMMA BinopRounds ==
  ASSUME NEW fmt \in Formats, NEW op \in FP!Arithmetic, NEW u \in FP!Patterns(fmt), NEW v \in FP!Patterns(fmt),
         NEW a, a = FP!b2f(fmt, u), NEW b, b = FP!b2f(fmt, v), ~FP!isnan(a), ~FP!isnan(b),
         op = "div" => ~FP!iszero(b), NEW z, z = FP!Exact(op, a, b), ~FP!isnan(z)
  PROVE  Rounds(fmt, z, FP!binop(fmt, op, u, v))
<1>1. a \in Floats /\ b \in Floats
  BY UnpackedType
<1>2. z \in Floats
  BY <1>1, ExactType
<1>3. FP!_binop_f(op, a, b) = FP!PyFloat(z)
  <2>1. CASE op = "div"
    <3>1. z = FP!Quotient(a, b)
      BY <2>1 DEF FP!Exact
    <3> QED BY <2>1, <3>1 DEF FP!_binop_f, FP!_div
  <2>2. CASE op # "div"
    BY <2>2 DEF FP!_binop_f
  <2> QED BY <2>1, <2>2
<1>4. FP!binop(fmt, op, u, v) = FP!f2b(fmt, FP!PyFloat(z))
  BY <1>3 DEF FP!binop
<1>5. fmt = FP!F32 /\ ~FP!isinf(z) => HitsMiddles(z.m, z.q)
  <2> SUFFICES ASSUME fmt = FP!F32, ~FP!isinf(z) PROVE HitsMiddles(z.m, z.q)
    OBVIOUS
  <2>1. Narrow(a) /\ Narrow(b)
    BY UnpackedNarrow
  <2> QED BY <2>1, ExactHits
<1> QED BY <1>2, <1>4, <1>5, CodedRounds

(* sqrt does                                                               *)
LEMMA SqrtRounds ==
  ASSUME NEW fmt \in Formats, NEW u \in FP!Patterns(fmt), NEW x, x = FP!b2f(fmt, u), ~FP!isnan(x),
         ~(x.neg /\ ~FP!iszero(x))
  PROVE  Rounds(fmt, FP!Root(x), FP!sqrt(fmt, u))
<1>1. x \in Floats /\ x.m < 2^P2
  BY UnpackedType, FloatFits
<1>2. FP!sqrt(fmt, u) = FP!f2b(fmt, FP!PyFloat(FP!Root(x)))
  BY <1>1, BelowZero DEF FP!sqrt
<1>3. FP!Root(x) \in Floats /\ ~FP!isnan(FP!Root(x))
  BY <1>1, RootType
<1>4. fmt = FP!F32 /\ ~FP!isinf(FP!Root(x)) => HitsMiddles(FP!Root(x).m, FP!Root(x).q)
  <2> SUFFICES ASSUME fmt = FP!F32, ~FP!isinf(FP!Root(x)) PROVE HitsMiddles(FP!Root(x).m, FP!Root(x).q)
    OBVIOUS
  <2>1. Narrow(x)
    BY UnpackedNarrow
  <2> QED BY <2>1, RootHits
<1> QED BY <1>2, <1>3, <1>4, CodedRounds

(* and so do promote and demote.                                           *)
LEMMA RecodeRounds ==
  ASSUME NEW from \in Formats, NEW to \in Formats, NEW u \in FP!Patterns(from),
         NEW x, x = FP!b2f(from, u), ~FP!isnan(x)
  PROVE  Rounds(to, x, FP!recode(from, to, u))
<1>1. x \in Floats /\ ~FP!is_nan(from, u)
  BY UnpackedType
<1>2. FP!recode(from, to, u) = FP!f2b(to, x)
  BY <1>1 DEF FP!recode
<1>3. CASE FP!isinf(x)
  <2>1. FP!f2b(to, x) \in FP!Patterns(to) /\ (FP!f2b(to, x) >= FP!SIGN(to) <=> x.neg) /\ FP!Abs(to, FP!f2b(to, x)) = FP!EXP(to)
    BY <1>1, <1>3, Packed
  <2> QED BY <1>2, <1>3, <2>1 DEF Rounds
<1>4. CASE ~FP!isinf(x)
  <2>1. RoundedOnce(to, x, FP!f2b(to, x))
    BY <1>1, <1>4, RoundsDirectly
  <2> QED BY <1>2, <1>4, <2>1 DEF RoundedOnce, Rounds
<1> QED BY <1>3, <1>4

(* A significand that is scaled.                                           *)
LEMMA ScaledIs ==
  ASSUME NEW k \in Nat, NEW s \in Int
  PROVE  FP!Product(FP!Num(FALSE, k, 0), FP!Num(FALSE, 1, s)) = FP!Num(FALSE, k, s)
<1> DEFINE a == FP!Num(FALSE, k, 0)
           b == FP!Num(FALSE, 1, s)
           x == FP!Product(a, b)
<1>1. a.neg = FALSE /\ b.neg = FALSE /\ ~FP!isinf(a) /\ ~FP!isinf(b) /\ a.m = k /\ a.q = 0 /\ b.m = 1 /\ b.q = s
  BY DEF FP!Num, FP!isinf
<1>2. x = FP!Num(a.neg # b.neg, a.m * b.m, a.q + b.q)
  BY <1>1 DEF FP!Product
<1>3. (a.neg # b.neg) = FALSE /\ a.m * b.m = k /\ a.q + b.q = s
  <2>1. a.neg = b.neg
    BY <1>1
  <2> HIDE DEF a, b
  <2>2. (a.neg # b.neg) = FALSE
    BY <2>1
  <2> QED BY <1>1, <2>2
<1> HIDE DEF a, b, x
<1>4. x = FP!Num(FALSE, k, s)
  BY <1>2, <1>3
<1> QED BY <1>4 DEF x, a, b

(* The bits of k places of 2^s, or the infinity they are beyond.           *)
PlacesOf(s, k) ==
  LET bits == (s - Lowest(FP!F32)) * Hidden(FP!F32) + k
  IN  IF bits > FP!EXP(FP!F32) THEN FP!EXP(FP!F32) ELSE bits

(* A full significand packs to those,                                      *)
LEMMA PackWhole ==
  ASSUME NEW k \in Nat \ {0}, FP!bit_length(k) = P1, NEW s \in Nat
  PROVE  FP!Pack(FP!F32, FP!Num(FALSE, k, s)) = PlacesOf(s, k)
<1> DEFINE x == FP!Num(FALSE, k, s)
           low == 3 - 2^(FP!F32.e - 1) - FP!F32.p
           top == FP!bit_length(x.m) + x.q - FP!F32.p
           t == IF top > low THEN top ELSE low
           keep == IF t <= x.q THEN x.m * 2^(x.q - t) ELSE FP!HalfEven(x.m, t - x.q)
           bits == (t - low) * 2^(FP!F32.p - 1) + keep
<1>1. x.m = k /\ x.q = s
  BY DEF FP!Num
<1>2. low = Lowest(FP!F32) /\ low < 0 /\ low \in Int /\ FP!F32.p = P1 /\ P1 \in Nat /\ Hidden(FP!F32) = 2^(FP!F32.p - 1)
  <2> DEFINE e == 2^(E1 - 1)
  <2>1. Lowest(FP!F32) = 3 - e - P1 /\ e \in Nat /\ P1 < e /\ P1 \in Nat /\ P1 > 1 /\ FP!F32.p = P1 /\ FP!F32.e = E1
    BY Widths
  <2> HIDE DEF e
  <2>2. Lowest(FP!F32) < 0 /\ Lowest(FP!F32) \in Int
    BY <2>1
  <2>3. low = Lowest(FP!F32)
    BY <2>1 DEF e
  <2> QED BY <2>1, <2>2, <2>3 DEF Hidden
<1>3. top = s
  <2>1. top = P1 + s - P1
    BY <1>1, <1>2
  <2> HIDE DEF top
  <2> QED BY <1>2, <2>1
<1>4. t = s
  <2> HIDE DEF top, low
  <2> QED BY <1>2, <1>3
<1>5. keep = k
  <2>1. s - s = 0 /\ 2^0 = 1 /\ k * 1 = k /\ s <= s
    OBVIOUS
  <2> HIDE DEF t
  <2>2. keep = k * 2^(s - s)
    BY <1>1, <1>4, <2>1
  <2> HIDE DEF keep
  <2> QED BY <2>1, <2>2
<1>6. FP!Pack(FP!F32, x) = IF x.m = 0 THEN 0 ELSE IF bits > FP!EXP(FP!F32) THEN FP!EXP(FP!F32) ELSE bits
  BY DEF FP!Pack
<1> HIDE DEF keep, t, low, x
<1>7. bits = (s - Lowest(FP!F32)) * Hidden(FP!F32) + k
  BY <1>2, <1>4, <1>5
<1> HIDE DEF bits
<1>8. FP!Pack(FP!F32, x) = PlacesOf(s, k)
  BY <1>1, <1>6, <1>7 DEF PlacesOf
<1> QED BY <1>8 DEF x

(* and so does an integer that is wider, rounded to the even one.          *)
LEMMA IntegerPacks ==
  ASSUME NEW a \in Nat, NEW n \in Nat, n = FP!bit_length(a), n > P1, NEW i \in Nat, i = n - P1
  PROVE  FP!Pack(FP!F32, FP!Num(FALSE, a, 0)) = PlacesOf(i, FP!HalfEven(a, i))
<1> DEFINE x == FP!Num(FALSE, a, 0)
           low == 3 - 2^(FP!F32.e - 1) - FP!F32.p
           top == FP!bit_length(x.m) + x.q - FP!F32.p
           t == IF top > low THEN top ELSE low
           keep == IF t <= x.q THEN x.m * 2^(x.q - t) ELSE FP!HalfEven(x.m, t - x.q)
           bits == (t - low) * 2^(FP!F32.p - 1) + keep
<1>1. x.m = a /\ x.q = 0
  BY DEF FP!Num
<1>2. low = Lowest(FP!F32) /\ low < 0 /\ low \in Int /\ FP!F32.p = P1 /\ P1 \in Nat /\ Hidden(FP!F32) = 2^(FP!F32.p - 1)
  <2> DEFINE e == 2^(E1 - 1)
  <2>1. Lowest(FP!F32) = 3 - e - P1 /\ e \in Nat /\ P1 < e /\ P1 \in Nat /\ P1 > 1 /\ FP!F32.p = P1 /\ FP!F32.e = E1
    BY Widths
  <2> HIDE DEF e
  <2>2. Lowest(FP!F32) < 0 /\ Lowest(FP!F32) \in Int
    BY <2>1
  <2>3. low = Lowest(FP!F32)
    BY <2>1 DEF e
  <2> QED BY <2>1, <2>2, <2>3 DEF Hidden
<1>3. top = i /\ i > 0
  <2>1. top = n + 0 - P1
    BY <1>1, <1>2
  <2> HIDE DEF top
  <2> QED BY <1>2, <2>1
<1>4. t = i
  <2> HIDE DEF top, low
  <2> QED BY <1>2, <1>3
<1>5. keep = FP!HalfEven(a, i)
  <2>1. i - 0 = i /\ ~(i <= 0)
    BY <1>3
  <2> HIDE DEF t
  <2> QED BY <1>1, <1>4, <2>1
<1>6. a # 0
  <2> SUFFICES ASSUME a = 0 PROVE FALSE
    OBVIOUS
  <2>1. 0 < 2^0 /\ 0 \in Nat
    OBVIOUS
  <2>2. FP!bit_length(0) <= 0
    BY <2>1, LengthBelow
  <2> QED BY <1>2, <2>2
<1>7. FP!Pack(FP!F32, x) = IF x.m = 0 THEN 0 ELSE IF bits > FP!EXP(FP!F32) THEN FP!EXP(FP!F32) ELSE bits
  BY DEF FP!Pack
<1> HIDE DEF keep, t, low, x
<1>8. bits = (i - Lowest(FP!F32)) * Hidden(FP!F32) + FP!HalfEven(a, i)
  BY <1>2, <1>4, <1>5
<1> HIDE DEF bits
<1>9. FP!Pack(FP!F32, x) = PlacesOf(i, FP!HalfEven(a, i))
  BY <1>1, <1>6, <1>7, <1>8 DEF PlacesOf
<1> QED BY <1>9 DEF x

(* An integer cut to the width of the significand, rounded to the even one.  *)
CutTo(a, i) ==
  LET keep == a \div 2^i
      rem == a % 2^i
      half == 2^(i - 1)
  IN  IF rem > half \/ (rem = half /\ keep % 2 = 1) THEN keep + 1 ELSE keep

(* What an integer leaves when it is cut to the width of the significand.  *)
LEMMA CutInteger ==
  ASSUME NEW a \in Nat, NEW i \in Nat \ {0}, FP!bit_length(a) = P1 + i, NEW keep, keep = a \div 2^i
  PROVE  /\ keep \in Nat \ {0} /\ Hidden(FP!F32) <= keep /\ keep < 2 * Hidden(FP!F32) /\ FP!bit_length(keep) = P1
         /\ FP!HalfEven(a, i) = CutTo(a, i) /\ CutTo(a, i) \in {keep, keep + 1}
<1> DEFINE n == FP!bit_length(a)
           rem == a % 2^i
           half == 2^(i - 1)
           c == IF rem > half \/ (rem = half /\ keep % 2 = 1) THEN keep + 1 ELSE keep
           H == Hidden(FP!F32)
           B == 2^i
           rr == 2 * rem
<1>1. P1 \in Nat /\ P1 > 1 /\ H \in Nat \ {0} /\ H = 2^(P1 - 1) /\ 2^P1 = 2 * H
  <2>1. P1 \in Nat /\ P1 > 1 /\ FP!F32 \in Formats /\ FP!F32.p = P1
    BY Widths
  <2> QED BY <2>1, FormatPlaces DEF Hidden
<1>2. i \in Nat \ {0} /\ n = P1 + i /\ n - 1 = (P1 - 1) + i /\ P1 - 1 \in Nat /\ i - 1 \in Nat /\ n \in Nat
  BY <1>1
<1>3. B \in Nat \ {0} /\ half \in Nat \ {0} /\ B = 2 * half
  <2> DEFINE j == i - 1
  <2>1. j \in Nat /\ i = j + 1
    BY <1>2
  <2> HIDE DEF j
  <2>2. 2^(j + 1) = 2 * 2^j /\ 2^j \in Nat \ {0}
    BY <2>1, PowIsNat, PowNext
  <2>3. half = 2^j /\ B = 2^(j + 1)
    BY <2>1 DEF j
  <2> HIDE DEF B
  <2> QED BY <2>2, <2>3
<1>4. H * B <= a /\ a < (2 * H) * B
  <2>1. a < 2^n /\ a >= 2^(n - 1)
    <3>1. Takes(a, n)
      BY LengthCounts
    <3> QED BY <1>1, <1>2, <3>1 DEF Takes
  <2>2. 2^(P1 + i) = 2^P1 * B /\ 2^((P1 - 1) + i) = 2^(P1 - 1) * B
    BY <1>1, <1>2, PowSum
  <2> HIDE DEF B
  <2> QED BY <1>1, <1>2, <2>1, <2>2
<1> HIDE DEF B
<1>5. keep \in Nat /\ rem \in 0..(B - 1) /\ a = B * keep + rem
  <2>1. a \in Int /\ a \div B \in Nat
    BY <1>3, QuotientType
  <2>2. a % B \in 0..(B - 1) /\ a = (B * (a \div B)) + (a % B)
    BY ONLY <1>3, <2>1, DivMod
  <2>3. keep = a \div B /\ rem = a % B
    BY DEF B
  <2> QED BY ONLY <2>1, <2>2, <2>3
<1> HIDE DEF H
<1>6. H <= keep /\ keep < 2 * H
  <2>1. ASSUME NEW g \in Nat, NEW d \in Nat, g < d PROVE g * B + B <= d * B /\ g * B \in Nat /\ d * B \in Nat
    <3>1. g + 1 \in Nat /\ g + 1 <= d /\ B <= B /\ B \in Nat
      BY <1>3, <2>1
    <3>2. (g + 1) * B <= d * B
      <4> DEFINE k == g + 1
      <4>1. k \in Nat /\ k <= d
        BY <3>1
      <4> HIDE DEF k
      <4>2. k * B <= d * B
        BY <3>1, <4>1, ProductGrows
      <4> QED BY <4>2 DEF k
    <3>3. (g + 1) * B = g * B + B /\ g * B \in Nat /\ d * B \in Nat
      BY <1>3
    <3> QED BY <3>2, <3>3
  <2> DEFINE kB == keep * B
             HB == H * B
             H2 == 2 * H
             H2B == H2 * B
  <2>2. a = kB + rem /\ kB \in Nat /\ HB <= a /\ a < H2B /\ HB \in Nat /\ H2B \in Nat /\ H2 \in Nat
    <3>1. B * keep = keep * B /\ keep * B \in Nat /\ H * B \in Nat
      BY <1>1, <1>3, <1>5
    <3>2. H2 \in Nat
      BY <1>1
    <3> HIDE DEF H2
    <3>3. H2B \in Nat
      BY <1>3, <3>2
    <3>4. a < H2B
      BY <1>4 DEF H2
    <3>5. HB <= a
      BY <1>4
    <3> QED BY <1>5, <3>1, <3>2, <3>3, <3>4, <3>5
  <2>3. (keep < H => kB + B <= HB) /\ (H2 < keep => H2B + B <= kB) /\ (H2 = keep => H2B = kB)
    <3> HIDE DEF H2
    <3> QED BY <1>1, <1>5, <2>1, <2>2
  <2> HIDE DEF kB, HB, H2B, H2
  <2>4. ~(keep < H) /\ ~(H2 < keep) /\ ~(H2 = keep)
    BY <1>3, <1>5, <2>2, <2>3
  <2>5. H <= keep /\ keep < H2
    BY <1>1, <1>5, <2>2, <2>4
  <2> QED BY <2>5 DEF H2
<1>7. FP!bit_length(keep) = P1
  <2>1. Takes(keep, P1)
    BY <1>1, <1>6 DEF Takes
  <2>2. FP!bit_length(keep) \in Nat /\ Takes(keep, FP!bit_length(keep))
    BY <1>5, LengthCounts
  <2> QED BY <1>1, <1>5, <2>1, <2>2, TakesOne
<1>8. FP!HalfEven(a, i) = IF rr > B \/ (rr = B /\ keep % 2 = 1) THEN keep + 1 ELSE keep
  <2>1. ~(i > n + 1)
    BY <1>1, <1>2
  <2> QED BY <2>1 DEF FP!HalfEven, B
<1>9. (rr > B <=> rem > half) /\ (rr = B <=> rem = half)
  <2> HIDE DEF rem, half
  <2> QED BY <1>3, <1>5
<1> HIDE DEF rr
<1>10. rem > half \/ (rem = half /\ keep % 2 = 1) <=> rr > B \/ (rr = B /\ keep % 2 = 1)
  BY <1>9, Zenon
<1>11. FP!HalfEven(a, i) = c
  BY <1>8, <1>10, Zenon
<1>12. CutTo(a, i) = c /\ c \in {keep, keep + 1}
  BY DEF CutTo
<1> HIDE DEF c
<1> QED BY <1>1, <1>5, <1>6, <1>7, <1>11, <1>12 DEF H

(* The significand and the exponent that are multiplied.                   *)
Kept(c) == IF c = 2^P1 THEN c \div 2 ELSE c
Scale(c, i) == IF c = 2^P1 THEN i + 1 ELSE i

(* The cut integer packs to what the whole one does.                       *)
HandPacks(a, i) ==
  LET c == CutTo(a, i)
  IN  /\ Kept(c) \in Nat
      /\ Scale(c, i) \in Nat
      /\ FP!Pack(FP!F32, FP!Num(FALSE, Kept(c), Scale(c, i))) = FP!Pack(FP!F32, FP!Num(FALSE, a, 0))

(* It does, whatever is cut.                                               *)
LEMMA HandRounded ==
  ASSUME NEW a \in Nat, NEW i \in Nat \ {0}, FP!bit_length(a) = P1 + i
  PROVE  HandPacks(a, i)
<1> DEFINE c == CutTo(a, i)
           k == Kept(c)
           s == Scale(c, i)
<1>a. c = CutTo(a, i) /\ k = Kept(c) /\ s = Scale(c, i)
  OBVIOUS
<1> HIDE DEF c, k, s
<1> SUFFICES k \in Nat /\ s \in Nat /\ FP!Pack(FP!F32, FP!Num(FALSE, k, s)) = FP!Pack(FP!F32, FP!Num(FALSE, a, 0))
  BY DEF HandPacks, c, k, s
<1>0. IF c = 2^P1 THEN k = c \div 2 /\ s = i + 1 ELSE k = c /\ s = i
  BY <1>a DEF Kept, Scale
<1> DEFINE H == Hidden(FP!F32)
           keep == a \div 2^i
<1>1. /\ keep \in Nat \ {0} /\ H <= keep /\ keep < 2 * H /\ FP!bit_length(keep) = P1 /\ FP!HalfEven(a, i) = c
      /\ c \in {keep, keep + 1}
  BY <1>a, CutInteger
<1> HIDE DEF keep
<1>2. P1 \in Nat /\ P1 > 1 /\ H \in Nat \ {0} /\ H = 2^(P1 - 1) /\ 2^P1 = 2 * H /\ Lowest(FP!F32) \in Int
  <2>1. P1 \in Nat /\ P1 > 1 /\ FP!F32 \in Formats /\ FP!F32.p = P1
    BY Widths
  <2> QED BY <2>1, FormatPlaces DEF Hidden
<1>3. FP!Pack(FP!F32, FP!Num(FALSE, a, 0)) = PlacesOf(i, c)
  <2>1. /\ a \in Nat /\ FP!bit_length(a) \in Nat /\ FP!bit_length(a) > P1 /\ i \in Nat
        /\ i = FP!bit_length(a) - P1
    BY <1>2
  <2>2. FP!Pack(FP!F32, FP!Num(FALSE, a, 0)) = PlacesOf(i, FP!HalfEven(a, i))
    BY ONLY <2>1, IntegerPacks
  <2> QED BY <1>1, <2>2
<1>4. ASSUME NEW j \in Nat, H <= j, j < 2 * H PROVE FP!bit_length(j) = P1 /\ j \in Nat \ {0}
  <2>1. Takes(j, P1)
    BY <1>2, <1>4 DEF Takes
  <2>2. FP!bit_length(j) \in Nat /\ Takes(j, FP!bit_length(j))
    BY LengthCounts
  <2>3. j \in Nat \ {0}
    <3> HIDE DEF H
    <3> QED BY <1>2, <1>4
  <2> QED BY <1>2, <2>1, <2>2, <2>3, TakesOne
<1> HIDE DEF H
<1>5. CASE c = 2^P1
  <2>1. c = 2 * H /\ s = i + 1 /\ k = c \div 2
    BY <1>0, <1>2, <1>5
  <2>2. k = H
    <3>1. k = (2 * H) \div 2
      BY <1>5, <2>1
    <3>2. 2 * H = 2 * H + 0 /\ 2 * H \in Int /\ H \in Int /\ 2 \in Nat \ {0} /\ 0 \in 0..(2 - 1)
      BY <1>2
    <3>3. (2 * H) \div 2 = H
      BY <3>2, QuotientIs
    <3> QED BY <3>1, <3>3
  <2>3. s \in Nat /\ FP!bit_length(H) = P1 /\ H \in Nat \ {0}
    <3>1. H \in Nat /\ H <= H /\ H < 2 * H
      BY <1>2
    <3> QED BY <1>4, <2>1, <3>1
  <2>4. FP!Pack(FP!F32, FP!Num(FALSE, k, s)) = PlacesOf(s, H)
    BY <2>2, <2>3, PackWhole
  <2>5. (s - Lowest(FP!F32)) * H + H = (i - Lowest(FP!F32)) * H + 2 * H
    <3> DEFINE l == Lowest(FP!F32)
    <3>1. l \in Int
      BY <1>2
    <3> HIDE DEF l
    <3>2. ((i + 1) - l) * H = (i - l) * H + H /\ (i - l) * H \in Int
      BY <1>2, <3>1
    <3> QED BY <1>2, <2>1, <3>2 DEF l
  <2>6. PlacesOf(s, H) = PlacesOf(i, c)
    BY <2>1, <2>5 DEF PlacesOf, H
  <2> QED BY <1>2, <1>3, <2>2, <2>3, <2>4, <2>6
<1>6. CASE c # 2^P1
  <2>1. k = c /\ s = i
    BY <1>0, <1>6
  <2>2. c \in Nat /\ H <= c /\ c < 2 * H
    BY <1>1, <1>2, <1>6
  <2>3. FP!bit_length(c) = P1 /\ c \in Nat \ {0}
    BY <1>4, <2>2
  <2>4. FP!Pack(FP!F32, FP!Num(FALSE, c, i)) = PlacesOf(i, c)
    BY <2>3, PackWhole
  <2> QED BY <1>3, <2>1, <2>2, <2>4
<1> QED BY <1>5, <1>6

(* A number that is not below zero.                                        *)
LEMMA MakesPlain ==
  ASSUME NEW m \in Nat, NEW q \in Int, NEW x, x = FP!Num(FALSE, m, q)
  PROVE  x \in Floats /\ ~FP!isnan(x) /\ ~FP!isinf(x) /\ x.neg = FALSE /\ x.m = m /\ x.q = q
  BY DEF Floats, FP!isnan, FP!isinf, FP!Num

(* An integer's f32 is the integer rounded once.                           *)
LEMMA IntToF32Rounds ==
  ASSUME NEW v \in Int
  PROVE  Rounds(FP!F32, FP!Integer(v), FP!_int_to_f32_bits(v))
<1> DEFINE a == IF v < 0 THEN -v ELSE v
           n == FP!bit_length(a)
           i == n - P1
           keep == a \div 2^i
           rem == a % 2^i
           half == 2^(i - 1)
           up == rem > half \/ (rem = half /\ keep % 2 = 1)
           carry == up /\ keep + 1 = 2^P1
           minus == v < 0
           res == FP!_int_to_f32_bits(v)
           x == FP!Num(FALSE, a, 0)
           S == FP!SIGN(FP!F32)
           top == IF minus THEN S ELSE 0
<1>1. FP!F32 \in Formats /\ P1 \in Nat /\ S \in Nat \ {0} /\ FP!EXP(FP!F32) \in Nat /\ FP!EXP(FP!F32) < S
  <2>1. FP!F32 \in Formats /\ P1 \in Nat
    BY Widths
  <2> DEFINE h == Hidden(FP!F32)
  <2>2. h \in Nat \ {0}
    BY <2>1, FormatPlaces
  <2>3. S = FP!EXP(FP!F32) + h /\ FP!EXP(FP!F32) \in Nat
    BY <2>1, FormatFacts
  <2> HIDE DEF h, S
  <2> QED BY <2>1, <2>2, <2>3
<1>2. a \in Nat /\ n \in Nat
  <2>1. a \in Nat
    OBVIOUS
  <2> HIDE DEF a
  <2> QED BY <2>1, LengthCounts
<1>3. res = IF v = 0 THEN 0
            ELSE top +
                 IF n <= P1 THEN FP!f2b(FP!F32, FP!PyFloat(FP!Integer(a)))
                 ELSE IF carry THEN FP!f2b(FP!F32, FP!Product(FP!Num(FALSE, (keep + 1) \div 2, 0), FP!Num(FALSE, 1, i + 1)))
                 ELSE FP!f2b(FP!F32, FP!Product(FP!Num(FALSE, IF up THEN keep + 1 ELSE keep, 0), FP!Num(FALSE, 1, i)))
  BY DEF FP!_int_to_f32_bits
<1>4. FP!Integer(v) = FP!Num(minus, a, 0) /\ minus \in BOOLEAN
  BY DEF FP!Integer
<1>5. FP!Integer(a) = x
  <2>1. (a < 0) = FALSE
    <3> HIDE DEF a
    <3> QED BY <1>2
  <2> HIDE DEF a
  <2>2. FP!Integer(a) = FP!Num(a < 0, a, 0)
    BY <2>1 DEF FP!Integer
  <2> QED BY <2>1, <2>2
<1>6. x \in Floats /\ ~FP!isnan(x) /\ ~FP!isinf(x) /\ x.neg = FALSE /\ x.m = a /\ x.q = 0
  <2>1. 0 \in Int /\ x = FP!Num(FALSE, a, 0)
    OBVIOUS
  <2> HIDE DEF a
  <2> QED BY <1>2 DEF Floats, FP!isnan, FP!isinf, FP!Num
<1>7. ~FP!isinf(FP!Integer(v)) /\ FP!Integer(v).neg = minus /\ FP!Integer(v).m = a /\ FP!Integer(v).q = 0
  <2>1. 0 \in Int
    OBVIOUS
  <2> DEFINE y == FP!Num(minus, a, 0)
  <2> HIDE DEF a, minus
  <2>2. ~FP!isinf(y) /\ y.neg = minus /\ y.m = a /\ y.q = 0
    BY <1>2, <1>4, <2>1, Makes
  <2> QED BY <1>4, <2>2
(* The magnitude's pattern is enough.                                      *)
<1>8. ASSUME NEW b \in 0..(S - 1), FP!NearestTo(FP!F32, x, b), res = top + b
      PROVE  Rounds(FP!F32, FP!Integer(v), res)
  <2>1. res = b + IF minus THEN S ELSE 0
    <3> HIDE DEF res, S, minus
    <3>1. top \in Nat
      BY <1>1
    <3> HIDE DEF top
    <3>2. res = b + top
      BY <1>8, <3>1
    <3> QED BY <3>2 DEF top
  <2>2. res \in FP!Patterns(FP!F32) /\ FP!Abs(FP!F32, res) = b /\ (res >= S <=> minus)
    <3>1. b \in 0..(FP!SIGN(FP!F32) - 1) /\ minus \in BOOLEAN /\ res = b + IF minus THEN FP!SIGN(FP!F32) ELSE 0
      BY <1>4, <1>8, <2>1
    <3> HIDE DEF res, minus
    <3> QED BY <1>1, <3>1, UnderASign
  <2>3. FP!NearestTo(FP!F32, FP!Integer(v), b)
    <3> HIDE DEF a, x
    <3> QED BY <1>6, <1>7, <1>8 DEF FP!NearestTo
  <2> HIDE DEF res, minus, a, x
  <2> QED BY <1>7, <2>2, <2>3 DEF Rounds
<1>9. FP!Pack(FP!F32, x) \in 0..(S - 1) /\ FP!NearestTo(FP!F32, x, FP!Pack(FP!F32, x)) /\ FP!f2b(FP!F32, x) = FP!Pack(FP!F32, x)
  <2> HIDE DEF x, S
  <2>1. FP!Pack(FP!F32, x) \in 0..FP!EXP(FP!F32) /\ FP!NearestTo(FP!F32, x, FP!Pack(FP!F32, x))
    BY <1>1, <1>6, PackType, PackNearest
  <2>2. FP!f2b(FP!F32, x) = 0 + FP!Pack(FP!F32, x)
    BY <1>6 DEF FP!f2b
  <2> QED BY <1>1, <2>1, <2>2
<1>10. CASE v = 0
  <2>1. res = 0 /\ a = 0 /\ ~minus
    BY <1>3, <1>10
  <2>2. FP!Pack(FP!F32, x) = 0
    <3> HIDE DEF a, x
    <3> QED BY <1>6, <2>1 DEF FP!Pack
  <2>3. 0 \in 0..(S - 1) /\ FP!NearestTo(FP!F32, x, 0)
    <3> HIDE DEF x
    <3> QED BY <1>9, <2>2
  <2>4. res = top + 0
    <3> HIDE DEF res, minus, S
    <3>1. top = 0
      BY <2>1
    <3> QED BY <2>1, <3>1
  <2> HIDE DEF res, minus, x, S, top
  <2> QED BY <1>8, <2>3, <2>4 DEF res
<1>11. CASE v # 0 /\ n <= P1
  <2> DEFINE b == FP!f2b(FP!F32, FP!PyFloat(x))
  <2>1. res = top + b
    <3> HIDE DEF res, minus, S, n, a, x
    <3> QED BY <1>3, <1>5, <1>11
  <2>2. HitsMiddles(a, 0)
    <3> HIDE DEF a
    <3>1. a < 2^n
      BY <1>2, LengthCounts DEF Takes
    <3>2. 2^n <= 2^P1 /\ 2^n \in Nat /\ 2^P1 \in Nat /\ 2^(P2 - 1) \in Nat /\ 2^P1 <= 2^(P2 - 1)
      <4> HIDE DEF n
      <4> QED BY <1>1, <1>2, <1>11, PowIsNat, PowMonotone, NarrowPowers
    <3> DEFINE A == 2^n
               B == 2^P1
               C == 2^(P2 - 1)
    <3>3. a < A /\ A <= B /\ B <= C /\ A \in Nat /\ B \in Nat /\ C \in Nat
      BY <3>1, <3>2
    <3> HIDE DEF A, B, C
    <3>4. a < C
      BY <1>2, <3>3
    <3>5. 0 \in Int
      OBVIOUS
    <3> QED BY <1>2, <3>4, <3>5, SmallHits DEF C
  <2>3. Rounds(FP!F32, x, b)
    <3> HIDE DEF a, x
    <3> QED BY <1>1, <1>6, <2>2, CodedRounds
  <2> HIDE DEF x, b
  <2>4. b \in FP!Patterns(FP!F32) /\ ~(b >= FP!SIGN(FP!F32)) /\ FP!NearestTo(FP!F32, x, FP!Abs(FP!F32, b))
    BY <1>6, <2>3 DEF Rounds
  <2>5. b = FP!Abs(FP!F32, b) /\ FP!Abs(FP!F32, b) \in 0..(S - 1)
    BY <1>1, <2>4, PatternFacts, SignedPattern
  <2>6. b \in 0..(S - 1) /\ FP!NearestTo(FP!F32, x, b)
    BY <2>4, <2>5
  <2> HIDE DEF res, minus, S, top
  <2> QED BY <1>8, <2>1, <2>6 DEF res
<1>12. CASE v # 0 /\ ~(n <= P1)
  <2> DEFINE k == IF carry THEN (keep + 1) \div 2 ELSE IF up THEN keep + 1 ELSE keep
             s == IF carry THEN i + 1 ELSE i
             y == FP!Num(FALSE, k, s)
  <2>1. n > P1 /\ i \in Nat
    <3> HIDE DEF n
    <3> QED BY <1>1, <1>2, <1>12
  <2>2. k \in Nat /\ s \in Nat /\ FP!Pack(FP!F32, y) = FP!Pack(FP!F32, x)
    <3> DEFINE c == IF up THEN keep + 1 ELSE keep
    <3>0. a \in Nat /\ i \in Nat \ {0} /\ FP!bit_length(a) = P1 + i /\ c = CutTo(a, i)
      <4>1. c = CutTo(a, i)
        BY DEF CutTo
      <4>2. n = P1 + i /\ i \in Nat \ {0}
        <5> HIDE DEF n
        <5> QED BY <1>1, <1>2, <2>1
      <4> QED BY <1>2, <4>1, <4>2
    <3>1. carry <=> c = 2^P1
      <4>1. keep \in Nat /\ keep < 2^P1
        <5> DEFINE H == Hidden(FP!F32)
        <5>1. keep < 2 * H /\ keep \in Nat
          <6> HIDE DEF a, i
          <6> QED BY ONLY <3>0, CutInteger DEF keep
        <5>2. 2^P1 = 2 * H
          BY <1>1, FormatPlaces, Widths
        <5> QED BY <5>1, <5>2
      <4> HIDE DEF keep, up
      <4>2. CASE up
        BY <4>2
      <4>3. CASE ~up
        BY <4>1, <4>3
      <4> QED BY <4>2, <4>3
    <3>2. k = Kept(c) /\ s = Scale(c, i)
      <4>1. CASE carry
        <5>1. c = keep + 1 /\ k = (keep + 1) \div 2 /\ s = i + 1
          BY <4>1
        <5> HIDE DEF c, k, s, carry, keep, i
        <5> QED BY <3>1, <4>1, <5>1 DEF Kept, Scale
      <4>2. CASE ~carry
        <5>1. k = c /\ s = i
          BY <4>2
        <5> HIDE DEF c, k, s, carry, i
        <5> QED BY <3>1, <4>2, <5>1 DEF Kept, Scale
      <4> QED BY <4>1, <4>2
    <3> HIDE DEF a, i, k, s, c
    <3>3. HandPacks(a, i)
      BY ONLY <3>0, HandRounded
    <3>4. k \in Nat /\ s \in Nat /\ FP!Pack(FP!F32, FP!Num(FALSE, k, s)) = FP!Pack(FP!F32, FP!Num(FALSE, a, 0))
      BY ONLY <3>0, <3>2, <3>3 DEF HandPacks
    <3> QED BY <3>4
  <2>3. FP!f2b(FP!F32, FP!Product(FP!Num(FALSE, k, 0), FP!Num(FALSE, 1, s))) = FP!Pack(FP!F32, x)
    <3> HIDE DEF k, s, x
    <3>0. k \in Nat /\ s \in Int
      BY <2>2
    <3>1. FP!Product(FP!Num(FALSE, k, 0), FP!Num(FALSE, 1, s)) = y
      BY <3>0, ScaledIs
    <3>2. y = FP!Num(FALSE, k, s)
      OBVIOUS
    <3> HIDE DEF y
    <3>5. y \in Floats /\ ~FP!isnan(y) /\ ~FP!isinf(y) /\ y.neg = FALSE
      BY <3>0, <3>2, MakesPlain
    <3>3. FP!f2b(FP!F32, y) = 0 + FP!Pack(FP!F32, y)
      BY <3>5 DEF FP!f2b
    <3>4. FP!Pack(FP!F32, x) \in Nat
      <4> HIDE DEF S
      <4> QED BY <1>1, <1>9
    <3>6. FP!Pack(FP!F32, y) = FP!Pack(FP!F32, x)
      BY <2>2 DEF y
    <3>7. FP!f2b(FP!F32, y) = FP!Pack(FP!F32, x)
      BY <3>3, <3>4, <3>6
    <3> QED BY <3>1, <3>7
  <2>4. res = top + FP!Pack(FP!F32, x)
    <3>1. CASE carry
      <4>1. k = (keep + 1) \div 2 /\ s = i + 1
        BY <3>1
      <4> HIDE DEF res, minus, S, a, n, i, keep, up, carry, k, s, x
      <4> QED BY <1>3, <1>12, <2>3, <3>1, <4>1
    <3>2. CASE ~carry
      <4>1. k = (IF up THEN keep + 1 ELSE keep) /\ s = i
        BY <3>2
      <4> HIDE DEF res, minus, S, a, n, i, keep, up, carry, k, s, x
      <4> QED BY <1>3, <1>12, <2>3, <3>2, <4>1
    <3> QED BY <3>1, <3>2
  <2> HIDE DEF res, minus, S, x, top
  <2> QED BY <1>8, <1>9, <2>4 DEF res
<1> QED BY <1>10, <1>11, <1>12

(* Every conversion rounds the integer once.                               *)
LEMMA ConvertRounds ==
  ASSUME NEW t \in {"f32", "f64"}, NEW from \in {"i32", "i64"}, NEW signed \in BOOLEAN,
         NEW v \in 0..(2^FP!Width(from) - 1), NEW n, n = (IF signed THEN FP!Signed(FP!Width(from), v) ELSE v)
  PROVE  n \in Int /\ Rounds(FP!Format(t), FP!Integer(n), FP!convert(t, from, signed, v))
<1> DEFINE w == FP!Width(from)
<1>1. w \in Nat \ {0}
  BY FormatAssumption DEF FP!FormatAssumption, FP!Width
<1>2. n \in Int
  <2>1. 2^w \in Nat
    BY <1>1, PowIsNat
  <2>2. v \in Int
    <3> HIDE DEF w
    <3> QED OBVIOUS
  <2>3. FP!Signed(w, v) \in Int
    <3>1. FP!Signed(w, v) = IF v >= 2^(w - 1) THEN v - 2^w ELSE v
      BY DEF FP!Signed
    <3> HIDE DEF w
    <3> QED BY <2>1, <2>2, <3>1
  <2> QED BY <2>2, <2>3
<1>3. FP!convert(t, from, signed, v) = IF t = "f32" THEN FP!_int_to_f32_bits(n) ELSE FP!f2b(FP!F64, FP!PyFloat(FP!Integer(n)))
  BY DEF FP!convert
<1>4. CASE t = "f32"
  <2>1. Rounds(FP!F32, FP!Integer(n), FP!_int_to_f32_bits(n))
    BY <1>2, IntToF32Rounds
  <2> QED BY <1>2, <1>3, <1>4, <2>1 DEF FP!Format
<1>5. CASE t = "f64"
  <2>1. FP!F64 \in Formats /\ FP!Format(t) = FP!F64 /\ FP!F64 # FP!F32
    <3>1. FP!F64.p # FP!F32.p
      BY Widths
    <3> QED BY <1>5, <3>1 DEF Formats, FP!Format
  <2>2. FP!Integer(n) \in Floats /\ ~FP!isnan(FP!Integer(n))
    BY <1>2, IntegerType
  <2>3. Rounds(FP!F64, FP!Integer(n), FP!f2b(FP!F64, FP!PyFloat(FP!Integer(n))))
    BY <2>1, <2>2, CodedRounds
  <2> QED BY <1>2, <1>3, <1>5, <2>1, <2>3
<1> QED BY <1>4, <1>5

(* What an instruction gave is its exact result rounded.                   *)
LEMMA OnceRan ==
  ASSUME FP!F \in Formats, NEW x \in Floats, FP!Mathematical = x, NEW n, fanswer = FP!Value(n), Rounds(FP!F, x, n)
  PROVE  FP!RoundsOnce
<1>1. FP!r = n
  BY ValueFacts DEF FP!r
<1>2. x.neg \in BOOLEAN
  BY FloatFacts
<1>3. (FP!r >= FP!SIGN(FP!F) <=> x.neg) /\ (IF FP!isinf(x) THEN FP!Abs(FP!F, FP!r) = FP!EXP(FP!F) ELSE FP!NearestTo(FP!F, x, FP!Abs(FP!F, FP!r)))
  BY <1>1 DEF Rounds
<1>4. (FP!r >= FP!SIGN(FP!F)) = x.neg
  <2> DEFINE minus == FP!r >= FP!SIGN(FP!F)
             y == x.neg
  <2>1. minus \in BOOLEAN /\ y \in BOOLEAN /\ (minus <=> y)
    BY <1>2, <1>3
  <2> HIDE DEF minus, y
  <2>2. minus = y
    BY <2>1
  <2> QED BY <2>2 DEF minus, y
<1> QED BY <1>3, <1>4 DEF FP!RoundsOnce

(* An arithmetic instruction does,                                         *)
LEMMA ArithmeticOnce ==
  ASSUME NEW ins, NEW stack, Ran(ins, stack), ins.op \in FP!Arithmetic, ~FP!Undefined, ~FP!Division
  PROVE  FP!RoundsOnce
<1> DEFINE u == stack[1]
           v == stack[2]
           x == FP!Exact(ins.op, FP!x1, FP!y1)
<1>1. /\ FP!Done /\ finput.ins = ins /\ FP!F \in Formats
      /\ u \in FP!Patterns(FP!F) /\ v \in FP!Patterns(FP!F) /\ FP!x1 = FP!b2f(FP!F, u) /\ FP!y1 = FP!b2f(FP!F, v)
      /\ fanswer = FP!Value(FP!binop(FP!F, ins.op, u, v))
  BY BinaryRan DEF Binary
<1>2. FP!Is(FP!Arithmetic) /\ FP!Is(FP!Arithmetic \cup {"min", "max"})
  BY <1>1 DEF FP!Is
<1>3. ~FP!isnan(FP!x1) /\ ~FP!isnan(FP!y1) /\ ~FP!isnan(x)
  BY <1>1, <1>2 DEF FP!Undefined
<1>4. ins.op = "div" => ~FP!iszero(FP!y1)
  BY <1>1 DEF FP!Division, FP!Is
<1>5. x \in Floats
  BY <1>1, <1>3, <1>4, UnpackedType, ExactType
<1>6. FP!Mathematical = x
  BY <1>1, <1>2 DEF FP!Mathematical, FP!Is, FP!Arithmetic
<1> HIDE DEF u, v, x
<1>7. Rounds(FP!F, x, FP!binop(FP!F, ins.op, u, v))
  BY <1>1, <1>3, <1>4, BinopRounds DEF x
<1> QED BY <1>1, <1>5, <1>6, <1>7, OnceRan

(* a root does,                                                            *)
LEMMA RootOnce ==
  ASSUME NEW ins, NEW stack, Ran(ins, stack), ins.op = "sqrt", ~FP!Undefined
  PROVE  FP!RoundsOnce
<1> DEFINE u == stack[1]
           x == FP!Root(FP!x1)
<1>1. /\ FP!Done /\ finput.ins = ins /\ FP!F \in Formats /\ u \in FP!Patterns(FP!F) /\ FP!x1 = FP!b2f(FP!F, u)
      /\ fanswer = FP!Value(FP!sqrt(FP!F, u))
  BY OneFloatRan DEF OneFloat
<1>2. FP!Is({"sqrt"}) /\ FP!Is(FP!Rounding \cup {"sqrt", "promote", "demote"})
      /\ ~FP!Is(FP!Arithmetic) /\ ~FP!Is({"promote", "demote"}) /\ ~FP!Is({"convert"})
  BY <1>1 DEF FP!Is, FP!Arithmetic
<1>3. ~FP!isnan(FP!x1) /\ ~(FP!x1.neg /\ ~FP!iszero(FP!x1))
  BY <1>2 DEF FP!Undefined
<1>4. x \in Floats
  BY <1>1, <1>3, UnpackedType, FloatFits, RootType
<1>5. FP!Mathematical = x
  BY <1>2 DEF FP!Mathematical
<1> HIDE DEF u, x
<1>6. Rounds(FP!F, x, FP!sqrt(FP!F, u))
  BY <1>1, <1>3, SqrtRounds DEF x
<1> QED BY <1>1, <1>4, <1>5, <1>6, OnceRan

(* a change of format does,                                                *)
LEMMA RecodingOnce ==
  ASSUME NEW ins, NEW stack, Ran(ins, stack), ins.op \in Recodings, ~FP!Undefined
  PROVE  FP!RoundsOnce
<1> DEFINE u == stack[1]
           x == FP!x1
<1>1. /\ FP!Done /\ finput.ins = ins /\ FP!F \in Formats /\ FP!From \in Formats /\ u \in FP!Patterns(FP!From)
      /\ x = FP!b2f(FP!From, u) /\ fanswer = FP!Value(FP!recode(FP!From, FP!F, u))
  BY RecodingRan
<1>2. FP!Is({"promote", "demote"}) /\ FP!Is(FP!Rounding \cup {"sqrt", "promote", "demote"})
      /\ ~FP!Is(FP!Arithmetic) /\ ~FP!Is({"sqrt"}) /\ ~FP!Is({"convert"})
  BY <1>1 DEF FP!Is, FP!Arithmetic, Recodings
<1>3. ~FP!isnan(x)
  BY <1>2 DEF FP!Undefined
<1>4. x \in Floats
  BY <1>1, UnpackedType
<1>5. FP!Mathematical = x
  BY <1>2 DEF FP!Mathematical
<1> HIDE DEF u, x
<1>6. Rounds(FP!F, x, FP!recode(FP!From, FP!F, u))
  BY <1>1, <1>3, RecodeRounds
<1> QED BY <1>1, <1>4, <1>5, <1>6, OnceRan

(* and so does an integer's float.                                         *)
LEMMA ConvertOnce ==
  ASSUME NEW ins, NEW stack, Ran(ins, stack), ins.op = "convert"
  PROVE  FP!RoundsOnce
<1> DEFINE v == stack[1]
           n == IF ins.signed THEN FP!Signed(FP!Width(ins.from), v) ELSE v
           x == FP!Integer(n)
<1>1. /\ FP!Done /\ finput.ins = ins /\ finput.stack = stack /\ FP!F \in Formats /\ FP!F = FP!Format(ins.t)
      /\ ins.t \in {"f32", "f64"} /\ ins.from \in {"i32", "i64"} /\ ins.signed \in BOOLEAN
      /\ v \in 0..(2^FP!Width(ins.from) - 1) /\ fanswer = FP!Value(FP!convert(ins.t, ins.from, ins.signed, v))
  BY ConvertRan
<1>2. FP!Is({"convert"}) /\ ~FP!Is(FP!Arithmetic) /\ ~FP!Is({"promote", "demote"}) /\ ~FP!Is({"sqrt"})
  BY <1>1 DEF FP!Is, FP!Arithmetic
<1>3. FP!Mathematical = x
  <2>1. FP!Operand = x
    BY <1>1 DEF FP!Operand
  <2> HIDE DEF x
  <2> QED BY <1>2, <2>1 DEF FP!Mathematical
<1> HIDE DEF v
<1>4. n \in Int /\ Rounds(FP!F, x, FP!convert(ins.t, ins.from, ins.signed, v))
  <2>1. n = IF ins.signed THEN FP!Signed(FP!Width(ins.from), v) ELSE v
    OBVIOUS
  <2> HIDE DEF n
  <2> QED BY <1>1, <2>1, ConvertRounds
<1> HIDE DEF n
<1>5. x \in Floats
  BY <1>4, IntegerType
<1> HIDE DEF x
<1> QED BY <1>1, <1>3, <1>4, <1>5, OnceRan

(* So every instruction that has run and has a result has rounded it once. *)
LEMMA RoundingsAreOnce ==
  ASSUME NEW ins, NEW stack, Ran(ins, stack)
  PROVE  FP!RoundsOnce
<1> DEFINE Rounders == FP!Arithmetic \cup {"sqrt", "promote", "demote", "convert"}
<1> SUFFICES ASSUME FP!Is(Rounders), ~FP!Undefined, ~FP!Division PROVE FP!RoundsOnce
  BY DEF FP!RoundsOnce
<1>1. finput.ins = ins
  BY DEF Ran
<1>2. ins.op \in Rounders
  <2> HIDE DEF Rounders
  <2> QED BY <1>1 DEF FP!Is
<1> QED BY <1>2, ArithmeticOnce, RootOnce, RecodingOnce, ConvertOnce DEF Recodings

(* Nothing executed, or one instruction that has run.                      *)
LEMMA ExecutedRoundsOnce == FloatExecuted => FP!RoundsOnce
<1> SUFFICES ASSUME FloatExecuted PROVE FP!RoundsOnce
  OBVIOUS
<1>1. PICK ins \in FP!AllInstrs : \E stack \in FP!OperandsOf(ins) :
        /\ finput = [ins |-> ins, stack |-> stack]
        /\ fanswer \in {FP!FTrap("not yet"), FP!_exec_instr(ins, stack)}
  BY DEF FloatExecuted
<1>2. PICK stack \in FP!OperandsOf(ins) :
        /\ finput = [ins |-> ins, stack |-> stack]
        /\ fanswer \in {FP!FTrap("not yet"), FP!_exec_instr(ins, stack)}
  BY <1>1
<1>3. CASE fanswer = FP!FTrap("not yet")
  <2>1. ~FP!Done
    BY <1>3 DEF FP!Done
  <2> QED BY <2>1 DEF FP!RoundsOnce, FP!Is
<1>4. CASE fanswer # FP!FTrap("not yet")
  <2>1. Ran(ins, stack)
    BY <1>2, <1>4 DEF Ran
  <2> QED BY <2>1, RoundingsAreOnce
<1> QED BY <1>3, <1>4

(* Every arithmetic result, root, change of format and conversion of an    *)
(* integer is the exact one rounded once, to nearest and ties to even,     *)
(* though an f32 one is rounded to an f64 before (fvalues.f32_binop,       *)
(* f32_sqrt, _int_to_f32_bits): in every format that is wide enough.       *)
THEOREM FloatsRoundOnce == FP!Spec => []RoundsOnce
<1>1. FloatExecuted => RoundsOnce
  BY ExecutedRoundsOnce DEF RoundsOnce
<1> QED BY <1>1, FloatsExecute, PTL
=============================================================================
