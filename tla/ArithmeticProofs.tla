-------------------------- MODULE ArithmeticProofs --------------------------
(***************************************************************************)
(* What MCArithmetic checks of the roundings of PreciseUnitMath, of their  *)
(* off-chain copies and of the quotes of the test helpers, for every scale *)
(* and for operands of any size.                                           *)
(*                                                                         *)
(* Solidity's signed division truncates, so every fact is first stated for *)
(* the quotient and the remainder of the two magnitudes, and the signs are *)
(* put back at the end. The quotes follow in the order of MCArithmetic:    *)
(* fees and multipliers, net asset value, pairs, exchanges, and perpetual  *)
(* futures. Each is cut into facts about products of naturals, in which    *)
(* every rounded quotient q of n by d is known only by d * q <= n < d * q  *)
(* + d (or the same rounded up), and the lemma that names the property     *)
(* puts the values of the quote in.                                        *)
(***************************************************************************)
EXTENDS MCArithmetic, LibraryProofs

-----------------------------------------------------------------------------
(* Division by magnitudes.                                                 *)

\* The quotient and the remainder of the magnitudes.
LEMMA MagnitudeQuotient ==
  ASSUME NEW n \in Int, NEW d \in Int \ {0}
  PROVE  LET q == Magnitude(n) \div Magnitude(d)
             r == Magnitude(n) - Magnitude(d) * q
         IN  /\ Magnitude(n) \in Nat
             /\ Magnitude(d) \in Nat \ {0}
             /\ q \in Nat
             /\ r \in 0 .. Magnitude(d) - 1
             /\ Magnitude(d) * q \in Nat
             /\ Magnitude(n) = Magnitude(d) * q + r
<1> DEFINE N == Magnitude(n)
           D == Magnitude(d)
           q == N \div D
<1>1. N \in Nat /\ D \in Nat \ {0}
  BY DEF Magnitude
<1> HIDE DEF N, D
<1>2. q \in Nat /\ D * q <= N /\ N < D * q + D
  BY <1>1, DivBounds
<1> HIDE DEF q
<1>3. D * q \in Nat
  BY <1>1, <1>2
<1>4. N - D * q \in 0 .. D - 1 /\ N = D * q + (N - D * q)
  BY <1>1, <1>2, <1>3
<1> QED BY <1>1, <1>2, <1>3, <1>4 DEF N, D, q

\* What Solidity's division and remainder return: the quotient with the sign
\* of the product, the remainder with the sign of the dividend.
LEMMA TruncatedDivision ==
  ASSUME NEW n \in Int, NEW d \in Int \ {0}
  PROVE  LET q == Magnitude(n) \div Magnitude(d)
             r == Magnitude(n) - Magnitude(d) * q
         IN  /\ TruncDiv(n, d) \in Int
             /\ TruncDiv(n, d) = IF SignsDiffer(n, d) THEN -q ELSE q
             /\ TruncMod(n, d) = IF n < 0 THEN -r ELSE r
<1> DEFINE N == Magnitude(n)
           D == Magnitude(d)
           q == N \div D
           r == N - D * q
<1>1. N \in Nat /\ D \in Nat \ {0} /\ q \in Nat /\ D * q \in Nat
  BY MagnitudeQuotient
<1>2. TruncDiv(n, d) = IF SignsDiffer(n, d) THEN -q ELSE q
  BY DEF TruncDiv
<1>3. /\ n < 0 => n = -N
      /\ n >= 0 => n = N
      /\ d < 0 => d = -D
      /\ d >= 0 => d = D
  BY DEF Magnitude
<1>4. SignsDiffer(n, d) <=> (n < 0 /\ d >= 0) \/ (n >= 0 /\ d < 0)
  BY DEF SignsDiffer
<1> HIDE DEF N, D, q
<1>5. /\ D * (-q) = -(D * q)
      /\ (-D) * q = -(D * q)
      /\ (-D) * (-q) = D * q
  BY <1>1
<1>6. d * TruncDiv(n, d) = IF n < 0 THEN -(D * q) ELSE D * q
  <2>1. CASE n < 0 /\ d < 0
    <3>1. TruncDiv(n, d) = q /\ d = -D
      BY <2>1, <1>2, <1>3, <1>4
    <3> QED BY <2>1, <3>1, <1>5
  <2>2. CASE n < 0 /\ d >= 0
    <3>1. TruncDiv(n, d) = -q /\ d = D
      BY <2>2, <1>2, <1>3, <1>4
    <3> QED BY <2>2, <3>1, <1>5
  <2>3. CASE n >= 0 /\ d < 0
    <3>1. TruncDiv(n, d) = -q /\ d = -D
      BY <2>3, <1>2, <1>3, <1>4
    <3> QED BY <2>3, <3>1, <1>5
  <2>4. CASE n >= 0 /\ d >= 0
    <3>1. TruncDiv(n, d) = q /\ d = D
      BY <2>4, <1>2, <1>3, <1>4
    <3> QED BY <2>4, <3>1, <1>5
  <2> QED BY <2>1, <2>2, <2>3, <2>4
<1>7. TruncMod(n, d) = IF n < 0 THEN -r ELSE r
  <2>1. TruncMod(n, d) = n - d * TruncDiv(n, d)
    BY DEF TruncMod
  <2>2. CASE n < 0
    <3>1. TruncMod(n, d) = -N - (-(D * q))
      BY <2>1, <2>2, <1>3, <1>6
    <3> QED BY <3>1, <2>2, <1>1
  <2>3. CASE n >= 0
    <3>1. TruncMod(n, d) = N - D * q
      BY <2>1, <2>3, <1>3, <1>6
    <3> QED BY <3>1, <2>3, <1>1
  <2> QED BY <2>2, <2>3
<1>8. TruncDiv(n, d) \in Int
  BY <1>1, <1>2
<1> QED BY <1>2, <1>7, <1>8 DEF N, D, q

-----------------------------------------------------------------------------
(* The roundings of the contracts.                                         *)

\* divDown rounds towards minus infinity whatever the signs.
LEMMA DivDownIsReference ==
  ASSUME NEW n \in Int, NEW d \in Int \ {0}
  PROVE  IsFloor(DivDown(n, d), n, d)
<1> DEFINE N == Magnitude(n)
           D == Magnitude(d)
           q == N \div D
           r == N - D * q
<1>1. /\ N \in Nat /\ D \in Nat \ {0} /\ q \in Nat /\ D * q \in Nat
      /\ r \in 0 .. D - 1 /\ N = D * q + r
  BY MagnitudeQuotient
<1>2. /\ TruncDiv(n, d) = IF SignsDiffer(n, d) THEN -q ELSE q
      /\ TruncMod(n, d) = IF n < 0 THEN -r ELSE r
  BY TruncatedDivision
<1>3. /\ n < 0 => n = -N
      /\ n >= 0 => n = N
      /\ d < 0 => d = -D
      /\ d >= 0 => d = D
  BY DEF Magnitude
<1>4. SignsDiffer(n, d) <=> (n < 0 /\ d >= 0) \/ (n >= 0 /\ d < 0)
  BY DEF SignsDiffer
<1> HIDE DEF N, D, q, r
<1>5. DivDown(n, d) = IF SignsDiffer(n, d)
                      THEN IF r # 0 THEN -q - 1 ELSE -q
                      ELSE q
  <2>1. TruncMod(n, d) # 0 <=> r # 0
    BY <1>1, <1>2
  <2> QED BY <2>1, <1>2 DEF DivDown
<1>6. /\ q * D = D * q /\ (q + 1) * D = D * q + D
      /\ (-q) * D = -(D * q) /\ (-q + 1) * D = -(D * q) + D
      /\ (-q - 1) * D = -(D * q) - D
      /\ (-q - 1 + 1) * D = -(D * q)
      /\ q * (-D) = -(D * q) /\ (q + 1) * (-D) = -(D * q) - D
      /\ (-q) * (-D) = D * q /\ (-q + 1) * (-D) = D * q - D
      /\ (-q - 1) * (-D) = D * q + D
      /\ (-q - 1 + 1) * (-D) = D * q
  BY <1>1
<1> DEFINE p == D * q
<1>7. p \in Nat
  BY <1>1
<1>8. CASE n < 0 /\ d < 0
  <2>1. DivDown(n, d) = q /\ d = -D /\ n = -(p + r)
    BY <1>8, <1>1, <1>3, <1>4, <1>5
  <2>2. DivDown(n, d) * d = -p /\ (DivDown(n, d) + 1) * d = -p - D
    BY <2>1, <1>6
  <2> HIDE DEF p
  <2> QED BY <1>1, <1>7, <1>8, <2>1, <2>2 DEF IsFloor
<1>9. CASE n >= 0 /\ d >= 0
  <2>1. DivDown(n, d) = q /\ d = D /\ n = p + r
    BY <1>9, <1>1, <1>3, <1>4, <1>5
  <2>2. DivDown(n, d) * d = p /\ (DivDown(n, d) + 1) * d = p + D
    BY <2>1, <1>6
  <2> HIDE DEF p
  <2> QED BY <1>1, <1>7, <1>9, <2>1, <2>2 DEF IsFloor
<1>10. CASE n < 0 /\ d >= 0
  <2>1. /\ DivDown(n, d) = IF r # 0 THEN -q - 1 ELSE -q
        /\ d = D /\ n = -(p + r)
    BY <1>10, <1>1, <1>3, <1>4, <1>5
  <2>2. CASE r # 0
    <3>1. DivDown(n, d) * d = -p - D /\ (DivDown(n, d) + 1) * d = -p
      BY <2>1, <2>2, <1>6
    <3> HIDE DEF p
    <3> QED BY <1>1, <1>7, <1>10, <2>1, <2>2, <3>1 DEF IsFloor
  <2>3. CASE r = 0
    <3>1. DivDown(n, d) * d = -p /\ (DivDown(n, d) + 1) * d = -p + D
      BY <2>1, <2>3, <1>6
    <3> HIDE DEF p
    <3> QED BY <1>1, <1>7, <1>10, <2>1, <2>3, <3>1 DEF IsFloor
  <2> QED BY <2>2, <2>3
<1>11. CASE n >= 0 /\ d < 0
  <2>1. /\ DivDown(n, d) = IF r # 0 THEN -q - 1 ELSE -q
        /\ d = -D /\ n = p + r
    BY <1>11, <1>1, <1>3, <1>4, <1>5
  <2>2. CASE r # 0
    <3>1. DivDown(n, d) * d = p + D /\ (DivDown(n, d) + 1) * d = p
      BY <2>1, <2>2, <1>6
    <3> HIDE DEF p
    <3> QED BY <1>1, <1>7, <1>11, <2>1, <2>2, <3>1 DEF IsFloor
  <2>3. CASE r = 0
    <3>1. DivDown(n, d) * d = p /\ (DivDown(n, d) + 1) * d = p - D
      BY <2>1, <2>3, <1>6
    <3> HIDE DEF p
    <3> QED BY <1>1, <1>7, <1>11, <2>1, <2>3, <3>1 DEF IsFloor
  <2> QED BY <2>2, <2>3
<1> QED BY <1>8, <1>9, <1>10, <1>11

\* The rule of both preciseDivCeil overloads on signed operands: the
\* truncated quotient, moved away from zero when it is inexact.
AwayFromZero(n, d) ==
  IF TruncMod(n, d) = 0 THEN TruncDiv(n, d)
  ELSE IF SignsDiffer(n, d) THEN TruncDiv(n, d) - 1
  ELSE TruncDiv(n, d) + 1

\* It rounds away from zero whatever the signs.
LEMMA AwayFromZeroIsReference ==
  ASSUME NEW n \in Int, NEW d \in Int \ {0}
  PROVE  IsAwayFromZero(AwayFromZero(n, d), n, d)
<1> DEFINE N == Magnitude(n)
           D == Magnitude(d)
           q == N \div D
           r == N - D * q
           up == IF r = 0 THEN q ELSE q + 1
           c == AwayFromZero(n, d)
<1>1. /\ N \in Nat /\ D \in Nat \ {0} /\ q \in Nat /\ D * q \in Nat
      /\ r \in 0 .. D - 1 /\ N = D * q + r
  BY MagnitudeQuotient
<1>2. /\ TruncDiv(n, d) = IF SignsDiffer(n, d) THEN -q ELSE q
      /\ TruncMod(n, d) = IF n < 0 THEN -r ELSE r
  BY TruncatedDivision
<1>3. /\ n # 0 <=> N # 0
      /\ N >= 0
  BY DEF Magnitude
<1> HIDE DEF N, D, q
<1>4. c = IF SignsDiffer(n, d) THEN -up ELSE up
  <2>1. TruncMod(n, d) = 0 <=> r = 0
    BY <1>1, <1>2
  <2> HIDE DEF r
  <2>2. CASE r = 0
    BY <2>1, <2>2, <1>1, <1>2 DEF AwayFromZero
  <2>3. CASE r # 0 /\ SignsDiffer(n, d)
    <3>1. AwayFromZero(n, d) = -q - 1
      BY <2>1, <2>3, <1>2 DEF AwayFromZero
    <3> QED BY <3>1, <2>3, <1>1
  <2>4. CASE r # 0 /\ ~SignsDiffer(n, d)
    BY <2>1, <2>4, <1>1, <1>2 DEF AwayFromZero
  <2> QED BY <2>2, <2>3, <2>4
<1>5. up \in Nat
  BY <1>1
<1>6. Magnitude(c) = up
  BY <1>4, <1>5 DEF Magnitude
<1>7. up * D >= N /\ (N # 0 => (up - 1) * D < N)
  <2>1. /\ q * D = D * q
        /\ (q + 1) * D = D * q + D
        /\ (q - 1) * D = D * q - D
        /\ (q + 1 - 1) * D = D * q
    BY <1>1
  <2> DEFINE p == D * q
  <2>2. p \in Nat
    BY <1>1
  <2>3. N = p + r /\ r \in 0 .. D - 1
    BY <1>1
  <2> HIDE DEF r
  <2>4. CASE r = 0
    <3>1. up * D = p /\ (up - 1) * D = p - D
      BY <2>1, <2>4
    <3> HIDE DEF p, up
    <3> QED BY <1>1, <2>2, <2>3, <2>4, <3>1
  <2>5. CASE r # 0
    <3>1. up = q + 1 /\ up - 1 = q
      BY <2>5, <1>1
    <3> HIDE DEF up
    <3>2. up * D = p + D /\ (up - 1) * D = p
      BY <2>1, <3>1
    <3> HIDE DEF p
    <3> QED BY <1>1, <2>2, <2>3, <2>5, <3>2
  <2> QED BY <2>4, <2>5
<1>8. n = 0 => up = 0
  <2> SUFFICES ASSUME n = 0 PROVE up = 0
    OBVIOUS
  <2>1. D * q = 0 /\ r = 0
    <3> DEFINE p == D * q
    <3>1. p \in Nat /\ r \in 0 .. D - 1 /\ 0 = p + r
      BY <1>1, <1>3
    <3> HIDE DEF p, r
    <3> QED BY <3>1, <1>1 DEF p
  <2>2. q = 0
    BY <2>1, <1>1
  <2> QED BY <2>1, <2>2
<1>9. (n * d >= 0 => c >= 0) /\ (n * d <= 0 => c <= 0)
  <2>1. CASE n = 0
    <3>1. c = 0
      BY <2>1, <1>4, <1>8
    <3> QED BY <3>1
  <2>2. CASE n > 0 /\ d > 0
    <3>1. n * d > 0 /\ ~SignsDiffer(n, d)
      BY <2>2 DEF SignsDiffer
    <3> QED BY <3>1, <1>4, <1>5
  <2>3. CASE n < 0 /\ d < 0
    <3>1. n * d > 0 /\ ~SignsDiffer(n, d)
      BY <2>3 DEF SignsDiffer
    <3> QED BY <3>1, <1>4, <1>5
  <2>4. CASE n > 0 /\ d < 0
    <3>1. n * d < 0 /\ SignsDiffer(n, d)
      BY <2>4 DEF SignsDiffer
    <3> QED BY <3>1, <1>4, <1>5
  <2>5. CASE n < 0 /\ d > 0
    <3>1. n * d < 0 /\ SignsDiffer(n, d)
      BY <2>5 DEF SignsDiffer
    <3> QED BY <3>1, <1>4, <1>5
  <2> QED BY <2>1, <2>2, <2>3, <2>4, <2>5
<1> HIDE DEF c, up, r
<1> QED BY <1>3, <1>6, <1>7, <1>9 DEF IsAwayFromZero, N, D, c

\* A truncated quotient of naturals is the quotient.
LEMMA TruncOfNaturals ==
  ASSUME NEW n \in Nat, NEW d \in Nat \ {0}
  PROVE  TruncDiv(n, d) = n \div d
BY DEF TruncDiv, SignsDiffer, Magnitude

\* No smaller number of base units than preciseMulCeil covers the product.
LEMMA MulCeilIsSmallest ==
  ASSUME NEW n \in Nat, NEW d \in Nat, NEW x \in Nat,
         n * d <= x * PreciseUnit
  PROVE  PreciseMulCeil(n, d) <= x
<1>1. CASE n = 0 \/ d = 0
  BY <1>1 DEF PreciseMulCeil
<1>2. CASE ~(n = 0 \/ d = 0)
  <2> DEFINE k == n * d - 1
             q == k \div PreciseUnit
  <2>1. n * d \in Nat \ {0}
    BY <1>2
  <2>2. k \in Nat /\ k < x * PreciseUnit
    BY <2>1, PreciseUnitAssumption
  <2>3. PreciseMulCeil(n, d) = q + 1
    BY <1>2 DEF PreciseMulCeil
  <2> HIDE DEF k
  <2>4. q \in Nat /\ PreciseUnit * q <= k
    BY <2>2, DivBounds, PreciseUnitAssumption
  <2> HIDE DEF q
  <2>5. PreciseUnit * q < PreciseUnit * x
    BY <2>2, <2>4, PreciseUnitAssumption
  <2>6. q < x
    BY <2>4, <2>5, PreciseUnitAssumption
  <2> QED BY <2>3, <2>4, <2>6
<1> QED BY <1>1, <1>2

-----------------------------------------------------------------------------
(* The off-chain copies.                                                   *)

\* A remainder by its quotient.
LEMMA Remainder ==
  ASSUME NEW n \in Int, NEW d \in Nat \ {0}
  PROVE  n % d = n - d * (n \div d)
OBVIOUS

\* BigNumber.mod, which is never negative, is zero exactly when Solidity's
\* remainder is.
LEMMA ModZero ==
  ASSUME NEW n \in Int, NEW d \in Nat \ {0}
  PROVE  n % d = 0 <=> Magnitude(n) - d * (Magnitude(n) \div d) = 0
<1>1. CASE n >= 0
  <2>1. Magnitude(n) = n
    BY <1>1 DEF Magnitude
  <2> QED BY <2>1, Remainder
<1>2. CASE n < 0
  <2> DEFINE k == n \div d
             q == (-n) \div d
  <2>1. Magnitude(n) = -n
    BY <1>2 DEF Magnitude
  <2>2. n % d = n - d * k
    BY Remainder
  <2>3. k \in Int /\ q \in Nat
    BY <1>2, FloorBounds, DivBounds
  <2>4. ASSUME n - d * k = 0 PROVE -n - d * q = 0
    <3>1. d * (-k) <= -n /\ -n < d * (-k) + d
      <4> HIDE DEF k
      <4>1. d * (-k) = -(d * k) /\ d * k \in Int
        BY <2>3
      <4> QED BY <4>1, <2>4
    <3> HIDE DEF k
    <3>2. q = -k
      <4>1. -n \in Int /\ -k \in Int
        BY <2>3
      <4> QED BY <3>1, <4>1, DivUnique
    <3> HIDE DEF q
    <3>3. d * q = -(d * k) /\ d * k \in Int
      BY <3>2, <2>3
    <3> QED BY <3>3, <2>4
  <2>5. ASSUME -n - d * q = 0 PROVE n - d * k = 0
    <3>1. d * (-q) <= n /\ n < d * (-q) + d
      <4> HIDE DEF q
      <4>1. d * (-q) = -(d * q) /\ d * q \in Int
        BY <2>3
      <4> QED BY <4>1, <2>5
    <3>2. k = -q
      BY <3>1, <2>3, DivUnique
    <3> HIDE DEF q, k
    <3>3. d * k = -(d * q) /\ d * q \in Int
      BY <3>2, <2>3
    <3> QED BY <3>3, <2>5
  <2> QED BY <2>1, <2>2, <2>4, <2>5
<1> QED BY <1>1, <1>2

\* divDown asks for two of the four sign combinations, with the sign of a
\* negative divisor changed, and misses none.
LEMMA DivDownMirrors ==
  ASSUME NEW n \in Int, NEW d \in Int \ {0}
  PROVE  divDown(n, d) = DivDown(n, d)
<1> DEFINE N == Magnitude(n)
           D == Magnitude(d)
           r == N - D * (N \div D)
<1>1. D \in Nat \ {0} /\ r \in Int /\ (n = 0 => r = 0)
  <2>1. D \in Nat \ {0} /\ N \in Nat /\ r \in Int
    BY MagnitudeQuotient
  <2>2. ASSUME n = 0 PROVE r = 0
    <3>1. N = 0
      BY <2>2 DEF Magnitude
    <3> HIDE DEF N, D
    <3>2. 0 \div D = 0
      BY <2>1
    <3>3. D * 0 = 0
      BY <2>1
    <3> QED BY <3>1, <3>2, <3>3
  <2> QED BY <2>1, <2>2
<1>2. TruncMod(n, d) = IF n < 0 THEN -r ELSE r
  BY TruncatedDivision
<1>3. n % D = 0 <=> r = 0
  BY <1>1, ModZero
<1>4. (d > 0 => d = D) /\ (d < 0 => -d = D)
  BY DEF Magnitude
<1> HIDE DEF N, D, r
<1>5. TruncMod(n, d) # 0 <=> r # 0
  BY <1>1, <1>2
<1>6. CASE n < 0 /\ d > 0
  BY <1>3, <1>4, <1>5, <1>6 DEF divDown, DivDown, SignsDiffer
<1>7. CASE n > 0 /\ d < 0
  BY <1>3, <1>4, <1>5, <1>7 DEF divDown, DivDown, SignsDiffer
<1>8. CASE n = 0
  BY <1>1, <1>5, <1>8 DEF divDown, DivDown
<1>9. CASE (n > 0 /\ d > 0) \/ (n < 0 /\ d < 0)
  BY <1>9 DEF divDown, DivDown, SignsDiffer
<1> QED BY <1>6, <1>7, <1>8, <1>9

\* preciseDivCeilInt compares products where the contract takes a remainder.
LEMMA DivCeilMirrors ==
  ASSUME NEW n \in Int, NEW d \in Int \ {0}
  PROVE  /\ PreciseDivCeilInt(n, d) = AwayFromZero(n * PreciseUnit, d)
         /\ preciseDivCeilInt(n, d) = AwayFromZero(n * PreciseUnit, d)
<1> DEFINE s == n * PreciseUnit
           t == TruncDiv(s, d)
<1>1. /\ s \in Int /\ (s > 0 <=> n > 0) /\ (s < 0 <=> n < 0)
  BY ProductSign, PreciseUnitAssumption
<1>2. PreciseDivCeilInt(n, d) = AwayFromZero(s, d)
  BY DEF PreciseDivCeilInt, AwayFromZero
<1>3. preciseDivCeilInt(n, d) = IF t * d = s THEN t
                                ELSE IF (n > 0 /\ d > 0) \/ (n < 0 /\ d < 0)
                                THEN t + 1 ELSE t - 1
  BY DEF preciseDivCeilInt, preciseDiv
<1>4. AwayFromZero(s, d) = IF TruncMod(s, d) = 0 THEN t
                           ELSE IF SignsDiffer(s, d) THEN t - 1 ELSE t + 1
  BY DEF AwayFromZero
<1> HIDE DEF s
<1>5. t \in Int
  BY <1>1, TruncatedDivision
<1>6. TruncMod(s, d) = s - d * t
  BY DEF TruncMod
<1> HIDE DEF t
<1>7. t * d = d * t /\ d * t \in Int
  BY <1>5
<1>8. TruncMod(s, d) = 0 <=> t * d = s
  <2> DEFINE p == d * t
  <2>1. p \in Int /\ t * d = p /\ TruncMod(s, d) = s - p
    BY <1>6, <1>7
  <2> HIDE DEF p
  <2> QED BY <2>1, <1>1
<1>9. CASE n = 0
  <2>1. s = 0
    BY <1>1, <1>9
  <2>2. TruncDiv(0, d) = 0
    <3>1. Magnitude(0) = 0 /\ Magnitude(d) \in Nat \ {0}
      BY DEF Magnitude
    <3>2. 0 \div Magnitude(d) = 0
      BY <3>1
    <3> QED BY <3>1, <3>2 DEF TruncDiv
  <2>3. t = 0
    BY <2>1, <2>2 DEF t
  <2>4. t * d = s
    BY <2>1, <2>3
  <2> QED BY <2>4, <1>2, <1>3, <1>4, <1>8 DEF s
<1>10. CASE n # 0
  <2>1. SignsDiffer(s, d) <=> ~((n > 0 /\ d > 0) \/ (n < 0 /\ d < 0))
    BY <1>1, <1>10 DEF SignsDiffer
  <2> QED BY <2>1, <1>2, <1>3, <1>4, <1>8 DEF s
<1> QED BY <1>9, <1>10

\* The unsigned helpers truncate naturals only.
LEMMA UnsignedMirrors ==
  ASSUME NEW n \in Nat, NEW d \in Nat
  PROVE  /\ preciseMul(n, d) = PreciseMul(n, d)
         /\ preciseMulCeil(n, d) = PreciseMulCeil(n, d)
         /\ d > 0 => preciseDivCeil(n, d) = PreciseDivCeil(n, d)
<1>1. n * d \in Nat /\ n * PreciseUnit \in Nat
  BY PreciseUnitAssumption
<1>2. preciseMul(n, d) = PreciseMul(n, d)
  BY <1>1, TruncOfNaturals, PreciseUnitAssumption DEF preciseMul, PreciseMul
<1>3. preciseMulCeil(n, d) = PreciseMulCeil(n, d)
  <2>1. CASE n = 0 \/ d = 0
    BY <2>1 DEF preciseMulCeil, PreciseMulCeil
  <2>2. CASE ~(n = 0 \/ d = 0)
    <3>1. n * d - 1 \in Nat
      <4>1. n * d > 0
        BY <2>2, ProductSign
      <4> QED BY <4>1, <1>1
    <3>2. TruncDiv(n * d - 1, PreciseUnit) = (n * d - 1) \div PreciseUnit
      BY <3>1, TruncOfNaturals, PreciseUnitAssumption
    <3> QED BY <3>2, <2>2 DEF preciseMulCeil, PreciseMulCeil
  <2> QED BY <2>1, <2>2
<1>4. ASSUME d > 0 PROVE preciseDivCeil(n, d) = PreciseDivCeil(n, d)
  <2>1. CASE n = 0
    BY <2>1 DEF preciseDivCeil, PreciseDivCeil
  <2>2. CASE n > 0
    <3>1. n * PreciseUnit - 1 \in Nat
      <4>1. n * PreciseUnit > 0
        BY <2>2, ProductSign, PreciseUnitAssumption
      <4> QED BY <4>1, <1>1
    <3>2. TruncDiv(n * PreciseUnit - 1, d) = (n * PreciseUnit - 1) \div d
      BY <3>1, <1>4, TruncOfNaturals
    <3> QED BY <3>2, <2>2, <1>4 DEF preciseDivCeil, PreciseDivCeil
  <2> QED BY <2>1, <2>2
<1> QED BY <1>2, <1>3, <1>4

-----------------------------------------------------------------------------
(* Quotes of streaming fees and of the multiplier after NAV issuance        *)

\* A factor that a positive common factor hides.
LEMMA CancelFactor ==
  ASSUME NEW p \in Nat \ {0}, NEW x \in Int, NEW y \in Int, p * x <= p * y
  PROVE  x <= y
<1> SUFFICES ASSUME y < x PROVE FALSE
  OBVIOUS
<1>1. y + 1 <= x
  OBVIOUS
<1>2. p * (y + 1) <= p * x
  BY <1>1
<1> QED BY <1>2

\* The quotient is the largest number whose product is covered.
LEMMA QuotientIsLargest ==
  ASSUME NEW n \in Nat, NEW d \in Nat \ {0}, NEW x \in Int, d * x <= n
  PROVE  x <= n \div d
<1> DEFINE q == n \div d
<1>1. q \in Nat /\ n < d * q + d
  BY DivBounds
<1> HIDE DEF q
<1> SUFFICES ASSUME q + 1 <= x PROVE FALSE
  BY <1>1 DEF q
<1>2. d * (q + 1) <= d * x
  BY <1>1
<1>3. d * (q + 1) = d * q + d
  BY <1>1
<1> QED BY <1>1, <1>2, <1>3

\* The Sets minted for a fee, by cross products.
LEMMA MintedBounds ==
  ASSUME NEW percent \in Percentage, NEW supply \in Nat
  PROVE  LET minted == getStreamingFeeInflationAmount(percent, supply)
         IN  /\ minted \in Nat
             /\ minted = (percent * supply) \div (PreciseUnit - percent)
             /\ (PreciseUnit - percent) * minted <= percent * supply
             /\ percent * supply < (PreciseUnit - percent) * minted + (PreciseUnit - percent)
<1> DEFINE n == percent * supply
           d == PreciseUnit - percent
<1>1. n \in Nat /\ d \in Nat \ {0}
  BY PreciseUnitAssumption DEF Percentage
<1>2. getStreamingFeeInflationAmount(percent, supply) = TruncDiv(n, d)
  BY DEF getStreamingFeeInflationAmount
<1> HIDE DEF n, d
<1>3. TruncDiv(n, d) = n \div d
  BY <1>1, TruncOfNaturals
<1>4. n \div d \in Nat /\ d * (n \div d) <= n /\ n < d * (n \div d) + d
  BY <1>1, DivBounds
<1> QED BY <1>2, <1>3, <1>4 DEF n, d

\* The recipient of a fee gets at most its share of the supply, and one base
\* unit more would be too much.
LEMMA ShareOfDilutedSupply ==
  ASSUME NEW percent \in Percentage, NEW supply \in Nat
  PROVE  LET minted == getStreamingFeeInflationAmount(percent, supply)
         IN  /\ minted * PreciseUnit <= percent * (supply + minted)
             /\ (minted + 1) * PreciseUnit > percent * (supply + minted + 1)
<1> DEFINE m == getStreamingFeeInflationAmount(percent, supply)
           d == PreciseUnit - percent
<1>1. /\ m \in Nat /\ d * m <= percent * supply /\ percent * supply < d * m + d
  BY MintedBounds
<1>2. d \in Nat \ {0} /\ percent \in Nat /\ PreciseUnit = d + percent
  BY PreciseUnitAssumption DEF Percentage
<1> HIDE DEF m, d
<1>3. m * PreciseUnit = d * m + percent * m /\ percent * (supply + m) = percent * supply + percent * m
  BY <1>1, <1>2
<1>4. (m + 1) * PreciseUnit = d * m + d + percent * m + percent
  BY <1>1, <1>2
<1>5. percent * (supply + m + 1) = percent * supply + percent * m + percent
  BY <1>1, <1>2
<1>6. /\ d * m \in Int /\ percent * m \in Int /\ percent * supply \in Int
  BY <1>1, <1>2
<1>7. m * PreciseUnit <= percent * (supply + m) /\ (m + 1) * PreciseUnit > percent * (supply + m + 1)
  BY <1>1, <1>2, <1>3, <1>4, <1>5, <1>6
<1> QED BY <1>7 DEF m

\* The share accrued over a period is the floor of rate times time.
LEMMA AccruedShare ==
  ASSUME NEW rate \in Nat, NEW previous \in Nat, NEW recent \in Nat, previous <= recent
  PROVE  LET share == getStreamingFee(rate, previous, recent, {})
         IN  /\ share \in Nat /\ share = ((recent - previous) * rate) \div OneYear
             /\ OneYear * share <= (recent - previous) * rate
<1> DEFINE n == (recent - previous) * rate
<1>1. n \in Nat /\ OneYear \in Nat \ {0}
  BY OneYearAssumption
<1>2. getStreamingFee(rate, previous, recent, {}) = TruncDiv(n, OneYear)
  BY DEF getStreamingFee, OptionalArgument
<1> HIDE DEF n
<1>3. TruncDiv(n, OneYear) = n \div OneYear
  BY <1>1, TruncOfNaturals
<1>4. n \div OneYear \in Nat /\ OneYear * (n \div OneYear) <= n
  BY <1>1, DivBounds
<1> QED BY <1>2, <1>3, <1>4 DEF n

\* Two shares charged one after the other dilute no more than their sum.
LEMMA CompoundingDilutes ==
  ASSUME NEW P \in Nat \ {0}, NEW f \in 0 .. P - 1, NEW s \in 0 .. P - 1, NEW o \in 0 .. P - 1,
         f + s <= o, NEW S \in Nat, NEW m1 \in Nat, NEW m2 \in Nat,
         (P - f) * m1 <= f * S, (P - s) * m2 <= s * (S + m1)
  PROVE  (P - o) * (m1 + m2) <= o * S
<1> DEFINE x == P - f
           y == P - s
           z == P - o
           S1 == S + m1
           T == S1 + m2
<1>1. /\ x \in Nat \ {0} /\ y \in Nat \ {0} /\ z \in Nat \ {0} /\ S1 \in Nat /\ T \in Nat
      /\ f = P - x /\ s = P - y /\ o = P - z /\ m1 = S1 - S /\ m2 = T - S1
      /\ f \in Nat /\ s \in Nat
  OBVIOUS
<1>2. x * m1 <= f * S /\ y * m2 <= s * S1
  OBVIOUS
<1>z. z <= P - f - s
  OBVIOUS
<1> HIDE DEF x, y, z, S1, T
<1>3. x * S1 <= P * S
  <2>1. x * (S1 - S) = x * S1 - x * S /\ (P - x) * S = P * S - x * S
    BY <1>1
  <2>2. x * S1 - x * S <= P * S - x * S
    BY <1>1, <1>2, <2>1
  <2>3. x * S1 \in Int /\ x * S \in Int /\ P * S \in Int
    BY <1>1
  <2> QED BY <2>2, <2>3
<1>4. y * T <= P * S1
  <2>1. y * (T - S1) = y * T - y * S1 /\ (P - y) * S1 = P * S1 - y * S1
    BY <1>1
  <2>2. y * T - y * S1 <= P * S1 - y * S1
    BY <1>1, <1>2, <2>1
  <2>3. y * T \in Int /\ y * S1 \in Int /\ P * S1 \in Int
    BY <1>1
  <2> QED BY <2>2, <2>3
<1>5. P * z <= x * y
  <2>1. f * s \in Nat
    BY <1>1
  <2>2. x * y = P * (P - f - s) + f * s
    BY <1>1
  <2>3. P * z <= P * (P - f - s)
    BY <1>1, <1>z
  <2>4. P * (P - f - s) \in Int /\ P * z \in Int
    BY <1>1
  <2> QED BY <2>1, <2>2, <2>3, <2>4
<1>6. P * (z * T) <= P * (P * S)
  <2>1. (P * z) * T <= (x * y) * T
    <3>1. P * z \in Nat /\ x * y \in Nat
      BY <1>1
    <3> DEFINE l == P * z
               r == x * y
    <3>2. l \in Nat /\ r \in Nat /\ l <= r
      BY <1>5, <3>1
    <3> HIDE DEF l, r
    <3>3. l * T <= r * T
      BY <1>1, <3>2
    <3> QED BY <3>3 DEF l, r
  <2>2. x * (y * T) <= x * (P * S1)
    <3> DEFINE l == y * T
               r == P * S1
    <3>1. l \in Nat /\ r \in Nat /\ l <= r
      BY <1>1, <1>4
    <3> HIDE DEF l, r
    <3>2. x * l <= x * r
      BY <1>1, <3>1
    <3> QED BY <3>2 DEF l, r
  <2>3. P * (x * S1) <= P * (P * S)
    <3> DEFINE l == x * S1
               r == P * S
    <3>1. l \in Nat /\ r \in Nat /\ l <= r
      BY <1>1, <1>3
    <3> HIDE DEF l, r
    <3>2. P * l <= P * r
      BY <3>1
    <3> QED BY <3>2 DEF l, r
  <2>4. /\ (P * z) * T = P * (z * T) /\ (x * y) * T = x * (y * T) /\ x * (P * S1) = P * (x * S1)
    BY <1>1
  <2>5. /\ P * (z * T) \in Int /\ x * (y * T) \in Int /\ P * (x * S1) \in Int /\ P * (P * S) \in Int
    BY <1>1
  <2> QED BY <2>1, <2>2, <2>3, <2>4, <2>5
<1>7. z * T <= P * S
  <2> DEFINE l == z * T
             r == P * S
  <2>1. l \in Int /\ r \in Int /\ P * l <= P * r
    BY <1>1, <1>6
  <2> HIDE DEF l, r
  <2>2. l <= r
    BY <2>1, CancelFactor
  <2> QED BY <2>2 DEF l, r
<1>8. z * (m1 + m2) = z * T - z * S /\ o * S = P * S - z * S
  BY <1>1
<1>9. z * T \in Int /\ z * S \in Int /\ P * S \in Int
  BY <1>1
<1>10. z * (m1 + m2) <= o * S
  BY <1>7, <1>8, <1>9
<1> QED BY <1>10 DEF z

\* Accruing twice mints no more than accruing once.
LEMMA SplitMintsNoMore ==
  ASSUME NEW rate \in Percentage, NEW supply \in Nat, NEW t1 \in Nat, NEW t2 \in Nat, t1 <= t2,
         getStreamingFee(rate, 0, t2, {}) < PreciseUnit
  PROVE  LET minted == getStreamingFeeInflationAmount(getStreamingFee(rate, 0, t1, {}), supply)
         IN  minted + getStreamingFeeInflationAmount(getStreamingFee(rate, t1, t2, {}), supply + minted)
               <= getStreamingFeeInflationAmount(getStreamingFee(rate, 0, t2, {}), supply)
<1> DEFINE o == getStreamingFee(rate, 0, t2, {})
           f == getStreamingFee(rate, 0, t1, {})
           s == getStreamingFee(rate, t1, t2, {})
           m1 == getStreamingFeeInflationAmount(f, supply)
           m2 == getStreamingFeeInflationAmount(s, supply + m1)
           m == getStreamingFeeInflationAmount(o, supply)
<1>0. PreciseUnit \in Nat \ {0} /\ OneYear \in Nat \ {0} /\ rate \in Nat
  BY PreciseUnitAssumption, OneYearAssumption DEF Percentage
<1>1. /\ o \in Nat /\ o = (t2 * rate) \div OneYear
      /\ f \in Nat /\ OneYear * f <= t1 * rate
      /\ s \in Nat /\ OneYear * s <= (t2 - t1) * rate
  <2>1. t2 - 0 = t2 /\ t1 - 0 = t1 /\ 0 \in Nat /\ 0 <= t1 /\ 0 <= t2
    OBVIOUS
  <2>2. /\ o \in Nat /\ o = ((t2 - 0) * rate) \div OneYear
    BY <1>0, <2>1, AccruedShare
  <2>3. f \in Nat /\ OneYear * f <= (t1 - 0) * rate
    BY <1>0, <2>1, AccruedShare
  <2>4. s \in Nat /\ OneYear * s <= (t2 - t1) * rate
    BY <1>0, AccruedShare
  <2> QED BY <2>1, <2>2, <2>3, <2>4
<1>2. o < PreciseUnit
  OBVIOUS
<1> HIDE DEF o, f, s
<1>3. f + s <= o
  <2>1. OneYear * (f + s) = OneYear * f + OneYear * s /\ t1 * rate + (t2 - t1) * rate = t2 * rate
    BY <1>0, <1>1
  <2>2. /\ OneYear * f \in Int /\ OneYear * s \in Int /\ t1 * rate \in Int
        /\ (t2 - t1) * rate \in Int /\ t2 * rate \in Nat /\ f + s \in Int
    BY <1>0, <1>1
  <2>3. OneYear * (f + s) <= t2 * rate
    BY <1>1, <2>1, <2>2
  <2>4. f + s <= (t2 * rate) \div OneYear
    BY <1>0, <2>2, <2>3, QuotientIsLargest
  <2> QED BY <1>1, <2>4
<1>4. f \in Percentage /\ s \in Percentage /\ o \in Percentage
  BY <1>0, <1>1, <1>2, <1>3 DEF Percentage
<1>5. m1 \in Nat /\ (PreciseUnit - f) * m1 <= f * supply
  BY <1>4, MintedBounds
<1> HIDE DEF m1
<1>6. m2 \in Nat /\ (PreciseUnit - s) * m2 <= s * (supply + m1)
  <2>1. supply + m1 \in Nat
    BY <1>5
  <2> QED BY <1>4, <2>1, MintedBounds
<1>7. m = (o * supply) \div (PreciseUnit - o)
  BY <1>4, MintedBounds
<1> HIDE DEF m2, m
<1>8. (PreciseUnit - o) * (m1 + m2) <= o * supply
  <2>1. f \in 0 .. PreciseUnit - 1 /\ s \in 0 .. PreciseUnit - 1 /\ o \in 0 .. PreciseUnit - 1
    BY <1>4 DEF Percentage
  <2> QED BY <1>0, <1>3, <1>5, <1>6, <2>1, CompoundingDilutes
<1>9. PreciseUnit - o \in Nat \ {0} /\ o * supply \in Nat /\ m1 + m2 \in Int
  BY <1>0, <1>1, <1>2, <1>5, <1>6
<1>10. m1 + m2 <= m
  BY <1>7, <1>8, <1>9, QuotientIsLargest
<1> QED BY <1>10 DEF m, m1, m2, o, f, s

\* A fee of zero that is passed is used.
LEMMA PassedZero ==
  ASSUME NEW rate, NEW t \in Nat
  PROVE  getStreamingFee(rate, 0, t, {0}) = 0
<1>1. OptionalArgument({0}, rate) = 0
  <2>1. \E v \in {0} : TRUE
    OBVIOUS
  <2>2. (CHOOSE v \in {0} : TRUE) \in {0}
    BY <2>1
  <2>3. {0} # {}
    OBVIOUS
  <2> QED BY <2>2, <2>3 DEF OptionalArgument
<1>2. (t - 0) * 0 = 0
  OBVIOUS
<1>3. getStreamingFee(rate, 0, t, {0}) = TruncDiv(0, OneYear)
  BY <1>1, <1>2 DEF getStreamingFee
<1>4. TruncDiv(0, OneYear) = 0 \div OneYear
  BY TruncOfNaturals, OneYearAssumption
<1>5. 0 \div OneYear = 0
  BY OneYearAssumption
<1> QED BY <1>3, <1>4, <1>5

\* The signed preciseMulCeil of a negative unit and a positive factor is the
\* floor of the product, as the SetToken rounds.
LEMMA NegativeUnitFloors ==
  ASSUME NEW x \in Int, x < 0, NEW M \in Nat \ {0}
  PROVE  preciseMulCeilInt(x, M) = (x * M) \div PreciseUnit
<1> DEFINE n == x * M
           k == -n - 1
<1>0. PreciseUnit \in Nat \ {0}
  BY PreciseUnitAssumption
<1>1. n \in Int /\ n < 0
  BY ProductSign
<1>2. preciseMulCeilInt(x, M) = TruncDiv(n + 1, PreciseUnit) - 1
  <2>1. x # 0 /\ M # 0 /\ SignsDiffer(x, M)
    BY DEF SignsDiffer
  <2> QED BY <2>1 DEF preciseMulCeilInt
<1> HIDE DEF n
<1>3. k \in Nat /\ n + 1 = -k /\ n = -k - 1
  BY <1>1
<1> HIDE DEF k
<1> DEFINE q == k \div PreciseUnit
<1>4. q \in Nat /\ PreciseUnit * q <= k /\ k < PreciseUnit * q + PreciseUnit
  BY <1>0, <1>3, DivBounds
<1>5. TruncDiv(n + 1, PreciseUnit) = -q
  <2>1. CASE k = 0
    <3>1. q = 0
      BY <1>0, <2>1
    <3>2. TruncDiv(0, PreciseUnit) = 0 \div PreciseUnit
      BY <1>0, TruncOfNaturals
    <3> QED BY <1>3, <2>1, <3>1, <3>2
  <2>2. CASE k # 0
    <3>0. k > 0 /\ k \in Int
      BY <1>3, <2>2
    <3>1. Magnitude(-k) = k /\ Magnitude(PreciseUnit) = PreciseUnit
      BY <1>0, <3>0 DEF Magnitude
    <3>2. SignsDiffer(-k, PreciseUnit)
      BY <1>0, <3>0 DEF SignsDiffer
    <3> QED BY <1>3, <3>1, <3>2 DEF TruncDiv
  <2> QED BY <2>1, <2>2
<1> HIDE DEF q
<1>6. n \div PreciseUnit = -q - 1
  <2>1. PreciseUnit * (-q - 1) = -(PreciseUnit * q) - PreciseUnit /\ PreciseUnit * q \in Int
    BY <1>0, <1>4
  <2>2. PreciseUnit * (-q - 1) <= n /\ n < PreciseUnit * (-q - 1) + PreciseUnit /\ -q - 1 \in Int
    BY <1>0, <1>3, <1>4, <2>1
  <2> QED BY <1>0, <1>1, <2>2, DivUnique
<1> QED BY <1>2, <1>5, <1>6 DEF n

\* The expected unit after a fee is the one the SetToken reports.
LEMMA PostFeeUnit ==
  ASSUME NEW x \in Int, NEW M \in Nat \ {0}
  PROVE  (IF x >= 0 THEN preciseMul(x, M) ELSE preciseMulCeilInt(x, M))
           = ConvertVirtualToRealUnit(x, M)
<1>0. PreciseUnit \in Nat \ {0} /\ x * M \in Int
  BY PreciseUnitAssumption
<1>1. ConvertVirtualToRealUnit(x, M) = (x * M) \div PreciseUnit
  BY <1>0, DivDownByPositive DEF ConvertVirtualToRealUnit, ConservativePreciseMul
<1>2. CASE x >= 0
  <2>1. x * M \in Nat
    BY <1>2
  <2>2. preciseMul(x, M) = (x * M) \div PreciseUnit
    BY <1>0, <2>1, TruncOfNaturals DEF preciseMul
  <2> QED BY <1>1, <1>2, <2>2
<1>3. CASE ~(x >= 0)
  BY <1>1, <1>3, NegativeUnitFloors
<1> QED BY <1>2, <1>3

\* Scaling by a rounded factor falls short of the exact quotient by at most
\* the steps a multiplier has per precise unit.
LEMMA ShortByAStep ==
  ASSUME NEW P \in Nat \ {0}, NEW b1 \in Nat \ {0}, NEW a1 \in Nat, NEW m \in Nat \ {0},
         NEW F \in Nat, b1 * F <= a1 * P, a1 * P < b1 * F + b1
  PROVE  (m * a1) \div b1 - (m * F) \div P \in 0 .. Quotient(m, P)
<1> DEFINE G == (m * a1) \div b1
           E == (m * F) \div P
<1>0. m * a1 \in Nat /\ m * F \in Nat
  OBVIOUS
<1>1. G \in Nat /\ b1 * G <= m * a1
  BY <1>0, DivBounds
<1>2. E \in Nat /\ P * E <= m * F /\ m * F < P * E + P
  BY <1>0, DivBounds
<1> HIDE DEF G, E
<1>3. E <= G
  <2>1. b1 * (P * E) <= b1 * (m * F)
    <3> DEFINE l == P * E
               r == m * F
    <3>1. l \in Nat /\ r \in Nat /\ l <= r
      BY <1>0, <1>2
    <3> HIDE DEF l, r
    <3>2. b1 * l <= b1 * r
      BY <3>1
    <3> QED BY <3>2 DEF l, r
  <2>2. m * (b1 * F) <= m * (a1 * P)
    <3> DEFINE l == b1 * F
               r == a1 * P
    <3>1. l \in Nat /\ r \in Nat /\ l <= r
      OBVIOUS
    <3> HIDE DEF l, r
    <3>2. m * l <= m * r
      BY <3>1
    <3> QED BY <3>2 DEF l, r
  <2>3. b1 * (P * E) = P * (b1 * E) /\ b1 * (m * F) = m * (b1 * F) /\ m * (a1 * P) = P * (m * a1)
    BY <1>1, <1>2
  <2>4. P * (b1 * E) <= P * (m * a1)
    <3>1. P * (b1 * E) \in Int /\ m * (b1 * F) \in Int /\ P * (m * a1) \in Int
      BY <1>2
    <3> QED BY <2>1, <2>2, <2>3, <3>1
  <2>5. b1 * E <= m * a1
    <3> DEFINE l == b1 * E
               r == m * a1
    <3>1. l \in Int /\ r \in Int /\ P * l <= P * r
      BY <1>2, <2>4
    <3> HIDE DEF l, r
    <3>2. l <= r
      BY <3>1, CancelFactor
    <3> QED BY <3>2 DEF l, r
  <2>6. E <= (m * a1) \div b1
    BY <1>0, <1>2, <2>5, QuotientIsLargest
  <2> QED BY <2>6 DEF G
<1>4. P * (G - E) <= m + P - 1
  <2>1. P * (b1 * G) <= P * (m * a1)
    <3> DEFINE l == b1 * G
               r == m * a1
    <3>1. l \in Nat /\ r \in Nat /\ l <= r
      BY <1>0, <1>1
    <3> HIDE DEF l, r
    <3>2. P * l <= P * r
      BY <3>1
    <3> QED BY <3>2 DEF l, r
  <2>2. m * (a1 * P) <= m * (b1 * F + b1)
    <3> DEFINE l == a1 * P
               r == b1 * F + b1
    <3>1. l \in Nat /\ r \in Nat /\ l <= r
      OBVIOUS
    <3> HIDE DEF l, r
    <3>2. m * l <= m * r
      BY <3>1
    <3> QED BY <3>2 DEF l, r
  <2>3. /\ P * (b1 * G) = b1 * (P * G) /\ P * (m * a1) = m * (a1 * P)
        /\ m * (b1 * F + b1) = b1 * (m * F + m)
    BY <1>1
  <2>4. b1 * (P * G) <= b1 * (m * F + m)
    <3>1. b1 * (P * G) \in Int /\ m * (a1 * P) \in Int /\ b1 * (m * F + m) \in Int
      BY <1>1
    <3> QED BY <2>1, <2>2, <2>3, <3>1
  <2>5. P * G <= m * F + m
    <3> DEFINE l == P * G
               r == m * F + m
    <3>1. l \in Int /\ r \in Int /\ b1 * l <= b1 * r
      BY <1>1, <2>4
    <3> HIDE DEF l, r
    <3>2. l <= r
      BY <3>1, CancelFactor
    <3> QED BY <3>2 DEF l, r
  <2>6. P * (G - E) = P * G - P * E /\ P * G \in Int /\ P * E \in Int /\ m * F \in Int
    BY <1>1, <1>2
  <2> QED BY <1>2, <2>5, <2>6
<1>5. G - E <= (m + P - 1) \div P
  <2>1. m + P - 1 \in Nat /\ G - E \in Int
    BY <1>1, <1>2
  <2> QED BY <1>4, <2>1, QuotientIsLargest
<1>6. (m + P - 1) \div P \in Int
  BY DivBounds
<1>7. G - E \in 0 .. ((m + P - 1) \div P)
  BY <1>1, <1>2, <1>3, <1>5, <1>6
<1> QED BY <1>7 DEF G, E, Quotient

\* One minus the inflation rounded up is the ratio of the supplies rounded
\* down.
LEMMA IssueFactor ==
  ASSUME NEW a1 \in Nat, NEW b1 \in Nat \ {0}, a1 <= b1
  PROVE  LET F == PreciseUnit - preciseDivCeil(b1 - a1, b1)
         IN  F \in Nat /\ b1 * F <= a1 * PreciseUnit /\ a1 * PreciseUnit < b1 * F + b1
<1>0. PreciseUnit \in Nat \ {0}
  BY PreciseUnitAssumption
<1>1. CASE b1 = a1
  <2>1. preciseDivCeil(b1 - a1, b1) = 0
    BY <1>1 DEF preciseDivCeil
  <2> QED BY <1>0, <1>1, <2>1
<1>2. CASE b1 # a1
  <2> DEFINE n == (b1 - a1) * PreciseUnit - 1
             q == n \div b1
             F == PreciseUnit - (q + 1)
  <2>1. n \in Nat
    <3>1. b1 - a1 \in Nat \ {0}
      BY <1>2
    <3> DEFINE d == b1 - a1
    <3> HIDE DEF d
    <3>2. d * PreciseUnit - 1 \in Nat
      BY <1>0, <3>1 DEF d
    <3> QED BY <3>2 DEF d
  <2>2. preciseDivCeil(b1 - a1, b1) = TruncDiv(n, b1) + 1
    BY <1>2 DEF preciseDivCeil
  <2>3. n = b1 * PreciseUnit - a1 * PreciseUnit - 1 /\ b1 * PreciseUnit \in Int /\ a1 * PreciseUnit \in Nat
    BY <1>0
  <2> HIDE DEF n
  <2>4. preciseDivCeil(b1 - a1, b1) = q + 1
    BY <2>1, <2>2, TruncOfNaturals
  <2>5. q \in Nat /\ b1 * q <= n /\ n < b1 * q + b1
    BY <2>1, DivBounds
  <2> HIDE DEF q
  <2>6. F \in Int /\ b1 * F = b1 * PreciseUnit - b1 * q - b1 /\ b1 * q \in Int
    BY <1>0, <2>5
  <2> HIDE DEF F
  <2>7. b1 * F <= a1 * PreciseUnit /\ a1 * PreciseUnit < b1 * F + b1
    BY <2>3, <2>5, <2>6
  <2>8. F >= 0
    <3> SUFFICES ASSUME F <= -1 PROVE FALSE
      BY <2>6
    <3>1. b1 * F <= -b1
      BY <2>6
    <3> QED BY <2>3, <2>6, <2>7, <3>1
  <2> QED BY <2>4, <2>6, <2>7, <2>8 DEF F
<1> QED BY <1>1, <1>2

\* One plus the deflation rounded down is the ratio of the supplies rounded
\* down.
LEMMA RedeemFactor ==
  ASSUME NEW a1 \in Nat, NEW b1 \in Nat \ {0}, b1 <= a1
  PROVE  LET F == PreciseUnit + preciseDiv(a1 - b1, b1)
         IN  F \in Nat /\ b1 * F <= a1 * PreciseUnit /\ a1 * PreciseUnit < b1 * F + b1
<1> DEFINE n == (a1 - b1) * PreciseUnit
           q == n \div b1
<1>0. PreciseUnit \in Nat \ {0}
  BY PreciseUnitAssumption
<1>1. n \in Nat
  BY <1>0
<1>2. preciseDiv(a1 - b1, b1) = TruncDiv(n, b1)
  BY DEF preciseDiv
<1>3. n = a1 * PreciseUnit - b1 * PreciseUnit /\ b1 * PreciseUnit \in Int /\ a1 * PreciseUnit \in Int
  BY <1>0
<1> HIDE DEF n
<1>4. preciseDiv(a1 - b1, b1) = q
  BY <1>1, <1>2, TruncOfNaturals
<1>5. q \in Nat /\ b1 * q <= n /\ n < b1 * q + b1
  BY <1>1, DivBounds
<1> HIDE DEF q
<1>6. PreciseUnit + q \in Nat /\ b1 * (PreciseUnit + q) = b1 * PreciseUnit + b1 * q /\ b1 * q \in Int
  BY <1>0, <1>5
<1>7. b1 * (PreciseUnit + q) <= a1 * PreciseUnit /\ a1 * PreciseUnit < b1 * (PreciseUnit + q) + b1
  BY <1>3, <1>5, <1>6
<1> QED BY <1>4, <1>6, <1>7

\* The multiplier expected after a NAV issuance or redemption.
LEMMA MultiplierQuotes ==
  ASSUME NEW m \in Nat \ {0}, NEW a1 \in Nat, NEW b1 \in Nat \ {0}
  PROVE  /\ a1 <= b1 => GetIssuePositionMultiplier(m, a1, b1) - getExpectedIssuePositionMultiplier(m, a1, b1)
                          \in 0 .. Quotient(m, PreciseUnit)
         /\ b1 <= a1 => GetRedeemPositionMultiplier(m, a1, b1) - getExpectedRedeemPositionMultiplier(m, a1, b1)
                          \in 0 .. Quotient(m, PreciseUnit)
<1>0. PreciseUnit \in Nat \ {0} /\ m * a1 \in Nat
  BY PreciseUnitAssumption
<1>1. TruncDiv(m * a1, b1) = (m * a1) \div b1
  BY <1>0, TruncOfNaturals
<1>2. ASSUME NEW F \in Nat PROVE preciseMul(m, F) = (m * F) \div PreciseUnit
  <2>1. m * F \in Nat
    OBVIOUS
  <2> QED BY <1>0, <2>1, TruncOfNaturals DEF preciseMul
<1>3. ASSUME a1 <= b1
      PROVE  GetIssuePositionMultiplier(m, a1, b1) - getExpectedIssuePositionMultiplier(m, a1, b1)
               \in 0 .. Quotient(m, PreciseUnit)
  <2> DEFINE F == PreciseUnit - preciseDivCeil(b1 - a1, b1)
  <2>1. F \in Nat /\ b1 * F <= a1 * PreciseUnit /\ a1 * PreciseUnit < b1 * F + b1
    BY <1>3, IssueFactor
  <2>2. /\ GetIssuePositionMultiplier(m, a1, b1) = TruncDiv(m * a1, b1)
        /\ getExpectedIssuePositionMultiplier(m, a1, b1) = preciseMul(m, F)
    BY DEF GetIssuePositionMultiplier, getExpectedIssuePositionMultiplier
  <2> HIDE DEF F
  <2>3. (m * a1) \div b1 - (m * F) \div PreciseUnit \in 0 .. Quotient(m, PreciseUnit)
    BY <1>0, <2>1, ShortByAStep
  <2> QED BY <1>1, <1>2, <2>1, <2>2, <2>3
<1>4. ASSUME b1 <= a1
      PROVE  GetRedeemPositionMultiplier(m, a1, b1) - getExpectedRedeemPositionMultiplier(m, a1, b1)
               \in 0 .. Quotient(m, PreciseUnit)
  <2> DEFINE F == PreciseUnit + preciseDiv(a1 - b1, b1)
  <2>1. F \in Nat /\ b1 * F <= a1 * PreciseUnit /\ a1 * PreciseUnit < b1 * F + b1
    BY <1>4, RedeemFactor
  <2>2. /\ GetRedeemPositionMultiplier(m, a1, b1) = TruncDiv(m * a1, b1)
        /\ getExpectedRedeemPositionMultiplier(m, a1, b1) = preciseMul(m, F)
    BY DEF GetRedeemPositionMultiplier, getExpectedRedeemPositionMultiplier
  <2> HIDE DEF F
  <2>3. (m * a1) \div b1 - (m * F) \div PreciseUnit \in 0 .. Quotient(m, PreciseUnit)
    BY <1>0, <2>1, ShortByAStep
  <2> QED BY <1>1, <1>2, <2>1, <2>2, <2>3
<1> QED BY <1>3, <1>4

-----------------------------------------------------------------------------
(* Roundings of roundings                                                  *)

\* A smaller number of steps covers less.
LEMMA ScaleOrder ==
  ASSUME NEW k \in Nat, NEW x \in Int, NEW y \in Int, x <= y
  PROVE  k * x \in Int /\ k * y \in Int /\ k * x <= k * y
OBVIOUS

\* A rounded product of a rounded number: the errors of the two roundings
\* add up, the first one scaled.
LEMMA RoundingsAdd ==
  ASSUME NEW P \in Nat \ {0}, NEW D \in Nat \ {0}, NEW k \in 0 .. P,
         NEW T \in Int, NEW y \in Int, NEW z \in Int, NEW L \in Nat, NEW U \in Nat,
         NEW e \in Nat, NEW f \in Nat,
         T - L <= D * y, D * y <= T + U,
         k * y - e <= P * z, P * z <= k * y + f
  PROVE  /\ k * T - P * L - D * e <= (P * D) * z
         /\ (P * D) * z <= k * T + P * U + D * f
<1>0. k \in Nat
  OBVIOUS
<1>1. k * (T - L) <= k * (D * y) /\ k * (D * y) <= k * (T + U)
  <2> DEFINE l == T - L
             m == D * y
             r == T + U
  <2>1. l \in Int /\ m \in Int /\ r \in Int /\ l <= m /\ m <= r
    OBVIOUS
  <2> HIDE DEF l, m, r
  <2>2. k * l <= k * m /\ k * m <= k * r
    BY <1>0, <2>1, ScaleOrder
  <2> QED BY <2>2 DEF l, m, r
<1>2. D * (k * y - e) <= D * (P * z) /\ D * (P * z) <= D * (k * y + f)
  <2> DEFINE l == k * y - e
             m == P * z
             r == k * y + f
  <2>1. l \in Int /\ m \in Int /\ r \in Int /\ l <= m /\ m <= r
    BY <1>0
  <2> HIDE DEF l, m, r
  <2>2. D * l <= D * m /\ D * m <= D * r
    BY <2>1, ScaleOrder
  <2> QED BY <2>2 DEF l, m, r
<1>3. k * L <= P * L /\ k * U <= P * U
  BY <1>0
<1>4. /\ k * (T - L) = k * T - k * L /\ k * (T + U) = k * T + k * U
      /\ D * (k * y - e) = k * (D * y) - D * e /\ D * (k * y + f) = k * (D * y) + D * f
      /\ D * (P * z) = (P * D) * z
  BY <1>0
<1>5. /\ k * T \in Int /\ k * L \in Int /\ k * U \in Int /\ P * L \in Int /\ P * U \in Int
      /\ k * (D * y) \in Int /\ D * e \in Int /\ D * f \in Int /\ (P * D) * z \in Int
  BY <1>0
<1> QED BY <1>1, <1>2, <1>3, <1>4, <1>5

\* Dividing by what one multiplied with gives the number back, less at most
\* the steps one unit of the quotient stands for.
LEMMA TwoFloors ==
  ASSUME NEW u \in Nat, NEW k \in Nat \ {0}, NEW d \in Nat \ {0}
  PROVE  LET t == (u * k) \div d
             r == (t * d) \div k
         IN  t \in Nat /\ r \in Nat /\ r <= u /\ u - r <= Quotient(d, k)
<1> DEFINE t == (u * k) \div d
           r == (t * d) \div k
<1>0. u * k \in Nat
  OBVIOUS
<1>1. t \in Nat /\ d * t <= u * k /\ u * k < d * t + d
  BY <1>0, DivBounds
<1> HIDE DEF t
<1>2. t * d \in Nat /\ t * d = d * t
  BY <1>1
<1>3. r \in Nat /\ k * r <= t * d /\ t * d < k * r + k
  BY <1>2, DivBounds
<1> HIDE DEF r
<1>4. k * r <= k * u /\ k * (u - r) <= d + k - 1
  <2>1. k * (u - r) = u * k - k * r /\ k * u = u * k /\ u * k \in Int /\ k * r \in Int /\ d * t \in Int
    BY <1>1, <1>3
  <2> QED BY <1>1, <1>2, <1>3, <2>1
<1>5. r <= u
  BY <1>3, <1>4, CancelFactor
<1>6. u - r <= (d + k - 1) \div k
  <2>1. d + k - 1 \in Nat /\ u - r \in Int
    BY <1>3
  <2> QED BY <1>4, <2>1, QuotientIsLargest
<1> QED BY <1>1, <1>3, <1>5, <1>6 DEF t, r, Quotient

\* A quotient rounded up of positive numbers is positive.
LEMMA QuotientPositive ==
  ASSUME NEW x \in Nat \ {0}, NEW y \in Nat \ {0}
  PROVE  Quotient(x, y) \in Nat \ {0} /\ x \div y <= Quotient(x, y)
<1> DEFINE n == x + y - 1
<1>1. n \in Nat /\ y * 1 <= n
  OBVIOUS
<1>2. x \div y \in Nat /\ y * (x \div y) <= x
  BY DivBounds
<1>3. 1 <= n \div y /\ n \div y \in Nat
  BY <1>1, QuotientIsLargest, DivBounds
<1>4. x \div y <= n \div y
  <2> DEFINE q == x \div y
  <2> HIDE DEF q
  <2>1. q \in Int /\ y * q <= n
    BY <1>2 DEF q
  <2>2. q <= n \div y
    BY <1>1, <2>1, QuotientIsLargest
  <2> QED BY <2>2 DEF q
<1> QED BY <1>3, <1>4 DEF Quotient

\* Two quotients whose dividends are at most w apart.
LEMMA QuotientsApart ==
  ASSUME NEW x \in Nat, NEW y \in Nat, NEW w \in Nat, NEW s \in Nat \ {0},
         x - y <= w
  PROVE  x \div s - y \div s <= Quotient(w, s)
<1> DEFINE p == x \div s
           q == y \div s
<1>1. p \in Nat /\ q \in Nat /\ s * p <= x /\ y < s * q + s
  BY DivBounds
<1> HIDE DEF p, q
<1>2. s * (p - q) <= w + s - 1
  <2>1. s * (p - q) = s * p - s * q /\ s * p \in Int /\ s * q \in Int
    BY <1>1
  <2> QED BY <1>1, <2>1
<1>3. p - q <= (w + s - 1) \div s
  <2>1. w + s - 1 \in Nat /\ p - q \in Int
    BY <1>1
  <2> QED BY <1>2, <2>1, QuotientIsLargest
<1> QED BY <1>3 DEF p, q, Quotient

-----------------------------------------------------------------------------
(* Quotes of issuance and redemption at net asset value                    *)

\* The fees of a NAV module that leave something: together no more than the
\* whole.
FeeSchedule ==
  { fees \in [manager : Nat, share : Nat, direct : Nat, premium : Nat] :
      /\ fees.manager + fees.direct <= PreciseUnit
      /\ fees.share <= PreciseUnit /\ fees.premium <= PreciseUnit }

\* What two fees leave, each rounded down on its own.
LEMMA NetOfFees ==
  ASSUME NEW x \in Nat, NEW u \in Nat, NEW v \in Nat, NEW K \in Int, K = PreciseUnit - u - v, K >= 0
  PROVE  LET n == x - PreciseMul(u, x) - PreciseMul(v, x)
         IN  /\ n \in Nat
             /\ K * x <= PreciseUnit * n
             /\ PreciseUnit * n <= K * x + (2 * PreciseUnit - 2)
<1> DEFINE f == PreciseMul(u, x)
           g == PreciseMul(v, x)
           n == x - f - g
<1>0. PreciseUnit \in Nat \ {0}
  BY PreciseUnitAssumption
<1>1. /\ f \in Nat /\ PreciseUnit * f <= u * x /\ u * x < PreciseUnit * f + PreciseUnit
      /\ g \in Nat /\ PreciseUnit * g <= v * x /\ v * x < PreciseUnit * g + PreciseUnit
  BY PreciseMulBounds
<1> HIDE DEF f, g
<1>2. /\ PreciseUnit * n = PreciseUnit * x - PreciseUnit * f - PreciseUnit * g
      /\ K * x = PreciseUnit * x - u * x - v * x
      /\ PreciseUnit * x \in Int /\ PreciseUnit * f \in Int /\ PreciseUnit * g \in Int
      /\ u * x \in Int /\ v * x \in Int /\ K * x \in Nat
  BY <1>0, <1>1
<1>3. K * x <= PreciseUnit * n /\ PreciseUnit * n <= K * x + (2 * PreciseUnit - 2)
  BY <1>0, <1>1, <1>2
<1>4. n \in Nat
  <2>1. n \in Int
    BY <1>1
  <2> HIDE DEF n
  <2>2. PreciseUnit * 0 <= PreciseUnit * n
    BY <1>0, <1>2, <1>3, <2>1
  <2>3. 0 <= n
    BY <1>0, <2>1, <2>2, CancelFactor
  <2> QED BY <2>1, <2>3
<1> QED BY <1>3, <1>4 DEF f, g, n

\* A rounded product does not depend on the order of its factors.
LEMMA PreciseMulCommutes ==
  ASSUME NEW x \in Nat, NEW y \in Nat
  PROVE  PreciseMul(x, y) = PreciseMul(y, x)
<1>1. x * y = y * x
  OBVIOUS
<1> QED BY <1>1 DEF PreciseMul

\* What the module and the quote leave of a reserve flow after fees, both
\* with the same bounds; without a revenue share they are the same.
LEMMA FeesAgree ==
  ASSUME NEW fees \in FeeSchedule, NEW x \in Nat
  PROVE  LET K == PreciseUnit - fees.manager - fees.direct
             n == GetFees(fees, x).net
             m == getExpectedPostFeeQuantity(x, fees)
         IN  /\ K \in 0 .. PreciseUnit
             /\ n \in Nat /\ K * x <= PreciseUnit * n /\ PreciseUnit * n <= K * x + (2 * PreciseUnit - 2)
             /\ m \in Nat /\ K * x <= PreciseUnit * m /\ PreciseUnit * m <= K * x + (2 * PreciseUnit - 2)
             /\ fees.share = 0 => n = m
<1> DEFINE K == PreciseUnit - fees.manager - fees.direct
           s == PreciseMul(fees.share, fees.manager)
           n == GetFees(fees, x).net
           m == getExpectedPostFeeQuantity(x, fees)
<1>0. PreciseUnit \in Nat \ {0}
  BY PreciseUnitAssumption
<1>1. /\ fees.manager \in Nat /\ fees.share \in Nat /\ fees.direct \in Nat /\ fees.premium \in Nat
      /\ fees.manager + fees.direct <= PreciseUnit /\ fees.share <= PreciseUnit
  BY DEF FeeSchedule
<1>2. K \in 0 .. PreciseUnit
  BY <1>0, <1>1
<1>3. s \in Nat /\ s <= fees.manager
  <2>1. s \in Nat /\ PreciseUnit * s <= fees.share * fees.manager
    BY <1>1, PreciseMulBounds
  <2> HIDE DEF s
  <2>2. fees.share * fees.manager <= PreciseUnit * fees.manager
    <3>1. fees.manager * fees.share <= fees.manager * PreciseUnit
      BY <1>0, <1>1, ScaleOrder
    <3>2. /\ fees.manager * fees.share = fees.share * fees.manager
          /\ fees.manager * PreciseUnit = PreciseUnit * fees.manager
      BY <1>0, <1>1
    <3> QED BY <3>1, <3>2
  <2>3. PreciseUnit * s <= PreciseUnit * fees.manager
    <3>1. PreciseUnit * s \in Int /\ fees.share * fees.manager \in Int /\ PreciseUnit * fees.manager \in Int
      BY <1>0, <1>1, <2>1
    <3> QED BY <2>1, <2>2, <3>1
  <2> QED BY <1>0, <1>1, <2>1, <2>3, CancelFactor
<1>4. n = x - PreciseMul(s + fees.direct, x) - PreciseMul(fees.manager - s, x)
  BY DEF GetFees, GetProtocolAndManagerFeePercentages
<1>5. m = x - PreciseMul(fees.manager, x) - PreciseMul(fees.direct, x)
  <2>1. preciseMul(x, fees.manager) = PreciseMul(fees.manager, x)
    BY <1>1, UnsignedMirrors, PreciseMulCommutes
  <2>2. preciseMul(x, fees.direct) = PreciseMul(fees.direct, x)
    BY <1>1, UnsignedMirrors, PreciseMulCommutes
  <2> QED BY <2>1, <2>2 DEF getExpectedPostFeeQuantity
<1>6. n \in Nat /\ K * x <= PreciseUnit * n /\ PreciseUnit * n <= K * x + (2 * PreciseUnit - 2)
  <2> DEFINE u == s + fees.direct
             v == fees.manager - s
  <2> HIDE DEF n, s
  <2>1. u \in Nat /\ v \in Nat /\ K \in Int /\ K = PreciseUnit - u - v /\ K >= 0
    BY <1>0, <1>1, <1>2, <1>3
  <2>2. n = x - PreciseMul(u, x) - PreciseMul(v, x)
    BY <1>4
  <2> HIDE DEF u, v, K
  <2> QED BY <2>1, <2>2, NetOfFees
<1>7. m \in Nat /\ K * x <= PreciseUnit * m /\ PreciseUnit * m <= K * x + (2 * PreciseUnit - 2)
  <2> DEFINE u == fees.manager
             v == fees.direct
  <2> HIDE DEF m
  <2>1. u \in Nat /\ v \in Nat /\ K \in Int /\ K = PreciseUnit - u - v /\ K >= 0
    BY <1>0, <1>1, <1>2
  <2>2. m = x - PreciseMul(u, x) - PreciseMul(v, x)
    BY <1>5
  <2> HIDE DEF u, v, K
  <2> QED BY <2>1, <2>2, NetOfFees
<1>8. ASSUME fees.share = 0 PROVE n = m
  <2>1. s = 0
    <3>1. PreciseUnit * s <= fees.share * fees.manager
      BY <1>1, PreciseMulBounds
    <3> HIDE DEF s
    <3> QED BY <1>0, <1>1, <1>3, <1>8, <3>1
  <2> HIDE DEF s, n, m
  <2>2. s + fees.direct = fees.direct /\ fees.manager - s = fees.manager
    BY <1>1, <2>1
  <2>3. n = x - PreciseMul(fees.direct, x) - PreciseMul(fees.manager, x)
    BY <1>4, <2>2
  <2>4. PreciseMul(fees.direct, x) \in Nat /\ PreciseMul(fees.manager, x) \in Nat
    BY <1>1, PreciseMulBounds
  <2> QED BY <1>5, <2>3, <2>4
<1> QED BY <1>2, <1>6, <1>7, <1>8

\* Two numbers within the rounding of the same fees.
LEMMA WithinOne ==
  ASSUME NEW P \in Nat \ {0}, NEW T \in Int, NEW n \in Int, NEW m \in Int,
         T <= P * n, P * n <= T + (2 * P - 2),
         T <= P * m, P * m <= T + (2 * P - 2)
  PROVE  Distance(n, m) <= 1
<1>1. ASSUME NEW i \in Int, NEW j \in Int, P * i <= T + (2 * P - 2), T <= P * j PROVE i <= j + 1
  <2>1. P * i < P * (j + 2)
    <3>1. P * (j + 2) = P * j + 2 * P /\ P * j \in Int /\ P * i \in Int
      BY <1>1
    <3> QED BY <1>1, <3>1
  <2>2. ~(j + 2 <= i)
    <3> SUFFICES ASSUME j + 2 <= i PROVE FALSE
      OBVIOUS
    <3>1. P * (j + 2) <= P * i
      BY <1>1, ScaleOrder
    <3>2. P * (j + 2) \in Int /\ P * i \in Int
      BY <1>1
    <3> QED BY <2>1, <3>1, <3>2
  <2> QED BY <1>1, <2>2
<1>2. n <= m + 1 /\ m <= n + 1
  BY <1>1
<1> QED BY <1>2 DEF Distance, Magnitude

\* The truncated quotient of the helper is the module's on naturals.
LEMMA PreciseDivMirrors ==
  ASSUME NEW n \in Nat, NEW d \in Nat \ {0}
  PROVE  preciseDiv(n, d) = PreciseDiv(n, d)
<1>1. n * PreciseUnit \in Nat
  BY PreciseUnitAssumption
<1> QED BY <1>1, TruncOfNaturals DEF preciseDiv, PreciseDiv

\* What a unit is after the contract's conversions, and after the correction
\* that the quotes end with.
LEMMA UnitConversions ==
  ASSUME NEW u \in Nat, NEW m \in Nat \ {0}
  PROVE  /\ ReportedUnit(u, m) \in Nat /\ ReportedUnit(u, m) <= u
         /\ u - ReportedUnit(u, m) <= UnitTolerance(m)
         /\ roundedPositionUnit(u, m) \in Nat /\ roundedPositionUnit(u, m) <= u
         /\ u - roundedPositionUnit(u, m) <= UnitTolerance(m)
         /\ UnitTolerance(m) \in Nat
<1>0. PreciseUnit \in Nat \ {0}
  BY PreciseUnitAssumption
<1> DEFINE c == Quotient(PreciseUnit, m)
           d == Quotient(m, PreciseUnit)
<1>1. c \in Nat \ {0} /\ d \in Nat \ {0}
  BY <1>0, QuotientPositive
<1>2. UnitTolerance(m) = c + d - 1
  BY DEF UnitTolerance
<1> HIDE DEF c, d
<1>3. ReportedUnit(u, m) \in Nat /\ ReportedUnit(u, m) <= u /\ u - ReportedUnit(u, m) <= d
  <2> DEFINE t == (u * PreciseUnit) \div m
             r == (t * m) \div PreciseUnit
  <2>1. t \in Nat /\ r \in Nat /\ r <= u /\ u - r <= Quotient(m, PreciseUnit)
    BY <1>0, TwoFloors
  <2>2. u * PreciseUnit \in Int
    BY <1>0
  <2>3. ConvertRealToVirtualUnit(u, m) = t
    BY <2>2, DivDownByPositive DEF ConvertRealToVirtualUnit, ConservativePreciseDiv
  <2> HIDE DEF t
  <2>4. t * m \in Int
    BY <2>1
  <2>5. ConvertVirtualToRealUnit(t, m) = r
    BY <1>0, <2>4, DivDownByPositive DEF ConvertVirtualToRealUnit, ConservativePreciseMul
  <2>6. ReportedUnit(u, m) = r
    BY <2>3, <2>5 DEF ReportedUnit
  <2> HIDE DEF r
  <2> QED BY <2>1, <2>6 DEF d
<1>4. /\ roundedPositionUnit(u, m) \in Nat /\ roundedPositionUnit(u, m) <= u
      /\ u - roundedPositionUnit(u, m) <= c
  <2> DEFINE t == (u * m) \div PreciseUnit
             r == (t * PreciseUnit) \div m
  <2>1. t \in Nat /\ r \in Nat /\ r <= u /\ u - r <= Quotient(PreciseUnit, m)
    BY <1>0, TwoFloors
  <2>2. preciseMul(u, m) = t
    BY UnsignedMirrors DEF PreciseMul
  <2> HIDE DEF t
  <2>3. preciseDiv(t, m) = r
    BY <2>1, PreciseDivMirrors DEF PreciseDiv
  <2>4. roundedPositionUnit(u, m) = r
    BY <2>2, <2>3 DEF roundedPositionUnit
  <2> HIDE DEF r
  <2> QED BY <2>1, <2>4 DEF c
<1> QED BY <1>1, <1>2, <1>3, <1>4

\* The correction is odd in the unit, as every truncation is.
LEMMA NegativeCorrection ==
  ASSUME NEW u \in Nat, NEW m \in Nat \ {0}
  PROVE  roundedPositionUnit(-u, m) = -roundedPositionUnit(u, m)
<1>0. PreciseUnit \in Nat \ {0}
  BY PreciseUnitAssumption
<1>1. ASSUME NEW n \in Nat, NEW d \in Nat \ {0} PROVE TruncDiv(-n, d) = -TruncDiv(n, d)
  <2>1. CASE n = 0
    <3>1. 0 \div d = 0
      BY DivUnique
    <3> QED BY <2>1, <3>1 DEF TruncDiv, Magnitude, SignsDiffer
  <2>2. CASE n > 0
    <3>1. Magnitude(-n) = n /\ Magnitude(n) = n /\ SignsDiffer(-n, d) /\ ~SignsDiffer(n, d)
      BY <2>2 DEF Magnitude, SignsDiffer
    <3> QED BY <3>1 DEF TruncDiv
  <2> QED BY <2>1, <2>2
<1> DEFINE t == preciseMul(u, m)
<1>2. t \in Nat
  BY UnsignedMirrors, PreciseMulBounds
<1>3. preciseMul(-u, m) = -t
  <2>1. (-u) * m = -(u * m) /\ u * m \in Nat
    OBVIOUS
  <2>2. TruncDiv(-(u * m), PreciseUnit) = -TruncDiv(u * m, PreciseUnit)
    BY <1>0, <1>1, <2>1
  <2> QED BY <2>1, <2>2 DEF preciseMul
<1> HIDE DEF t
<1>4. preciseDiv(-t, m) = -preciseDiv(t, m)
  <2>1. (-t) * PreciseUnit = -(t * PreciseUnit) /\ t * PreciseUnit \in Nat
    BY <1>0, <1>2
  <2>2. TruncDiv(-(t * PreciseUnit), m) = -TruncDiv(t * PreciseUnit, m)
    BY <1>1, <2>1
  <2> QED BY <2>1, <2>2 DEF preciseDiv
<1> QED BY <1>3, <1>4 DEF roundedPositionUnit, t

\* The Sets that the quote and the module mint for the same net reserve.
LEMMA MintAgrees ==
  ASSUME NEW fees \in FeeSchedule, NEW net \in Nat, NEW supply \in Nat,
         NEW valuation \in Nat, NEW baseUnits \in Nat \ {0},
         NEW quantity, getExpectedPostFeeQuantity(quantity, fees) = net,
         PreciseMul(supply, valuation) > 0
  PROVE  LET minted == GetSetTokenMintQuantity(fees, net, supply, valuation, baseUnits)
         IN  /\ minted \in Nat
             /\ minted = getExpectedSetTokenIssueQuantity(supply, valuation, baseUnits, quantity, fees)
<1>0. PreciseUnit \in Nat \ {0}
  BY PreciseUnitAssumption
<1> DEFINE premium == PreciseMul(net, fees.premium)
           after   == net - premium
           netFees == PreciseDiv(net, baseUnits)
           netAll  == PreciseDiv(after, baseUnits)
           value   == PreciseMul(supply, valuation)
           den     == value + netFees - netAll
           num     == PreciseMul(netAll, supply)
<1>1. fees.premium \in Nat /\ fees.premium <= PreciseUnit
  BY DEF FeeSchedule
<1>2. premium \in Nat /\ PreciseUnit * premium <= net * fees.premium
  BY <1>1, PreciseMulBounds
<1>3. after \in Nat /\ after <= net
  <2> HIDE DEF premium
  <2>1. net * fees.premium <= net * PreciseUnit
    BY <1>0, <1>1, ScaleOrder
  <2>2. PreciseUnit * premium <= PreciseUnit * net
    <3>1. net * PreciseUnit = PreciseUnit * net /\ PreciseUnit * premium \in Int /\ PreciseUnit * net \in Int
          /\ net * fees.premium \in Int
      BY <1>0, <1>1, <1>2
    <3> QED BY <1>2, <2>1, <3>1
  <2>3. premium <= net
    BY <1>0, <1>2, <2>2, CancelFactor
  <2> QED BY <1>2, <2>3
<1> HIDE DEF after
<1>4. netFees \in Nat /\ netAll \in Nat /\ netAll <= netFees
  <2>1. netFees \in Nat /\ netAll \in Nat /\ baseUnits * netAll <= after * PreciseUnit
    BY <1>3, PreciseDivBounds
  <2>2. baseUnits * netAll <= net * PreciseUnit
    <3> HIDE DEF netAll
    <3>1. PreciseUnit * after <= PreciseUnit * net
      BY <1>0, <1>3, ScaleOrder
    <3>2. PreciseUnit * after = after * PreciseUnit /\ PreciseUnit * net = net * PreciseUnit
          /\ after * PreciseUnit \in Int /\ net * PreciseUnit \in Int /\ baseUnits * netAll \in Int
      BY <1>0, <1>3, <2>1
    <3> QED BY <2>1, <3>1, <3>2
  <2>3. netAll <= (net * PreciseUnit) \div baseUnits
    <3> HIDE DEF netAll
    <3>1. net * PreciseUnit \in Nat
      BY <1>0
    <3> QED BY <2>1, <2>2, <3>1, QuotientIsLargest
  <2> QED BY <2>1, <2>3 DEF PreciseDiv
<1>5. value \in Nat \ {0}
  <2>1. value \in Nat /\ value > 0
    BY PreciseMulBounds
  <2> QED BY <2>1
<1>6. num \in Nat
  BY <1>4, PreciseMulBounds
<1> HIDE DEF value, netFees, netAll, num
<1>7. den \in Nat \ {0}
  BY <1>4, <1>5
<1> HIDE DEF den
<1>8. PreciseDiv(num, den) \in Nat /\ preciseDiv(num, den) = PreciseDiv(num, den)
  BY <1>6, <1>7, PreciseDivBounds, PreciseDivMirrors
<1>9. /\ preciseMul(net, fees.premium) = premium
      /\ preciseDiv(net, baseUnits) = netFees /\ preciseDiv(after, baseUnits) = netAll
      /\ preciseMul(supply, valuation) = value /\ preciseMul(netAll, supply) = num
  <2>1. preciseMul(net, fees.premium) = premium /\ preciseMul(supply, valuation) = value
    BY <1>1, UnsignedMirrors DEF value
  <2>2. preciseDiv(net, baseUnits) = netFees /\ preciseDiv(after, baseUnits) = netAll
    BY <1>3, PreciseDivMirrors DEF netFees, netAll
  <2>3. preciseMul(netAll, supply) = num
    BY <1>4, UnsignedMirrors DEF num
  <2> QED BY <2>1, <2>2, <2>3
<1>10. GetSetTokenMintQuantity(fees, net, supply, valuation, baseUnits) = PreciseDiv(num, den)
  BY DEF GetSetTokenMintQuantity, num, den, value, netFees, netAll, after
<1>11. getExpectedSetTokenIssueQuantity(supply, valuation, baseUnits, quantity, fees) = preciseDiv(num, den)
  <2>1. getExpectedSetTokenIssueQuantity(supply, valuation, baseUnits, quantity, fees)
          = preciseDiv(preciseMul(preciseDiv(net - preciseMul(net, fees.premium), baseUnits), supply),
              preciseMul(supply, valuation) + preciseDiv(net, baseUnits)
                - preciseDiv(net - preciseMul(net, fees.premium), baseUnits))
    BY DEF getExpectedSetTokenIssueQuantity
  <2>2. net - preciseMul(net, fees.premium) = after
    BY <1>9 DEF after
  <2>3. getExpectedSetTokenIssueQuantity(supply, valuation, baseUnits, quantity, fees)
          = preciseDiv(num, value + netFees - netAll)
    BY <2>1, <2>2, <1>9
  <2> QED BY <2>3 DEF den
<1> QED BY <1>8, <1>10, <1>11

\* The issue quote of NAV issuance, for all fees, valuations and decimals.
LEMMA IssueUnitAgrees ==
  ASSUME NEW fees \in FeeSchedule, NEW quantity \in Nat, NEW net \in Nat,
         getExpectedPostFeeQuantity(quantity, fees) = net,
         NEW supply \in Nat, NEW newSupply \in Nat \ {0},
         NEW unit \in Nat, NEW multiplier \in Nat \ {0}
  PROVE  Distance(getExpectedIssuePositionUnit(unit, quantity, supply, newSupply, multiplier, fees),
                  ReportedUnit(GetIssuePositionUnit(unit, supply, newSupply, net), multiplier))
           <= UnitTolerance(multiplier)
<1> DEFINE num == PreciseMul(unit, supply) + net
           u   == PreciseDiv(num, newSupply)
           e   == roundedPositionUnit(u, multiplier)
           r   == ReportedUnit(u, multiplier)
<1>1. num \in Nat
  <2>1. PreciseMul(unit, supply) \in Nat
    BY PreciseMulBounds
  <2> QED BY <2>1
<1>2. preciseMul(supply, unit) = PreciseMul(unit, supply)
  BY UnsignedMirrors, PreciseMulCommutes
<1>3. GetIssuePositionUnit(unit, supply, newSupply, net) = u
  BY DEF GetIssuePositionUnit
<1>4. getExpectedIssuePositionUnit(unit, quantity, supply, newSupply, multiplier, fees)
        = roundedPositionUnit(preciseDiv(num, newSupply), multiplier)
  BY <1>2 DEF getExpectedIssuePositionUnit
<1> HIDE DEF num
<1>5. u \in Nat /\ preciseDiv(num, newSupply) = u
  BY <1>1, PreciseDivBounds, PreciseDivMirrors
<1> HIDE DEF u
<1>6. /\ r \in Nat /\ r <= u /\ u - r <= UnitTolerance(multiplier)
      /\ e \in Nat /\ e <= u /\ u - e <= UnitTolerance(multiplier) /\ UnitTolerance(multiplier) \in Nat
  BY <1>5, UnitConversions
<1>7. Distance(e, r) <= UnitTolerance(multiplier)
  <2> HIDE DEF e, r
  <2> QED BY <1>5, <1>6 DEF Distance, Magnitude
<1> QED BY <1>3, <1>4, <1>5, <1>7

\* The premium taken off and rounded against the redeemer.
LEMMA PremiumTaken ==
  ASSUME NEW x \in Nat, NEW premium \in 0 .. PreciseUnit
  PROVE  LET y == x - PreciseMulCeil(x, premium)
             k == PreciseUnit - premium
         IN  /\ y \in Nat /\ k \in 0 .. PreciseUnit
             /\ k * x - (PreciseUnit - 1) <= PreciseUnit * y
             /\ PreciseUnit * y <= k * x + 0
<1> DEFINE c == PreciseMulCeil(x, premium)
           y == x - c
           k == PreciseUnit - premium
<1>0. PreciseUnit \in Nat \ {0} /\ premium \in Nat /\ k \in 0 .. PreciseUnit
  BY PreciseUnitAssumption
<1>1. c \in Nat /\ x * premium <= PreciseUnit * c /\ PreciseUnit * c < x * premium + PreciseUnit
  BY <1>0, PreciseMulCeilBounds
<1>2. c <= x
  <2>1. x * premium <= x * PreciseUnit
    BY <1>0, ScaleOrder
  <2>2. c <= x
    BY <1>0, <2>1, MulCeilIsSmallest
  <2> QED BY <2>2
<1> HIDE DEF c
<1>3. /\ PreciseUnit * y = PreciseUnit * x - PreciseUnit * c /\ k * x = PreciseUnit * x - x * premium
      /\ PreciseUnit * x \in Int /\ PreciseUnit * c \in Int /\ x * premium \in Int
  BY <1>0, <1>1
<1>4. k * x - (PreciseUnit - 1) <= PreciseUnit * y /\ PreciseUnit * y <= k * x + 0
  BY <1>0, <1>1, <1>3
<1>5. y \in Nat
  BY <1>1, <1>2
<1> QED BY <1>0, <1>4, <1>5 DEF c

\* A product rounded down, as a rounding with slack.
LEMMA ScaledDown ==
  ASSUME NEW x \in Nat, NEW k \in Nat
  PROVE  LET y == PreciseMul(x, k)
         IN  /\ y \in Nat
             /\ k * x - (PreciseUnit - 1) <= PreciseUnit * y
             /\ PreciseUnit * y <= k * x + 0
<1> DEFINE y == PreciseMul(x, k)
<1>0. PreciseUnit \in Nat \ {0}
  BY PreciseUnitAssumption
<1>1. y \in Nat /\ PreciseUnit * y <= x * k /\ x * k < PreciseUnit * y + PreciseUnit
  BY PreciseMulBounds
<1> HIDE DEF y
<1>2. x * k = k * x /\ k * x \in Int /\ PreciseUnit * y \in Int
  BY <1>0, <1>1
<1>3. k * x - (PreciseUnit - 1) <= PreciseUnit * y /\ PreciseUnit * y <= k * x + 0
  BY <1>0, <1>1, <1>2
<1> QED BY <1>1, <1>3 DEF y

\* Two numbers that approximate the same product.
LEMMA ApproximationsApart ==
  ASSUME NEW D \in Nat \ {0}, NEW T \in Int, NEW x \in Int, NEW y \in Int,
         NEW U \in Int, NEW L \in Int, NEW n \in Nat,
         D * x <= T + U, T - L <= D * y, U + L < D * (n + 1)
  PROVE  x <= y + n
<1> SUFFICES ASSUME y + n + 1 <= x PROVE FALSE
  OBVIOUS
<1>1. D * (y + n + 1) <= D * x
  BY ScaleOrder
<1>2. D * (y + n + 1) = D * y + D * (n + 1)
  OBVIOUS
<1>3. D * (y + n + 1) \in Int /\ D * x \in Int /\ D * y \in Int /\ D * (n + 1) \in Int
  OBVIOUS
<1> QED BY <1>1, <1>2, <1>3

\* A redemption: scaling to the decimals of the reserve asset before the
\* premium and the fees, as the module does, or after them, as the quote does.
\* N is the value of the Sets redeemed, pre, gross and net what the module
\* makes of it, notional, sub and expected what the quote does, outflow what
\* the quoted unit subtracts.
LEMMA RedeemOrders ==
  ASSUME NEW P \in Nat \ {0}, NEW N \in Nat, NEW B \in 0 .. P, NEW k \in 0 .. P, NEW K \in 0 .. P,
         NEW pre \in Nat, NEW gross \in Nat, NEW net \in Nat,
         NEW notional \in Nat, NEW sub \in Nat, NEW expected \in Nat, NEW outflow \in Nat,
         B * N - (P - 1) <= P * pre, P * pre <= B * N + 0,
         k * pre - (P - 1) <= P * gross, P * gross <= k * pre + 0,
         K * gross - 0 <= P * net, P * net <= K * gross + (2 * P - 2),
         k * N - (P - 1) <= P * notional, P * notional <= k * N + 0,
         K * notional - 0 <= P * sub, P * sub <= K * notional + (2 * P - 2),
         B * sub - (P - 1) <= P * expected, P * expected <= B * sub + 0,
         B * notional - (P - 1) <= P * outflow, P * outflow <= B * notional + 0
  PROVE  /\ net <= expected + 3 /\ expected <= net + 3
         /\ gross <= outflow + 1 /\ outflow <= gross + 1
<1> DEFINE D  == P * P
           E  == P * D
           e  == P - 1
           f  == 2 * P - 2
           T1 == B * N
           T2 == k * T1
           T3 == K * T2
           S1 == k * N
           S2 == K * S1
           S3 == B * S2
           R2 == B * S1
<1>0. /\ P \in Nat \ {0} /\ D \in Nat \ {0} /\ E \in Nat \ {0} /\ e \in Nat /\ f \in Nat
      /\ T1 \in Int /\ T2 \in Int /\ T3 \in Int /\ S1 \in Int /\ S2 \in Int /\ S3 \in Int /\ R2 \in Int
  <2>1. B \in Nat /\ k \in Nat /\ K \in Nat
    OBVIOUS
  <2>2. T1 \in Int /\ S1 \in Int /\ D \in Nat \ {0} /\ e \in Nat /\ f \in Nat
    BY <2>1
  <2> HIDE DEF T1, S1, D
  <2>3. T2 \in Int /\ S2 \in Int /\ R2 \in Int /\ E \in Nat \ {0}
    BY <2>1, <2>2
  <2> HIDE DEF T2, S2
  <2>4. T3 \in Int /\ S3 \in Int
    BY <2>1, <2>3
  <2> QED BY <2>2, <2>3, <2>4
<1>1. T3 = S3 /\ T2 = R2
  OBVIOUS
<1>2. /\ T1 - e <= P * pre /\ P * pre <= T1 + 0
      /\ S1 - e <= P * notional /\ P * notional <= S1 + 0
  OBVIOUS
<1>3. /\ k * pre - e <= P * gross /\ P * gross <= k * pre + 0
      /\ K * gross - 0 <= P * net /\ P * net <= K * gross + f
      /\ K * notional - 0 <= P * sub /\ P * sub <= K * notional + f
      /\ B * sub - e <= P * expected /\ P * expected <= B * sub + 0
      /\ B * notional - e <= P * outflow /\ P * outflow <= B * notional + 0
  OBVIOUS
<1>4. /\ P * e \in Nat /\ P * f \in Nat /\ D * e \in Nat /\ D * f \in Nat
      /\ P * (P * f) = D * f /\ P * (P * e) = D * e /\ 2 * (P * e) = P * f
      /\ D * f = 2 * E - 2 * D /\ P * f = 2 * D - 2 * P /\ 2 * (D * e) = D * f
  BY <1>0
<1> HIDE DEF D, E, e, f, T1, T2, T3, S1, S2, S3, R2
<1>5. T2 - P * f <= D * gross /\ D * gross <= T2
  <2>1. /\ k * T1 - P * e - P * e <= (P * P) * gross
        /\ (P * P) * gross <= k * T1 + P * 0 + P * 0
    BY <1>0, <1>2, <1>3, RoundingsAdd
  <2>2. P * 0 = 0 /\ D * gross \in Int
    BY <1>0
  <2>3. T2 - P * e - P * e <= D * gross /\ D * gross <= T2 + P * 0 + P * 0
    BY <2>1 DEF T2, D
  <2> QED BY <1>0, <1>4, <2>2, <2>3
<1>6. R2 - P * f <= D * outflow /\ D * outflow <= R2
  <2>1. /\ B * S1 - P * e - P * e <= (P * P) * outflow
        /\ (P * P) * outflow <= B * S1 + P * 0 + P * 0
    BY <1>0, <1>2, <1>3, RoundingsAdd
  <2>2. P * 0 = 0 /\ D * outflow \in Int
    BY <1>0
  <2>3. R2 - P * e - P * e <= D * outflow /\ D * outflow <= R2 + P * 0 + P * 0
    BY <2>1 DEF R2, D
  <2> QED BY <1>0, <1>4, <2>2, <2>3
<1>7. S2 - P * e <= D * sub /\ D * sub <= S2 + P * f
  <2>1. /\ K * S1 - P * e - P * 0 <= (P * P) * sub
        /\ (P * P) * sub <= K * S1 + P * 0 + P * f
    BY <1>0, <1>2, <1>3, RoundingsAdd
  <2>2. P * 0 = 0 /\ D * sub \in Int
    BY <1>0
  <2>3. S2 - P * e - P * 0 <= D * sub /\ D * sub <= S2 + P * 0 + P * f
    BY <2>1 DEF S2, D
  <2> QED BY <1>0, <1>4, <2>2, <2>3
<1>8. T3 - D * f <= E * net /\ E * net <= T3 + D * f
  <2> DEFINE L == P * f
  <2>0. L \in Nat /\ T2 - L <= D * gross /\ D * gross <= T2 + 0
    BY <1>0, <1>4, <1>5
  <2> HIDE DEF L
  <2>1. /\ K * T2 - P * L - D * 0 <= (P * D) * net
        /\ (P * D) * net <= K * T2 + P * 0 + D * f
    BY <1>0, <1>3, <2>0, RoundingsAdd
  <2>2. P * 0 = 0 /\ D * 0 = 0 /\ E * net \in Int /\ P * L = D * f
    BY <1>0, <1>4 DEF L
  <2>3. T3 - P * L - D * 0 <= E * net /\ E * net <= T3 + P * 0 + D * f
    BY <2>1 DEF T3, E
  <2> QED BY <1>0, <1>4, <2>2, <2>3
<1>9. S3 - D * f <= E * expected /\ E * expected <= S3 + D * f
  <2> DEFINE L == P * e
             U == P * f
  <2>0. L \in Nat /\ U \in Nat /\ S2 - L <= D * sub /\ D * sub <= S2 + U
    BY <1>0, <1>4, <1>7
  <2> HIDE DEF L, U
  <2>1. /\ B * S2 - P * L - D * e <= (P * D) * expected
        /\ (P * D) * expected <= B * S2 + P * U + D * 0
    BY <1>0, <1>3, <2>0, RoundingsAdd
  <2>2. P * L = D * e /\ P * U = D * f /\ D * 0 = 0 /\ E * expected \in Int
    BY <1>0, <1>4 DEF L, U
  <2>3. S3 - P * L - D * e <= E * expected /\ E * expected <= S3 + P * U + D * 0
    BY <2>1 DEF S3, E
  <2> QED BY <1>0, <1>4, <2>2, <2>3
<1>10. net <= expected + 3 /\ expected <= net + 3
  <2> DEFINE U == D * f
  <2>1. U \in Int /\ U + U < E * (3 + 1)
    BY <1>0, <1>4
  <2>2. T3 - U <= E * net /\ E * net <= T3 + U /\ T3 - U <= E * expected /\ E * expected <= T3 + U
    BY <1>1, <1>8, <1>9
  <2> HIDE DEF U
  <2> QED BY <1>0, <2>1, <2>2, ApproximationsApart
<1>11. gross <= outflow + 1 /\ outflow <= gross + 1
  <2> DEFINE L == P * f
  <2>1. L \in Int /\ 0 + L < D * (1 + 1)
    BY <1>0, <1>4
  <2>2. T2 - L <= D * gross /\ D * gross <= T2 + 0 /\ T2 - L <= D * outflow /\ D * outflow <= T2 + 0
    BY <1>0, <1>1, <1>5, <1>6
  <2> HIDE DEF L
  <2> QED BY <1>0, <2>1, <2>2, ApproximationsApart
<1> QED BY <1>10, <1>11

\* What the module and the quote make of a redemption, for all fees,
\* valuations and decimals up to the Set's own.
LEMMA RedeemAgrees ==
  ASSUME NEW fees \in FeeSchedule, NEW quantity \in Nat, NEW valuation \in Nat,
         NEW baseUnits \in 0 .. PreciseUnit
  PROVE  LET gross    == GetRedeemReserveQuantity(fees, quantity, valuation, baseUnits)
             notional == notionalSubPremium(quantity, valuation, fees)
             outflow  == preciseMul(notional, baseUnits)
         IN  /\ Distance(GetFees(fees, gross).net,
                         getExpectedReserveRedeemQuantity(quantity, valuation, baseUnits, fees)) <= 3
             /\ gross \in Nat /\ outflow \in Nat
             /\ gross <= outflow + 1 /\ outflow <= gross + 1
<1> DEFINE P        == PreciseUnit
           N        == PreciseMul(quantity, valuation)
           k        == P - fees.premium
           K        == P - fees.manager - fees.direct
           pre      == PreciseMul(N, baseUnits)
           gross    == pre - PreciseMulCeil(pre, fees.premium)
           net      == GetFees(fees, gross).net
           notional == N - PreciseMulCeil(N, fees.premium)
           sub      == getExpectedPostFeeQuantity(notional, fees)
           expected == PreciseMul(sub, baseUnits)
           outflow  == PreciseMul(notional, baseUnits)
<1>0. P \in Nat \ {0} /\ fees.premium \in 0 .. PreciseUnit /\ baseUnits \in Nat
  BY PreciseUnitAssumption DEF FeeSchedule
<1>1. N \in Nat /\ preciseMul(valuation, quantity) = N
  BY PreciseMulBounds, UnsignedMirrors, PreciseMulCommutes
<1>2. GetRedeemReserveQuantity(fees, quantity, valuation, baseUnits) = gross
  BY DEF GetRedeemReserveQuantity
<1>3. notionalSubPremium(quantity, valuation, fees) = notional
  <2>1. preciseMulCeil(N, fees.premium) = PreciseMulCeil(N, fees.premium)
    BY <1>0, <1>1, UnsignedMirrors
  <2> QED BY <1>1, <2>1 DEF notionalSubPremium
<1> HIDE DEF N
<1>4. pre \in Nat /\ baseUnits * N - (P - 1) <= P * pre /\ P * pre <= baseUnits * N + 0
  BY <1>0, <1>1, ScaledDown
<1> HIDE DEF pre
<1>5. gross \in Nat /\ k \in 0 .. P /\ k * pre - (P - 1) <= P * gross /\ P * gross <= k * pre + 0
  BY <1>0, <1>4, PremiumTaken
<1>6. notional \in Nat /\ k * N - (P - 1) <= P * notional /\ P * notional <= k * N + 0
  BY <1>0, <1>1, PremiumTaken
<1> HIDE DEF gross, notional
<1>7. /\ K \in 0 .. P /\ net \in Nat /\ K * gross <= P * net /\ P * net <= K * gross + (2 * P - 2)
      /\ sub \in Nat /\ K * notional <= P * sub /\ P * sub <= K * notional + (2 * P - 2)
  BY <1>5, <1>6, FeesAgree
<1> HIDE DEF net, sub
<1>8. /\ expected \in Nat /\ baseUnits * sub - (P - 1) <= P * expected /\ P * expected <= baseUnits * sub + 0
      /\ outflow \in Nat /\ baseUnits * notional - (P - 1) <= P * outflow
      /\ P * outflow <= baseUnits * notional + 0
  BY <1>0, <1>6, <1>7, ScaledDown
<1>9. /\ getExpectedReserveRedeemQuantity(quantity, valuation, baseUnits, fees) = expected
      /\ preciseMul(notional, baseUnits) = outflow
  <2>1. preciseMul(sub, baseUnits) = expected /\ preciseMul(notional, baseUnits) = outflow
    BY <1>0, <1>6, <1>7, UnsignedMirrors
  <2> QED BY <1>3, <2>1 DEF getExpectedReserveRedeemQuantity, sub
<1> HIDE DEF expected, outflow
<1>10. K * gross - 0 <= P * net /\ K * notional - 0 <= P * sub
  <2>1. K * gross \in Int /\ K * notional \in Int
    BY <1>0, <1>5, <1>6, <1>7
  <2> QED BY <1>7, <2>1
<1> HIDE DEF P, k, K
<1>11. /\ net <= expected + 3 /\ expected <= net + 3
       /\ gross <= outflow + 1 /\ outflow <= gross + 1
  <2>1. baseUnits \in 0 .. P
    BY DEF P
  <2> QED BY <1>0, <1>1, <1>4, <1>5, <1>6, <1>7, <1>8, <1>10, <2>1, RedeemOrders
<1>12. Distance(net, expected) <= 3
  BY <1>7, <1>8, <1>11 DEF Distance, Magnitude
<1> QED BY <1>2, <1>3, <1>5, <1>8, <1>9, <1>11, <1>12 DEF net

\* The unit left in the Set, for numerators that differ by one base unit.
LEMMA LeftUnitAgrees ==
  ASSUME NEW recorded \in Nat, NEW expected \in Int, NEW supply \in Nat \ {0},
         NEW m \in Nat \ {0}, recorded <= expected + 1, expected <= recorded + 1
  PROVE  Distance(roundedPositionUnit(preciseDiv(expected, supply), m),
                  ReportedUnit(PreciseDiv(recorded, supply), m))
           <= UnitTolerance(m) + Quotient(PreciseUnit, supply)
<1>0. PreciseUnit \in Nat \ {0}
  BY PreciseUnitAssumption
<1> DEFINE Q == Quotient(PreciseUnit, supply)
           W == UnitTolerance(m)
           v == PreciseDiv(recorded, supply)
           r == ReportedUnit(v, m)
<1>1. Q \in Nat /\ PreciseUnit \div supply <= Q
  BY <1>0, QuotientPositive
<1>2. v \in Nat
  BY PreciseDivBounds
<1>3. r \in Nat /\ r <= v /\ v - r <= W /\ W \in Nat
  BY <1>2, UnitConversions
<1>4. CASE expected >= 0
  <2> DEFINE u == PreciseDiv(expected, supply)
             e == roundedPositionUnit(u, m)
  <2>0. expected \in Nat
    BY <1>4
  <2>1. u \in Nat /\ preciseDiv(expected, supply) = u
    BY <2>0, PreciseDivBounds, PreciseDivMirrors
  <2>2. e \in Nat /\ e <= u /\ u - e <= W
    BY <2>1, UnitConversions
  <2>3. u - v <= Q /\ v - u <= Q
    <3> DEFINE x == expected * PreciseUnit
               y == recorded * PreciseUnit
    <3>1. x \in Nat /\ y \in Nat
      BY <1>0, <2>0
    <3>2. x - y <= PreciseUnit /\ y - x <= PreciseUnit
      <4>1. PreciseUnit * (expected - recorded) <= PreciseUnit * 1
            /\ PreciseUnit * (recorded - expected) <= PreciseUnit * 1
        BY <1>0, <2>0, ScaleOrder
      <4>2. /\ PreciseUnit * (expected - recorded) = expected * PreciseUnit - recorded * PreciseUnit
            /\ PreciseUnit * (recorded - expected) = recorded * PreciseUnit - expected * PreciseUnit
            /\ PreciseUnit * 1 = PreciseUnit
        BY <1>0, <2>0
      <4> QED BY <4>1, <4>2
    <3> HIDE DEF x, y
    <3>3. x \div supply - y \div supply <= Quotient(PreciseUnit, supply)
          /\ y \div supply - x \div supply <= Quotient(PreciseUnit, supply)
      BY <1>0, <3>1, <3>2, QuotientsApart
    <3> QED BY <3>3 DEF x, y, PreciseDiv
  <2> HIDE DEF e, r, W, Q, u, v
  <2>4. Distance(e, r) <= W + Q
    BY <1>1, <1>2, <1>3, <2>1, <2>2, <2>3 DEF Distance, Magnitude
  <2> QED BY <2>1, <2>4 DEF e, r, W, Q, v
<1>5. CASE expected < 0
  <2> DEFINE u == PreciseUnit \div supply
             e == roundedPositionUnit(u, m)
  <2>0. expected = -1 /\ recorded = 0
    BY <1>5
  <2>1. u \in Nat
    BY <1>0, DivBounds
  <2>2. v = 0
    <3>1. 0 \div supply = 0
      BY DivUnique
    <3>2. recorded * PreciseUnit = 0
      BY <1>0, <2>0
    <3> QED BY <3>1, <3>2 DEF PreciseDiv
  <2>3. preciseDiv(expected, supply) = -u
    <3>1. expected * PreciseUnit = -PreciseUnit
      BY <1>0, <2>0
    <3>2. Magnitude(-PreciseUnit) = PreciseUnit /\ Magnitude(supply) = supply
          /\ SignsDiffer(-PreciseUnit, supply)
      BY <1>0 DEF Magnitude, SignsDiffer
    <3> QED BY <3>1, <3>2 DEF preciseDiv, TruncDiv
  <2> HIDE DEF u, v
  <2>4. e \in Nat /\ e <= u
    BY <2>1, UnitConversions
  <2>5. roundedPositionUnit(-u, m) = -e
    BY <2>1, NegativeCorrection
  <2>6. u <= Q
    BY <1>1 DEF u
  <2> HIDE DEF e, r, W, Q
  <2>7. Distance(-e, r) <= W + Q
    BY <1>1, <1>3, <2>1, <2>2, <2>4, <2>6 DEF Distance, Magnitude
  <2> QED BY <2>3, <2>5, <2>7 DEF r, W, Q, v
<1> QED BY <1>4, <1>5

\* The unit that a redemption leaves, as quoted and as the SetToken reports it.
LEMMA RedeemUnitAgrees ==
  ASSUME NEW fees \in FeeSchedule, NEW quantity \in Nat, NEW valuation \in Nat,
         NEW baseUnits \in 0 .. PreciseUnit, NEW supply \in Nat, NEW newSupply \in Nat \ {0},
         NEW unit \in Nat, NEW m \in Nat \ {0}, NEW gross,
         gross = GetRedeemReserveQuantity(fees, quantity, valuation, baseUnits),
         RedeemIsCovered(unit, supply, gross)
  PROVE  Distance(getExpectedRedeemPositionUnit(unit, quantity, valuation, baseUnits,
                                                supply, newSupply, m, fees),
                  ReportedUnit(GetRedeemPositionUnit(unit, supply, newSupply, gross), m))
           <= UnitTolerance(m) + Quotient(PreciseUnit, newSupply)
<1> DEFINE outflow  == preciseMul(notionalSubPremium(quantity, valuation, fees), baseUnits)
           held     == PreciseMul(unit, supply)
           recorded == held - gross
           expected == held - outflow
<1>1. gross \in Nat /\ outflow \in Nat /\ gross <= outflow + 1 /\ outflow <= gross + 1
  BY RedeemAgrees
<1>2. held \in Nat /\ preciseMul(supply, unit) = held
  BY PreciseMulBounds, UnsignedMirrors, PreciseMulCommutes
<1>3. held >= gross
  BY DEF RedeemIsCovered
<1>4. /\ getExpectedRedeemPositionUnit(unit, quantity, valuation, baseUnits, supply, newSupply, m, fees)
           = roundedPositionUnit(preciseDiv(expected, newSupply), m)
      /\ GetRedeemPositionUnit(unit, supply, newSupply, gross) = PreciseDiv(recorded, newSupply)
  BY <1>2 DEF getExpectedRedeemPositionUnit, GetRedeemPositionUnit
<1> HIDE DEF outflow, held
<1>5. recorded \in Nat /\ expected \in Int /\ recorded <= expected + 1 /\ expected <= recorded + 1
  BY <1>1, <1>2, <1>3
<1> HIDE DEF recorded, expected
<1>6. Distance(roundedPositionUnit(preciseDiv(expected, newSupply), m),
               ReportedUnit(PreciseDiv(recorded, newSupply), m))
        <= UnitTolerance(m) + Quotient(PreciseUnit, newSupply)
  BY <1>5, LeftUnitAgrees
<1> QED BY <1>4, <1>6

\* The issue quote of NAV issuance is the module's, up to the split of the fee.
LEMMA IssueQuotes ==
  ASSUME a \in Int, b \in Int
  PROVE  IssueQuoteAgrees
<1>0. PreciseUnit \in Nat \ {0}
  BY PreciseUnitAssumption
<1>1. NavFees \subseteq FeeSchedule
  BY DEF NavFees, FeeSchedule
<1>2. Valuation \subseteq Nat /\ BaseUnits \subseteq (0 .. PreciseUnit) /\ BaseUnits \subseteq (Nat \ {0})
  BY <1>0 DEF Valuation, BaseUnits
<1>3. ASSUME NEW multiplier \in {2, PreciseUnit, 13} PROVE multiplier \in Nat \ {0}
  BY <1>0
<1>4. a \in Int /\ b \in Int
  OBVIOUS
<1>5. IssueQuoteAgrees
  <2> SUFFICES ASSUME NEW fees \in NavFees, NEW valuation \in Valuation, NEW baseUnits \in BaseUnits,
                      a >= 0, b > 0, PreciseMul(b, valuation) > 0
               PROVE  LET net    == GetFees(fees, a).net
                          minted == GetSetTokenMintQuantity(fees, net, b, valuation, baseUnits)
                      IN  /\ Distance(net, getExpectedPostFeeQuantity(a, fees)) <= 1
                          /\ fees.share = 0 =>
                               /\ net = getExpectedPostFeeQuantity(a, fees)
                               /\ minted = getExpectedSetTokenIssueQuantity(b, valuation, baseUnits, a, fees)
                               /\ \A unit \in {0, 3, 7}, multiplier \in {2, PreciseUnit, 13} :
                                    Distance(getExpectedIssuePositionUnit(unit, a, b, b + minted, multiplier, fees),
                                             ReportedUnit(GetIssuePositionUnit(unit, b, b + minted, net), multiplier))
                                      <= UnitTolerance(multiplier)
    BY DEF IssueQuoteAgrees
  <2> DEFINE net    == GetFees(fees, a).net
             other  == getExpectedPostFeeQuantity(a, fees)
             minted == GetSetTokenMintQuantity(fees, net, b, valuation, baseUnits)
             K      == PreciseUnit - fees.manager - fees.direct
  <2>1. fees \in FeeSchedule /\ valuation \in Nat /\ baseUnits \in Nat \ {0} /\ a \in Nat /\ b \in Nat \ {0}
    BY <1>1, <1>2, <1>4
  <2>2. /\ K \in 0 .. PreciseUnit
        /\ net \in Nat /\ K * a <= PreciseUnit * net /\ PreciseUnit * net <= K * a + (2 * PreciseUnit - 2)
        /\ other \in Nat /\ K * a <= PreciseUnit * other /\ PreciseUnit * other <= K * a + (2 * PreciseUnit - 2)
        /\ fees.share = 0 => net = other
    BY <2>1, FeesAgree
  <2> HIDE DEF net, other, K
  <2>3. Distance(net, other) <= 1
    <3> DEFINE T == K * a
    <3>1. T \in Int /\ T <= PreciseUnit * net /\ PreciseUnit * net <= T + (2 * PreciseUnit - 2)
          /\ T <= PreciseUnit * other /\ PreciseUnit * other <= T + (2 * PreciseUnit - 2)
      BY <1>0, <2>1, <2>2
    <3>2. net \in Int /\ other \in Int
      BY <2>2
    <3> HIDE DEF T
    <3> QED BY <1>0, <3>1, <3>2, WithinOne
  <2>4. ASSUME fees.share = 0
        PROVE  /\ net = other
               /\ minted = getExpectedSetTokenIssueQuantity(b, valuation, baseUnits, a, fees)
               /\ \A unit \in {0, 3, 7}, multiplier \in {2, PreciseUnit, 13} :
                    Distance(getExpectedIssuePositionUnit(unit, a, b, b + minted, multiplier, fees),
                             ReportedUnit(GetIssuePositionUnit(unit, b, b + minted, net), multiplier))
                      <= UnitTolerance(multiplier)
    <3>1. net = other /\ getExpectedPostFeeQuantity(a, fees) = net
      BY <2>2, <2>4 DEF other
    <3>2. minted \in Nat /\ minted = getExpectedSetTokenIssueQuantity(b, valuation, baseUnits, a, fees)
      BY <2>1, <2>2, <3>1, MintAgrees
    <3> HIDE DEF minted
    <3>3. b + minted \in Nat \ {0}
      BY <2>1, <3>2
    <3>4. ASSUME NEW unit \in {0, 3, 7}, NEW multiplier \in {2, PreciseUnit, 13}
          PROVE  Distance(getExpectedIssuePositionUnit(unit, a, b, b + minted, multiplier, fees),
                          ReportedUnit(GetIssuePositionUnit(unit, b, b + minted, net), multiplier))
                   <= UnitTolerance(multiplier)
      <4>1. unit \in Nat /\ multiplier \in Nat \ {0} /\ b \in Nat
        BY <1>3, <2>1
      <4> QED BY <2>1, <2>2, <3>1, <3>3, <4>1, IssueUnitAgrees
    <3> QED BY <3>1, <3>2, <3>4
  <2> QED BY <2>3, <2>4 DEF net, other
<1> QED BY <1>5

\* The redeem quote of NAV issuance is as near the module's as its roundings allow.
LEMMA RedeemQuotes ==
  ASSUME a \in Int, b \in Int
  PROVE  RedeemQuoteAgrees
<1>0. PreciseUnit \in Nat \ {0}
  BY PreciseUnitAssumption
<1>1. NavFees \subseteq FeeSchedule
  BY DEF NavFees, FeeSchedule
<1>2. Valuation \subseteq Nat /\ BaseUnits \subseteq (0 .. PreciseUnit) /\ BaseUnits \subseteq (Nat \ {0})
  BY <1>0 DEF Valuation, BaseUnits
<1>3. ASSUME NEW multiplier \in {2, PreciseUnit, 13} PROVE multiplier \in Nat \ {0}
  BY <1>0
<1>4. a \in Int /\ b \in Int
  OBVIOUS
<1>5. RedeemQuoteAgrees
  <2> SUFFICES ASSUME NEW fees \in NavFees, NEW valuation \in Valuation, NEW baseUnits \in BaseUnits,
                      a >= 0, b > a
               PROVE  LET gross == GetRedeemReserveQuantity(fees, a, valuation, baseUnits)
                      IN  /\ Distance(GetFees(fees, gross).net,
                                      getExpectedReserveRedeemQuantity(a, valuation, baseUnits, fees)) <= 3
                          /\ \A unit \in {0, 3, 7}, multiplier \in {2, PreciseUnit, 13} :
                               RedeemIsCovered(unit, b, gross) =>
                                 Distance(getExpectedRedeemPositionUnit(unit, a, valuation, baseUnits,
                                                                        b, b - a, multiplier, fees),
                                          ReportedUnit(GetRedeemPositionUnit(unit, b, b - a, gross), multiplier))
                                   <= UnitTolerance(multiplier) + Quotient(PreciseUnit, b - a)
    BY DEF RedeemQuoteAgrees
  <2> DEFINE gross == GetRedeemReserveQuantity(fees, a, valuation, baseUnits)
  <2>1. /\ fees \in FeeSchedule /\ valuation \in Nat /\ baseUnits \in 0 .. PreciseUnit
        /\ a \in Nat /\ b \in Nat /\ b - a \in Nat \ {0}
    BY <1>1, <1>2, <1>4
  <2>2. Distance(GetFees(fees, gross).net,
                 getExpectedReserveRedeemQuantity(a, valuation, baseUnits, fees)) <= 3
    BY <2>1, RedeemAgrees
  <2>3. ASSUME NEW unit \in {0, 3, 7}, NEW multiplier \in {2, PreciseUnit, 13}, RedeemIsCovered(unit, b, gross)
        PROVE  Distance(getExpectedRedeemPositionUnit(unit, a, valuation, baseUnits,
                                                      b, b - a, multiplier, fees),
                        ReportedUnit(GetRedeemPositionUnit(unit, b, b - a, gross), multiplier))
                 <= UnitTolerance(multiplier) + Quotient(PreciseUnit, b - a)
    <3>1. unit \in Nat /\ multiplier \in Nat \ {0}
      BY <1>3
    <3>2. gross = GetRedeemReserveQuantity(fees, a, valuation, baseUnits)
      OBVIOUS
    <3> HIDE DEF gross
    <3> QED BY <2>1, <2>3, <3>1, <3>2, RedeemUnitAgrees
  <2> QED BY <2>2, <2>3
<1> QED BY <1>5

-----------------------------------------------------------------------------
(* Quotes at the price of a pair                                           *)

\* For every pool, stake, balance and percentage: the stake is credited with no
\* more than its share of the reserve, and the quantity to engage brings what
\* is owned of the asset to the percentage, to within the rounding of one
\* product (calculateEngageQuantities of uniswapUtils.ts).
THEOREM EngageShare ==
  ASSUME NEW reserve \in Nat, NEW total \in Nat \ {0}, NEW staked \in Nat,
         NEW balance \in Nat, NEW percentage \in Percentage
  PROVE  LET inReserve == preciseMul(preciseDiv(reserve, total), staked)
             quantity  == preciseMul(inReserve, percentage)
                            - preciseMul(balance, PreciseUnit - percentage)
         IN  /\ inReserve * total <= reserve * staked
             /\ Magnitude((balance + quantity) * PreciseUnit - percentage * (inReserve + balance))
                  < PreciseUnit
<1> DEFINE t == PreciseDiv(reserve, total)
           r == PreciseMul(t, staked)
           k == PreciseUnit - percentage
           f == PreciseMul(r, percentage)
           g == PreciseMul(balance, k)
<1>0. PreciseUnit \in Nat \ {0} /\ percentage \in Nat /\ k \in Nat
  BY PreciseUnitAssumption DEF Percentage
<1>1. t \in Nat /\ total * t <= reserve * PreciseUnit /\ preciseDiv(reserve, total) = t
  BY PreciseDivBounds, PreciseDivMirrors
<1> HIDE DEF t
<1>2. r \in Nat /\ PreciseUnit * r <= t * staked /\ preciseMul(t, staked) = r
  BY <1>1, PreciseMulBounds, UnsignedMirrors
<1> HIDE DEF r
<1>3. /\ f \in Nat /\ PreciseUnit * f <= r * percentage /\ r * percentage < PreciseUnit * f + PreciseUnit
      /\ preciseMul(r, percentage) = f
  BY <1>0, <1>2, PreciseMulBounds, UnsignedMirrors
<1>4. /\ g \in Nat /\ PreciseUnit * g <= balance * k /\ balance * k < PreciseUnit * g + PreciseUnit
      /\ preciseMul(balance, k) = g
  BY <1>0, PreciseMulBounds, UnsignedMirrors
<1>5. r * total <= reserve * staked
  <2>1. total * (PreciseUnit * r) <= total * (t * staked)
    <3> DEFINE x == PreciseUnit * r
               y == t * staked
    <3>1. x \in Int /\ y \in Int /\ x <= y
      BY <1>0, <1>1, <1>2
    <3> HIDE DEF x, y
    <3>2. total * x <= total * y
      BY <3>1, ScaleOrder
    <3> QED BY <3>2 DEF x, y
  <2>2. staked * (total * t) <= staked * (reserve * PreciseUnit)
    <3> DEFINE x == total * t
               y == reserve * PreciseUnit
    <3>1. x \in Int /\ y \in Int /\ x <= y
      BY <1>0, <1>1
    <3> HIDE DEF x, y
    <3>2. staked * x <= staked * y
      BY <3>1, ScaleOrder
    <3> QED BY <3>2 DEF x, y
  <2>3. /\ total * (PreciseUnit * r) = PreciseUnit * (r * total)
        /\ total * (t * staked) = staked * (total * t)
        /\ staked * (reserve * PreciseUnit) = PreciseUnit * (reserve * staked)
        /\ PreciseUnit * (r * total) \in Int /\ staked * (total * t) \in Int
        /\ PreciseUnit * (reserve * staked) \in Int
        /\ r * total \in Int /\ reserve * staked \in Int
    BY <1>0, <1>1, <1>2
  <2>4. PreciseUnit * (r * total) <= PreciseUnit * (reserve * staked)
    BY <2>1, <2>2, <2>3
  <2> DEFINE x == r * total
             y == reserve * staked
  <2> HIDE DEF x, y
  <2>5. x \in Int /\ y \in Int /\ PreciseUnit * x <= PreciseUnit * y
    BY <2>3, <2>4 DEF x, y
  <2>6. x <= y
    BY <1>0, <2>5, CancelFactor
  <2> QED BY <2>6 DEF x, y
<1> DEFINE off == (balance + (f - g)) * PreciseUnit - percentage * (r + balance)
<1>6. off \in Int /\ off < PreciseUnit /\ -off < PreciseUnit
  <2> HIDE DEF f, g
  <2>1. /\ (balance + (f - g)) * PreciseUnit
             = balance * PreciseUnit + PreciseUnit * f - PreciseUnit * g
        /\ percentage * (r + balance) = r * percentage + balance * percentage
        /\ balance * k = balance * PreciseUnit - balance * percentage
        /\ balance * PreciseUnit \in Int /\ PreciseUnit * f \in Int /\ PreciseUnit * g \in Int
        /\ r * percentage \in Int /\ balance * percentage \in Int
    BY <1>0, <1>2, <1>3, <1>4
  <2> QED BY <1>0, <1>3, <1>4, <2>1
<1>7. Magnitude(off) < PreciseUnit
  <2> HIDE DEF off
  <2> QED BY <1>0, <1>6 DEF Magnitude
<1> QED BY <1>1, <1>2, <1>3, <1>4, <1>5, <1>7

\* A pair pays no more than its own price.
LEMMA PaysNoMore ==
  ASSUME NEW amountIn \in Nat, NEW reserveIn \in Nat \ {0}, NEW reserveOut \in Nat
  PROVE  GetAmountOut(amountIn, reserveIn, reserveOut) * reserveIn <= amountIn * reserveOut
<1> DEFINE n == amountIn * 997 * reserveOut
           d == reserveIn * 1000 + amountIn * 997
           g == n \div d
           w == amountIn * reserveOut
<1>1. n \in Nat /\ d \in Nat \ {0} /\ w \in Nat /\ n = 997 * w
  OBVIOUS
<1>2. GetAmountOut(amountIn, reserveIn, reserveOut) = g
  BY DEF GetAmountOut
<1>3. g \in Nat /\ d * g <= n
  <2> HIDE DEF n, d
  <2> QED BY <1>1, DivBounds
<1> HIDE DEF g
<1>4. d * g = 1000 * (reserveIn * g) + 997 * (amountIn * g) /\ amountIn * g \in Nat /\ reserveIn * g \in Nat
      /\ g * reserveIn = reserveIn * g
  BY <1>3
<1> HIDE DEF n, d, w
<1>5. 1000 * (reserveIn * g) <= 997 * w
  BY <1>1, <1>3, <1>4
<1>6. reserveIn * g <= w
  BY <1>1, <1>4, <1>5
<1> QED BY <1>2, <1>4, <1>6 DEF w

\* For all balances and every price: the sale that rebalances two assets never
\* sells more than there is, and leaves them equal in value up to the step
\* with which the price resolves it (calculateRebalanceQuantity of
\* uniswapUtils.ts).
THEOREM RebalanceSale ==
  ASSUME NEW one \in Nat, NEW two \in Nat, NEW price \in Nat \ {0}
  PROVE  LET sale  == calculateRebalanceQuantity(0, <<one, two>>, price)
             moved == IF sale.sell = 1
                      THEN <<one - sale.quantity, two + preciseMul(sale.quantity, price)>>
                      ELSE <<one + preciseDiv(sale.quantity, price), two - sale.quantity>>
         IN  /\ sale.quantity \in Nat
             /\ moved[1] >= 0 /\ moved[2] >= 0
             /\ Distance(moved[1], preciseDiv(moved[2], price)) <= 1 + 2 * Quotient(PreciseUnit, price)
<1> DEFINE P     == PreciseUnit
           v     == PreciseDiv(two, price)
           c     == Quotient(P, price)
           sale  == calculateRebalanceQuantity(0, <<one, two>>, price)
           moved == IF sale.sell = 1
                    THEN <<one - sale.quantity, two + preciseMul(sale.quantity, price)>>
                    ELSE <<one + preciseDiv(sale.quantity, price), two - sale.quantity>>
<1>0. P \in Nat \ {0}
  BY PreciseUnitAssumption
<1>1. v \in Nat /\ price * v <= two * P /\ two * P < price * v + price
  BY PreciseDivBounds
<1>2. c \in Nat \ {0}
  BY <1>0, QuotientPositive
<1>3. preciseDiv(two, price) = v
  BY PreciseDivMirrors
<1>4. sale = [quantity |-> IF one > v THEN TruncDiv(one - v, 2) ELSE preciseMul(-TruncDiv(one - v, 2), price),
              sell |-> IF one > v THEN 1 ELSE 2, buy |-> IF one > v THEN 2 ELSE 1]
  BY <1>3 DEF calculateRebalanceQuantity
<1> HIDE DEF v, c
<1>5. CASE one > v
  <2> DEFINE q == (one - v) \div 2
             s == PreciseMul(q, price)
             w == PreciseDiv(two + s, price)
  <2>1. one - v \in Nat
    BY <1>1, <1>5
  <2>2. q \in Nat /\ 2 * q <= one - v /\ one - v <= 2 * q + 1
    BY <1>1, <2>1
  <2>3. TruncDiv(one - v, 2) = q
    BY <2>1, TruncOfNaturals
  <2>4. sale.quantity = q /\ sale.sell = 1
    BY <1>4, <1>5, <2>3
  <2> HIDE DEF q, sale
  <2>5. s \in Nat /\ P * s <= q * price /\ q * price < P * s + P /\ preciseMul(q, price) = s
    BY <2>2, PreciseMulBounds, UnsignedMirrors
  <2>6. moved[1] = one - q /\ moved[2] = two + s
    BY <2>4, <2>5
  <2> HIDE DEF s, moved
  <2>7. w \in Nat /\ price * w <= (two + s) * P /\ (two + s) * P < price * w + price
        /\ preciseDiv(two + s, price) = w
    <3>1. two + s \in Nat
      BY <2>5
    <3> QED BY <3>1, PreciseDivBounds, PreciseDivMirrors
  <2> HIDE DEF w
  <2>8. /\ (two + s) * P = two * P + P * s /\ q * price = price * q
        /\ two * P \in Int /\ P * s \in Int /\ price * w \in Int /\ price * v \in Int /\ price * q \in Int
        /\ price * (w - (v + q + 1)) = price * w - price * v - price * q - price
        /\ price * ((v + q) - w) = price * v + price * q - price * w
    BY <1>0, <1>1, <2>2, <2>5, <2>7
  <2>9. w <= v + q
    <3> DEFINE x == w - (v + q + 1)
    <3>1. x \in Int /\ price * x <= price * (-1)
      BY <1>0, <1>1, <2>2, <2>5, <2>7, <2>8
    <3> HIDE DEF x
    <3>2. x <= -1
      BY <3>1, CancelFactor
    <3> QED BY <1>1, <2>2, <2>7, <3>2 DEF x
  <2>10. (v + q) - w <= c
    <3> DEFINE x == (v + q) - w
    <3>1. x \in Int /\ price * x <= P + price - 1
      BY <1>0, <1>1, <2>2, <2>5, <2>7, <2>8
    <3> HIDE DEF x
    <3>2. P + price - 1 \in Nat
      BY <1>0
    <3>3. x <= (P + price - 1) \div price
      BY <3>1, <3>2, QuotientIsLargest
    <3> QED BY <3>3 DEF x, c, Quotient
  <2>11. Distance(one - q, w) <= 1 + 2 * c /\ one - q >= 0 /\ two + s >= 0
    BY <1>1, <1>2, <2>2, <2>5, <2>7, <2>9, <2>10 DEF Distance, Magnitude
  <2>12. Distance(moved[1], preciseDiv(moved[2], price)) <= 1 + 2 * c /\ moved[1] >= 0 /\ moved[2] >= 0
    BY <2>6, <2>7, <2>11
  <2> QED BY <2>2, <2>4, <2>12 DEF moved, sale, c
<1>6. CASE ~(one > v)
  <2> DEFINE x == (v - one) \div 2
             s == PreciseMul(x, price)
             y == PreciseDiv(s, price)
             w == PreciseDiv(two - s, price)
  <2>1. v - one \in Nat
    BY <1>1, <1>6
  <2>2. x \in Nat /\ 2 * x <= v - one /\ v - one <= 2 * x + 1
    BY <1>1, <2>1
  <2>3. -TruncDiv(one - v, 2) = x
    <3>1. CASE one = v
      <4>1. one - v = 0 /\ v - one = 0
        BY <1>1, <3>1
      <4>2. x = 0
        BY <2>2, <4>1
      <4>3. TruncDiv(0, 2) = 0
        BY DEF TruncDiv, SignsDiffer, Magnitude
      <4> QED BY <4>1, <4>2, <4>3
    <3>2. CASE one # v
      <4>1. Magnitude(one - v) = v - one /\ Magnitude(2) = 2 /\ SignsDiffer(one - v, 2)
        BY <1>1, <1>6, <3>2 DEF Magnitude, SignsDiffer
      <4>2. TruncDiv(one - v, 2) = -x
        BY <4>1 DEF TruncDiv
      <4> HIDE DEF x
      <4> QED BY <2>2, <4>2
    <3> QED BY <3>1, <3>2
  <2> HIDE DEF x
  <2>4. s \in Nat /\ P * s <= x * price /\ x * price < P * s + P /\ preciseMul(x, price) = s
    BY <2>2, PreciseMulBounds, UnsignedMirrors
  <2>5. sale.quantity = s /\ sale.sell = 2
    BY <1>4, <1>6, <2>3, <2>4
  <2>6. y \in Nat /\ y <= x /\ x - y <= c
    <3>1. y = (((x * price) \div P) * P) \div price
      BY DEF PreciseMul, PreciseDiv
    <3>2. LET t == (x * price) \div P
              r == (t * P) \div price
          IN  t \in Nat /\ r \in Nat /\ r <= x /\ x - r <= Quotient(P, price)
      BY <1>0, <2>2, TwoFloors
    <3> QED BY <3>1, <3>2 DEF c
  <2>7. preciseDiv(s, price) = y
    BY <2>4, PreciseDivMirrors
  <2> HIDE DEF s, y, sale
  <2>8. moved[1] = one + y /\ moved[2] = two - s
    BY <2>5, <2>7
  <2> HIDE DEF moved
  <2>9. s <= two
    <3>1. price * x <= price * v
      BY <1>1, <2>2, ScaleOrder
    <3>2. x * price = price * x /\ two * P = P * two /\ P * s \in Int /\ P * two \in Int
          /\ price * x \in Int /\ price * v \in Int
      BY <1>0, <1>1, <2>2, <2>4
    <3>3. P * s <= P * two
      BY <1>1, <2>4, <3>1, <3>2
    <3> QED BY <1>0, <2>4, <3>3, CancelFactor
  <2> DEFINE z == two - s
  <2>10. z \in Nat /\ z * P = two * P - P * s
    BY <1>0, <2>4, <2>9
  <2>11. w \in Nat /\ price * w <= z * P /\ z * P < price * w + price /\ preciseDiv(z, price) = w
    BY <2>10, PreciseDivBounds, PreciseDivMirrors
  <2> HIDE DEF w, z
  <2>12. /\ x * price = price * x
         /\ two * P \in Int /\ P * s \in Int /\ price * w \in Int /\ price * v \in Int /\ price * x \in Int
         /\ price * (w - (v - x)) = price * w - price * v + price * x
         /\ price * ((v - x) - w - 1) = price * v - price * x - price * w - price
    BY <1>0, <1>1, <2>2, <2>4, <2>11
  <2>13. v - x <= w
    <3> DEFINE d == (v - x) - w - 1
    <3>1. d \in Int /\ price * d <= price * (-1)
      BY <1>0, <1>1, <2>2, <2>4, <2>10, <2>11, <2>12
    <3> HIDE DEF d
    <3>2. d <= -1
      BY <3>1, CancelFactor
    <3> QED BY <1>1, <2>2, <2>11, <3>2 DEF d
  <2>14. w - (v - x) <= c
    <3> DEFINE d == w - (v - x)
    <3>1. d \in Int /\ price * d <= P + price - 1
      BY <1>0, <1>1, <2>2, <2>4, <2>10, <2>11, <2>12
    <3> HIDE DEF d
    <3>2. P + price - 1 \in Nat
      BY <1>0
    <3>3. d <= (P + price - 1) \div price
      BY <3>1, <3>2, QuotientIsLargest
    <3> QED BY <3>3 DEF d, c, Quotient
  <2>15. Distance(one + y, w) <= 1 + 2 * c /\ one + y >= 0 /\ z >= 0
    BY <1>1, <1>2, <2>2, <2>6, <2>10, <2>11, <2>13, <2>14 DEF Distance, Magnitude
  <2>16. Distance(moved[1], preciseDiv(moved[2], price)) <= 1 + 2 * c /\ moved[1] >= 0 /\ moved[2] >= 0
    BY <2>8, <2>11, <2>15 DEF z
  <2> QED BY <2>4, <2>5, <2>16 DEF moved, sale, c
<1> QED BY <1>5, <1>6

\* The string comparison finds the pair's order of addresses of one case.
LEMMA ReserveOrder ==
  ASSUME a \in Int, b \in Int
  PROVE  ReservesFollowAssetsInOneCase
<1> SUFFICES ASSUME NEW one \in Digit, NEW two \in Digit,
                    one.digit # two.digit, ~MixedCase(one, two)
             PROVE  ReservesAsAsked(one, two)
  BY DEF ReservesFollowAssetsInOneCase
<1>1. /\ one.digit \in {3, 11, 14} /\ two.digit \in {3, 11, 14}
      /\ one.upper \in BOOLEAN /\ two.upper \in BOOLEAN
      /\ ~(one.digit > 9 /\ two.digit > 9 /\ one.upper # two.upper)
  BY DEF Digit, MixedCase
<1> DEFINE C(x) == IF x.digit < 10 THEN 48 + x.digit
                   ELSE IF x.upper THEN 55 + x.digit ELSE 87 + x.digit
<1>2. C(one) < C(two) <=> one.digit < two.digit
  BY <1>1
<1>3. C(one) = CharCode(one) /\ C(two) = CharCode(two)
  BY DEF CharCode
<1> HIDE DEF C
<1>4. CASE one.digit < two.digit
  BY <1>2, <1>3, <1>4 DEF ReservesAsAsked, getReservesSafe
<1>5. CASE ~(one.digit < two.digit)
  BY <1>2, <1>3, <1>5 DEF ReservesAsAsked, getReservesSafe
<1> QED BY <1>4, <1>5

\* A Set's share of a pair, and what brings it to its reserve percentage.
LEMMA EngageQuotes ==
  ASSUME a \in Int, b \in Int
  PROVE  EngageReachesPercentage
<1>0. PreciseUnit \in Nat \ {0}
  BY PreciseUnitAssumption
<1>4. a \in Int /\ b \in Int
  OBVIOUS
<1>5. EngageReachesPercentage
  <2> DEFINE three == [digit |-> 3, upper |-> FALSE]
             other == [digit |-> 11, upper |-> TRUE]
  <2> SUFFICES ASSUME NEW percentage \in Percentage, NEW staked \in {1, 4, 7}, NEW balance \in {0, 5, 14},
                      a >= 0, b >= 0, NEW i \in 1 .. 2
               PROVE  LET pool       == [totalSupply |-> 7, reserves |-> <<a, b>>]
                          inReserve  == calculateTokensInReserve(pool, staked, three, other)
                          balances   == <<balance, b>>
                          quantities == calculateEngageQuantities(inReserve, balances, percentage)
                      IN  /\ inReserve[i] * pool.totalSupply <= pool.reserves[i] * staked
                          /\ Magnitude((balances[i] + quantities[i]) * PreciseUnit
                                          - percentage * (inReserve[i] + balances[i])) < PreciseUnit
    BY DEF EngageReachesPercentage
  <2> DEFINE pool       == [totalSupply |-> 7, reserves |-> <<a, b>>]
             inReserve  == calculateTokensInReserve(pool, staked, three, other)
             balances   == <<balance, b>>
             quantities == calculateEngageQuantities(inReserve, balances, percentage)
             reserve    == <<a, b>>[i]
             held       == <<balance, b>>[i]
             share      == preciseMul(preciseDiv(reserve, 7), staked)
  <2>1. reserve \in Nat /\ held \in Nat /\ staked \in Nat /\ 7 \in Nat \ {0}
    BY <1>4
  <2>2. getReservesSafe(three, other, <<a, b>>) = <<a, b>>
    BY DEF getReservesSafe, CharCode
  <2>3. inReserve = [j \in 1 .. 2 |-> preciseMul(preciseDiv(<<a, b>>[j], 7), staked)]
    BY <2>2 DEF calculateTokensInReserve
  <2>4. inReserve[i] = share
    BY <2>3
  <2> HIDE DEF inReserve
  <2>5. quantities[i] = preciseMul(inReserve[i], percentage) - preciseMul(held, PreciseUnit - percentage)
    BY DEF calculateEngageQuantities
  <2>6. pool.totalSupply = 7 /\ pool.reserves[i] = reserve /\ balances[i] = held
    OBVIOUS
  <2> HIDE DEF reserve, held, quantities, pool, balances
  <2>7. /\ share * 7 <= reserve * staked
        /\ Magnitude((held + (preciseMul(share, percentage) - preciseMul(held, PreciseUnit - percentage)))
                         * PreciseUnit - percentage * (share + held)) < PreciseUnit
    BY <2>1, EngageShare
  <2> HIDE DEF share
  <2>8. /\ inReserve[i] * pool.totalSupply <= pool.reserves[i] * staked
        /\ Magnitude((balances[i] + quantities[i]) * PreciseUnit
                        - percentage * (inReserve[i] + balances[i])) < PreciseUnit
    BY <2>4, <2>5, <2>6, <2>7
  <2> QED BY <2>8 DEF pool, balances, inReserve, quantities
<1> QED BY <1>5

\* The sale that rebalances, and what the pair pays for it.
LEMMA RebalanceQuotes ==
  ASSUME a \in Int, b \in Int
  PROVE  RebalanceEqualizesValue
<1>0. PreciseUnit \in Nat \ {0}
  BY PreciseUnitAssumption
<1>4. a \in Int /\ b \in Int
  OBVIOUS
<1>5. RebalanceEqualizesValue
  <2> SUFFICES ASSUME NEW price \in {2, 4, PreciseUnit, 10}, a >= 0, b >= 0
               PROVE  LET sale  == calculateRebalanceQuantity(0, <<a, b>>, price)
                          moved == IF sale.sell = 1
                                   THEN <<a - sale.quantity, b + preciseMul(sale.quantity, price)>>
                                   ELSE <<a + preciseDiv(sale.quantity, price), b - sale.quantity>>
                      IN  /\ moved[1] >= 0 /\ moved[2] >= 0
                          /\ Distance(moved[1], preciseDiv(moved[2], price))
                               <= 1 + 2 * Quotient(PreciseUnit, price)
                          /\ \A given \in {0, 3} :
                               LET reserves == <<30, 5 * price>>
                                   flows    == calculateRebalanceFlows(given, <<a, b>>, price, reserves)
                               IN  /\ flows[1] = IF given > 0 THEN given ELSE sale.quantity
                                   /\ flows[2] * reserves[sale.sell] <= flows[1] * reserves[sale.buy]
    BY DEF RebalanceEqualizesValue
  <2> DEFINE sale     == calculateRebalanceQuantity(0, <<a, b>>, price)
             reserves == <<30, 5 * price>>
  <2>1. a \in Nat /\ b \in Nat /\ price \in Nat \ {0}
    BY <1>0, <1>4
  <2>2. LET moved == IF sale.sell = 1
                     THEN <<a - sale.quantity, b + preciseMul(sale.quantity, price)>>
                     ELSE <<a + preciseDiv(sale.quantity, price), b - sale.quantity>>
        IN  /\ sale.quantity \in Nat
            /\ moved[1] >= 0 /\ moved[2] >= 0
            /\ Distance(moved[1], preciseDiv(moved[2], price)) <= 1 + 2 * Quotient(PreciseUnit, price)
    BY <2>1, RebalanceSale
  <2>3. ASSUME NEW given \in {0, 3}
        PROVE  LET flows == calculateRebalanceFlows(given, <<a, b>>, price, reserves)
               IN  /\ flows[1] = IF given > 0 THEN given ELSE sale.quantity
                   /\ flows[2] * reserves[sale.sell] <= flows[1] * reserves[sale.buy]
    <3> DEFINE sold  == calculateRebalanceQuantity(given, <<a, b>>, price)
               flows == calculateRebalanceFlows(given, <<a, b>>, price, reserves)
               q     == IF given > 0 THEN given ELSE sale.quantity
    <3>1. sold.quantity = q /\ sold.sell = sale.sell /\ sold.buy = sale.buy
      BY DEF calculateRebalanceQuantity
    <3>2. sale.sell \in {1, 2} /\ sale.buy \in {1, 2}
      BY DEF calculateRebalanceQuantity
    <3>3. q \in Nat
      BY <2>2
    <3> HIDE DEF sale, q
    <3>4. flows = <<q, GetAmountOut(q, reserves[sale.sell], reserves[sale.buy])>>
      BY <3>1 DEF calculateRebalanceFlows
    <3> HIDE DEF flows
    <3>5. reserves[1] \in Nat \ {0} /\ reserves[2] \in Nat \ {0}
      BY <2>1
    <3> DEFINE in  == reserves[sale.sell]
               out == reserves[sale.buy]
    <3>6. in \in Nat \ {0} /\ out \in Nat
      BY <3>2, <3>5
    <3>7. flows[1] = q /\ flows[2] = GetAmountOut(q, in, out)
      BY <3>4
    <3> HIDE DEF in, out, reserves
    <3>8. flows[2] * in <= flows[1] * out
      BY <3>3, <3>6, <3>7, PaysNoMore
    <3> QED BY <3>7, <3>8 DEF q, in, out, flows
  <2> QED BY <2>2, <2>3
<1> QED BY <1>5

-----------------------------------------------------------------------------
(* Quotes of perpetual futures                                             *)

\* A truncated quotient changes its sign with the dividend, and so do the
\* rounded products and quotients of the helpers.
LEMMA TruncationIsOdd ==
  ASSUME NEW n \in Int, NEW d \in Int \ {0}
  PROVE  TruncDiv(n, d) \in Int /\ TruncDiv(-n, d) = -TruncDiv(n, d)
<1> DEFINE q == Magnitude(n) \div Magnitude(d)
<1>1. /\ q \in Nat
      /\ TruncDiv(n, d) \in Int
      /\ TruncDiv(n, d) = IF SignsDiffer(n, d) THEN -q ELSE q
  BY MagnitudeQuotient, TruncatedDivision
<1>2. Magnitude(-n) = Magnitude(n)
  BY DEF Magnitude
<1>3. TruncDiv(-n, d) = IF SignsDiffer(-n, d) THEN -q ELSE q
  BY <1>2 DEF TruncDiv
<1>4. CASE n = 0
  <2>1. Magnitude(d) \in Nat \ {0} /\ Magnitude(n) = 0
    BY <1>4 DEF Magnitude
  <2>2. q = 0
    BY <2>1, DivUnique
  <2> HIDE DEF q
  <2> QED BY <1>1, <1>3, <2>2
<1>5. CASE n # 0
  <2>1. SignsDiffer(-n, d) <=> ~SignsDiffer(n, d)
    BY <1>5 DEF SignsDiffer
  <2> HIDE DEF q
  <2> QED BY <1>1, <1>3, <2>1
<1> QED BY <1>4, <1>5

\* The same for the rounded product and the rounded quotient.
LEMMA RoundedIsOdd ==
  ASSUME NEW x \in Int, NEW y \in Int
  PROVE  /\ preciseMul(x, y) \in Int /\ preciseMul(-x, y) = -preciseMul(x, y)
         /\ y # 0 => preciseDiv(x, y) \in Int /\ preciseDiv(-x, y) = -preciseDiv(x, y)
<1>0. PreciseUnit \in Int \ {0}
  BY PreciseUnitAssumption
<1>1. /\ x * y \in Int /\ (-x) * y = -(x * y)
      /\ x * PreciseUnit \in Int /\ (-x) * PreciseUnit = -(x * PreciseUnit)
  BY <1>0
<1>2. TruncDiv(x * y, PreciseUnit) \in Int /\ TruncDiv(-(x * y), PreciseUnit) = -TruncDiv(x * y, PreciseUnit)
  BY <1>0, <1>1, TruncationIsOdd
<1>3. y # 0 => /\ TruncDiv(x * PreciseUnit, y) \in Int
               /\ TruncDiv(-(x * PreciseUnit), y) = -TruncDiv(x * PreciseUnit, y)
  BY <1>1, TruncationIsOdd
<1> QED BY <1>1, <1>2, <1>3 DEF preciseMul, preciseDiv

\* Zero is its own opposite.
LEMMA OwnOpposite ==
  ASSUME NEW z \in Int, z + z = 0
  PROVE  -z = z
  OBVIOUS

\* What a long and the opposite short earn from funding adds up to nothing.
LEMMA FundingOpposite ==
  ASSUME NEW base \in Int, NEW twPremium \in Int, NEW mark, NEW index
  PROVE  LET g == getNetFundingGrowth(base, twPremium, mark, index)
         IN  g \in Int /\ getNetFundingGrowth(-base, twPremium, mark, index) = -g
<1> DEFINE k == TruncDiv(twPremium, OneDay)
           p == preciseMul(base, k)
           m == Magnitude(p)
<1>0. OneDay \in Int \ {0}
  BY PerpAssumption
<1>1. k \in Int
  BY <1>0, TruncationIsOdd
<1>2. p \in Int /\ preciseMul(-base, k) = -p
  <2> HIDE DEF k
  <2> QED BY <1>1, RoundedIsOdd
<1>3. base = 0 => p = 0
  <2> HIDE DEF k
  <2> SUFFICES ASSUME base = 0 PROVE p = 0
    OBVIOUS
  <2>1. -base = base
    <3>1. base + base = 0
      OBVIOUS
    <3> QED BY <3>1, OwnOpposite
  <2>2. preciseMul(-base, k) = p
    BY <2>1
  <2> HIDE DEF p
  <2> QED BY <1>2, <2>2
<1>4. /\ getNetFundingGrowth(base, twPremium, mark, index)
           = IF (mark < index) = (base > 0) THEN Magnitude(p) ELSE -Magnitude(p)
      /\ getNetFundingGrowth(-base, twPremium, mark, index)
           = IF (mark < index) = (-base > 0) THEN Magnitude(-p) ELSE -Magnitude(-p)
  BY <1>2 DEF getNetFundingGrowth
<1> HIDE DEF p
<1>5. Magnitude(-p) = m /\ m \in Int /\ (base = 0 => m = 0)
  BY <1>2, <1>3 DEF Magnitude
<1> HIDE DEF m
<1>6. base # 0 => ((base > 0) <=> ~(-base > 0))
  OBVIOUS
<1> DEFINE up == mark < index
<1>7. up \in BOOLEAN
  OBVIOUS
<1>8. /\ getNetFundingGrowth(base, twPremium, mark, index) = IF up = (base > 0) THEN m ELSE -m
      /\ getNetFundingGrowth(-base, twPremium, mark, index) = IF up = (-base > 0) THEN m ELSE -m
  BY <1>4, <1>5 DEF m
<1> HIDE DEF up
<1>9. CASE base = 0
  <2>1. m = 0 /\ m + m = 0
    BY <1>5, <1>9
  <2>2. -m = m
    BY <1>5, <2>1, OwnOpposite
  <2> QED BY <1>5, <1>8, <2>2
<1>10. CASE base # 0
  BY <1>5, <1>6, <1>7, <1>8, <1>10
<1> QED BY <1>9, <1>10

\* Funding is a zero-sum payment.
LEMMA FundingQuotes ==
  ASSUME a \in Int, b \in Int
  PROVE  FundingIsZeroSum
<1> SUFFICES ASSUME NEW twPremium \in {-30, 0, 7, 50}, NEW mark \in 1 .. 3, NEW index \in 1 .. 3
             PROVE  /\ getNetFundingGrowth(a, twPremium, mark, index)
                         + getNetFundingGrowth(-a, twPremium, mark, index) = 0
                    /\ b > 0 => getUSDCDeltaDueToFundingGrowth(20, b, a, twPremium, mark, index)
                                  + getUSDCDeltaDueToFundingGrowth(20, b, -a, twPremium, mark, index) = 0
  BY DEF FundingIsZeroSum
<1> DEFINE g == getNetFundingGrowth(a, twPremium, mark, index)
           u == preciseDiv(g, 20)
           d == preciseMul(u, b)
<1>1. twPremium \in Int
  OBVIOUS
<1>2. g \in Int /\ getNetFundingGrowth(-a, twPremium, mark, index) = -g
  BY <1>1, FundingOpposite
<1>3. /\ getUSDCDeltaDueToFundingGrowth(20, b, a, twPremium, mark, index) = d
      /\ getUSDCDeltaDueToFundingGrowth(20, b, -a, twPremium, mark, index)
           = preciseMul(preciseDiv(-g, 20), b)
  BY <1>2 DEF getUSDCDeltaDueToFundingGrowth
<1> HIDE DEF g
<1>4. u \in Int /\ preciseDiv(-g, 20) = -u
  <2>1. g \in Int /\ 20 \in Int /\ 20 # 0
    BY <1>2
  <2> QED BY <2>1, RoundedIsOdd
<1> HIDE DEF u
<1>5. d \in Int /\ preciseMul(-u, b) = -d
  BY <1>4, RoundedIsOdd
<1> HIDE DEF d
<1>6. d + (-d) = 0 /\ g + (-g) = 0
  BY <1>2, <1>5
<1> QED BY <1>2, <1>3, <1>4, <1>5, <1>6 DEF g

\* A rounded product with a natural has the sign of the other factor.
LEMMA RoundedSign ==
  ASSUME NEW x \in Int, NEW y \in Nat
  PROVE  x < 0 => Magnitude(preciseMul(x, y)) = -preciseMul(x, y)
<1> SUFFICES ASSUME x < 0 PROVE Magnitude(preciseMul(x, y)) = -preciseMul(x, y)
  OBVIOUS
<1> DEFINE z == -x
           m == preciseMul(z, y)
<1>1. z \in Nat /\ x = -z
  OBVIOUS
<1>2. m \in Nat
  <2>1. preciseMul(z, y) = PreciseMul(z, y) /\ PreciseMul(z, y) \in Nat
    BY <1>1, UnsignedMirrors, PreciseMulBounds
  <2> QED BY <2>1
<1>3. preciseMul(-z, y) = -m
  BY <1>1, RoundedIsOdd
<1>4. preciseMul(x, y) = -m
  BY <1>1, <1>3
<1> HIDE DEF m
<1> QED BY <1>2, <1>4 DEF Magnitude

\* The trade that an issuer pays for: the spot price it is measured from
\* cancels, for a long and for a short.
LEMMA TradeCost ==
  ASSUME NEW base \in Int, NEW spot \in Nat, NEW quote \in Int
  PROVE  LET ideal == preciseMul(base, spot)
         IN  ideal + (IF base >= 0 THEN quote - ideal ELSE Magnitude(ideal) - quote)
               = IF base >= 0 THEN quote ELSE -quote
<1> DEFINE ideal == preciseMul(base, spot)
<1> SUFFICES ideal + (IF base >= 0 THEN quote - ideal ELSE Magnitude(ideal) - quote)
               = IF base >= 0 THEN quote ELSE -quote
  OBVIOUS
<1>1. ideal \in Int /\ (base < 0 => Magnitude(ideal) = -ideal)
  BY RoundedIsOdd, RoundedSign
<1> HIDE DEF ideal
<1>2. CASE base >= 0
  BY <1>1, <1>2
<1>3. CASE base < 0
  <2>1. Magnitude(ideal) = -ideal
    BY <1>1, <1>3
  <2>2. ideal + (-ideal - quote) = -quote
    BY <1>1
  <2> QED BY <1>3, <2>1, <2>2
<1> QED BY <1>2, <1>3

\* What a swap costs or yields is a natural.
LEMMA SwapQuoteType ==
  ASSUME NEW market, market.ask \in Nat, market.bid \in Nat, NEW base \in Int, NEW isLong
  PROVE  SwapQuote(market, Magnitude(base), isLong) \in Nat
<1>1. Magnitude(base) \in Nat
  BY DEF Magnitude
<1> QED BY <1>1, PreciseMulCeilBounds, PreciseMulBounds DEF SwapQuote

\* The payment in does not depend on the spot prices.
LEMMA SpotQuotes ==
  ASSUME a \in Int, b \in Int
  PROVE  SpotPriceCancels
<1>0. PreciseUnit \in Nat \ {0}
  BY PreciseUnitAssumption
<1> DEFINE positions == <<[baseBalance |-> a, quoteBalance |-> -a], [baseBalance |-> b, quoteBalance |-> -b]>>
           account   == Account(40, -a - b)
           markets(price) == <<[spot |-> price, ask |-> 8, bid |-> 5], [spot |-> price, ask |-> 3, bid |-> 2]>>
           S         == 2 * PreciseUnit
           base(i)   == preciseMul(preciseDiv(positions[i].baseBalance, S), PreciseUnit)
           quote(i)  == SwapQuote(markets(PreciseUnit)[i], Magnitude(base(i)), base(i) >= 0)
           cost(i)   == IF base(i) >= 0 THEN quote(i) ELSE -quote(i)
           rest(fund) == preciseMul(preciseDiv(settledCollateral(account, fund) + account.netQuoteBalance, S),
                                    PreciseUnit)
<1>1. ASSUME NEW price \in Nat, NEW fund \in BOOLEAN
      PROVE  calculateUSDCTransferInPreciseUnits(account, positions, markets(price), S, PreciseUnit, fund)
               = rest(fund) + SumFunction([i \in 1 .. 2 |-> cost(i)])
  <2> DEFINE tradeCost(i) ==
               LET bs    == preciseMul(preciseDiv(positions[i].baseBalance, S), PreciseUnit)
                   ideal == preciseMul(bs, markets(price)[i].spot)
                   qt    == SwapQuote(markets(price)[i], Magnitude(bs), bs >= 0)
               IN  ideal + (IF bs >= 0 THEN qt - ideal ELSE Magnitude(ideal) - qt)
  <2>1. calculateUSDCTransferInPreciseUnits(account, positions, markets(price), S, PreciseUnit, fund)
          = rest(fund) + SumFunction([i \in DOMAIN positions |-> tradeCost(i)])
    BY Zenon DEF calculateUSDCTransferInPreciseUnits
  <2>2. DOMAIN positions = 1 .. 2
    OBVIOUS
  <2>3. ASSUME NEW i \in 1 .. 2 PROVE tradeCost(i) = cost(i)
    <3> DEFINE bs    == base(i)
               qt    == SwapQuote(markets(price)[i], Magnitude(bs), bs >= 0)
               ideal == preciseMul(bs, price)
    <3>1. positions[i].baseBalance \in Int /\ S \in Int \ {0}
      BY <1>0
    <3>2. bs \in Int
      <4> DEFINE u == preciseDiv(positions[i].baseBalance, S)
      <4>1. u \in Int
        <5> HIDE DEF positions, S
        <5> QED BY <3>1, RoundedIsOdd
      <4> HIDE DEF u
      <4>2. preciseMul(u, PreciseUnit) \in Int
        BY <1>0, <4>1, RoundedIsOdd
      <4> QED BY <4>2 DEF u
    <3>3. /\ markets(price)[i].ask = markets(PreciseUnit)[i].ask
          /\ markets(price)[i].bid = markets(PreciseUnit)[i].bid
          /\ markets(price)[i].ask \in Nat /\ markets(price)[i].bid \in Nat
          /\ markets(price)[i].spot = price
      OBVIOUS
    <3> HIDE DEF markets, base
    <3>4. qt \in Nat /\ qt = quote(i)
      <4>1. qt \in Nat
        <5> DEFINE mk == markets(price)[i]
        <5>1. mk.ask \in Nat /\ mk.bid \in Nat
          BY <3>3
        <5> HIDE DEF mk, bs
        <5>2. SwapQuote(mk, Magnitude(bs), bs >= 0) \in Nat
          BY <3>2, <5>1, SwapQuoteType
        <5> QED BY <5>2 DEF mk
      <4>2. qt = quote(i)
        BY <3>3 DEF SwapQuote
      <4> QED BY <4>1, <4>2
    <3>5. tradeCost(i) = ideal + (IF bs >= 0 THEN qt - ideal ELSE Magnitude(ideal) - qt)
      BY <3>3 DEF base
    <3> HIDE DEF tradeCost, qt, bs
    <3>6. tradeCost(i) = IF bs >= 0 THEN qt ELSE -qt
      BY <3>2, <3>4, <3>5, TradeCost
    <3> QED BY <3>4, <3>6 DEF bs
  <2> HIDE DEF tradeCost, cost, rest, positions
  <2>4. [i \in DOMAIN positions |-> tradeCost(i)] = [i \in 1 .. 2 |-> cost(i)]
    BY <2>2, <2>3
  <2> QED BY <2>1, <2>4
<1> HIDE DEF rest, cost
<1>2. ASSUME NEW spot \in {3, PreciseUnit, 11} PROVE spot \in Nat
  BY <1>0
<1>3. ASSUME NEW spot \in {3, PreciseUnit, 11}, NEW fund \in BOOLEAN
      PROVE  calculateUSDCTransferInPreciseUnits(account, positions, markets(spot), S, PreciseUnit, fund)
               = calculateUSDCTransferInPreciseUnits(account, positions, markets(PreciseUnit), S, PreciseUnit, fund)
  BY <1>0, <1>1, <1>2
<1> QED BY <1>3 DEF SpotPriceCancels

-----------------------------------------------------------------------------
(* Quotes of issuance through exchanges                                    *)

\* The minimum that FoldFunction takes over a set, as a table.
IsMinTable(g, e, f, S) ==
  g = [s \in SUBSET S |-> IF s = {} THEN e ELSE min(f[Pick(s)], g[s \ {Pick(s)}])]

\* A folded minimum is at most each of the values.
LEMMA FoldedMinimum ==
  ASSUME NEW S, IsFiniteSet(S), NEW f \in [S -> Int], NEW e \in Int
  PROVE  /\ FoldFunction(min, e, f) \in Int
         /\ \A x \in S : FoldFunction(min, e, f) <= f[x]
<1> DEFINE w == [p \in Int \X Int |-> min(p[1], p[2])]
           G == CHOOSE g : IsMinTable(g, e, f, S)
<1>1. \A x, y \in Int : min(x, y) \in Int /\ min(x, y) <= x /\ min(x, y) <= y
  BY DEF min
<1>2. w \in [Int \X Int -> Int] /\ \A x, y \in Int : w[<<x, y>>] = min(x, y)
  BY <1>1
<1> HIDE DEF w
<1>3. \E g : IsMinTable(g, e, f, S)
  <2>1. PICK g \in [SUBSET S -> Int] : IsFoldTable(g, w, e, f, S)
    BY <1>2, FoldTableExists, Zenon
  <2>2. ASSUME NEW s \in SUBSET S
        PROVE  (IF s = {} THEN e ELSE w[<<f[Pick(s)], g[s \ {Pick(s)}]>>])
                 = IF s = {} THEN e ELSE min(f[Pick(s)], g[s \ {Pick(s)}])
    <3>1. s # {} => f[Pick(s)] \in Int /\ g[s \ {Pick(s)}] \in Int
      BY PickIn
    <3> QED BY <1>2, <3>1
  <2>3. [s \in SUBSET S |-> IF s = {} THEN e ELSE w[<<f[Pick(s)], g[s \ {Pick(s)}]>>]]
          = [s \in SUBSET S |-> IF s = {} THEN e ELSE min(f[Pick(s)], g[s \ {Pick(s)}])]
    BY <2>2, Zenon
  <2>4. IsMinTable(g, e, f, S)
    BY <2>1, <2>3, Zenon DEF IsFoldTable, IsMinTable
  <2> QED BY <2>4
<1>4. IsMinTable(G, e, f, S)
  BY <1>3, Zenon
<1>5. FoldFunction(min, e, f) = G[S]
  <2>1. DOMAIN f = S
    OBVIOUS
  <2> QED BY <2>1, Zenon DEF FoldFunction, FoldFunctionOnSet, MapThenFoldSet, Pick, IsMinTable
<1> HIDE DEF G
<1>6. ASSUME NEW s \in SUBSET S
      PROVE  G[s] = IF s = {} THEN e ELSE min(f[Pick(s)], G[s \ {Pick(s)}])
  BY <1>4, Zenon DEF IsMinTable
<1> DEFINE Good == {s \in SUBSET S : G[s] \in Int /\ \A x \in s : G[s] <= f[x]}
<1>7. {} \in Good
  BY <1>6
<1>8. ASSUME NEW s \in SUBSET S, s # {}, \A x \in s : s \ {x} \in Good
      PROVE  s \in Good
  <2> DEFINE y == Pick(s)
             r == s \ {y}
  <2>1. y \in s /\ y \in S /\ G[s] = min(f[y], G[r])
    BY <1>6, <1>8, PickIn
  <2>2. G[r] \in Int /\ \A x \in r : G[r] <= f[x]
    BY <1>8, <2>1
  <2>3. \A x \in s : x = y \/ x \in r
    OBVIOUS
  <2> HIDE DEF y, r
  <2>4. G[s] \in Int /\ \A x \in s : G[s] <= f[x]
    <3>1. f[y] \in Int /\ \A x \in s : f[x] \in Int
      BY <2>1
    <3>2. G[s] \in Int /\ G[s] <= f[y] /\ G[s] <= G[r]
      BY <1>1, <2>1, <2>2, <3>1
    <3> QED BY <2>2, <2>3, <3>1, <3>2
  <2> QED BY <2>4
<1>9. S \in Good
  <2> HIDE DEF Good
  <2>1. \A s \in SUBSET S : s # {} /\ (\A x \in s : s \ {x} \in Good) => s \in Good
    BY <1>8
  <2>2. \A s \in SUBSET S : s \in Good
    BY <1>7, <2>1, SubsetInduction, Zenon
  <2> QED BY <2>2
<1> QED BY <1>5, <1>9

\* What a pair pays for an amount: less than it holds, and the products that
\* the rounded quotient stands between.
LEMMA SwapOut ==
  ASSUME NEW x \in Nat, NEW r \in Nat \ {0}, NEW s \in Nat \ {0}
  PROVE  LET y == GetAmountOut(x, r, s)
         IN  /\ y \in Nat /\ y < s
             /\ 1000 * (r * y) <= 997 * (x * (s - y))
             /\ \A z \in Nat : 1000 * (r * z) <= 997 * (x * (s - z)) => z <= y
<1> DEFINE n == x * 997 * s
           d == r * 1000 + x * 997
           y == GetAmountOut(x, r, s)
<1>1. n \in Nat /\ d \in Nat \ {0} /\ n = 997 * (x * s)
  OBVIOUS
<1>2. y = n \div d
  BY DEF GetAmountOut
<1>3. y \in Nat /\ d * y <= n
  <2> HIDE DEF n, d
  <2> QED BY <1>1, <1>2, DivBounds
<1>4. \A z \in Nat : 1000 * (r * z) <= 997 * (x * (s - z)) => z <= y
  <2> SUFFICES ASSUME NEW z \in Nat, 1000 * (r * z) <= 997 * (x * (s - z)) PROVE z <= y
    OBVIOUS
  <2>1. d * z = 1000 * (r * z) + 997 * (x * z) /\ x * (s - z) = x * s - x * z
    OBVIOUS
  <2>2. r * z \in Int /\ x * z \in Int /\ x * s \in Int /\ x * (s - z) \in Int
    OBVIOUS
  <2>3. d * z <= n
    <3> DEFINE rz == r * z
               xz == x * z
               xs == x * s
               xsz == x * (s - z)
               dz == d * z
    <3>1. /\ rz \in Int /\ xz \in Int /\ xs \in Int /\ n = 997 * xs /\ dz = 1000 * rz + 997 * xz
          /\ xsz = xs - xz /\ 1000 * rz <= 997 * xsz
      BY <1>1, <2>1, <2>2
    <3> HIDE DEF rz, xz, xs, xsz, dz, n
    <3>2. dz <= n
      BY <3>1
    <3> QED BY <3>2 DEF dz
  <2> HIDE DEF n, d, y
  <2>4. z <= n \div d
    BY <1>1, <2>3, QuotientIsLargest
  <2> QED BY <1>2, <2>4
<1> HIDE DEF y
<1>5. 1000 * (r * y) <= 997 * (x * (s - y))
  <2>1. d * y = 1000 * (r * y) + 997 * (x * y) /\ x * (s - y) = x * s - x * y
    BY <1>3
  <2> DEFINE ry == r * y
             xy == x * y
             xs == x * s
             xsy == x * (s - y)
             dy == d * y
  <2>2. /\ ry \in Int /\ xy \in Int /\ xs \in Int /\ n = 997 * xs /\ dy = 1000 * ry + 997 * xy
        /\ xsy = xs - xy /\ dy <= n
    BY <1>1, <1>3, <2>1
  <2> HIDE DEF ry, xy, xs, xsy, dy, n
  <2>3. 1000 * ry <= 997 * xsy
    BY <2>2
  <2> QED BY <2>3 DEF ry, xsy
<1>6. y < s
  <2> SUFFICES ASSUME s <= y PROVE FALSE
    BY <1>3
  <2>1. r * y >= 1 /\ r * y \in Int
    BY <1>3
  <2>2. x * (s - y) <= 0 /\ x * (s - y) \in Int
    BY <1>3
  <2> QED BY <1>5, <2>1, <2>2
<1> QED BY <1>3, <1>4, <1>5, <1>6 DEF y

\* The type alone.
LEMMA SwapOutType ==
  ASSUME NEW x \in Nat, NEW r \in Nat \ {0}, NEW s \in Nat \ {0}
  PROVE  GetAmountOut(x, r, s) \in Nat
  BY SwapOut

\* What has to be paid to a pair for an amount.
LEMMA SwapIn ==
  ASSUME NEW y \in Nat, NEW r \in Nat \ {0}, NEW s \in Nat \ {0}, y < s
  PROVE  LET x == GetAmountIn(y, r, s)
         IN  /\ x \in Nat \ {0}
             /\ 1000 * (r * y) < 997 * (x * (s - y))
             /\ \A z \in Nat : 1000 * (r * y) < 997 * (z * (s - y)) => x <= z
<1> DEFINE n == r * y * 1000
           d == (s - y) * 997
           q == n \div d
<1>1. n \in Nat /\ d \in Nat \ {0} /\ n = 1000 * (r * y)
  OBVIOUS
<1>2. GetAmountIn(y, r, s) = q + 1
  BY DEF GetAmountIn
<1>3. q \in Nat /\ d * q <= n /\ n < d * q + d
  <2> HIDE DEF n, d
  <2> QED BY <1>1, DivBounds
<1> HIDE DEF q
<1>4. d * q + d = 997 * ((q + 1) * (s - y))
  BY <1>3
<1>5. ASSUME NEW z \in Nat, 1000 * (r * y) < 997 * (z * (s - y)) PROVE q + 1 <= z
  <2>1. d * z = 997 * (z * (s - y))
    OBVIOUS
  <2>2. d * q < d * z /\ d * q \in Int /\ d * z \in Int
    BY <1>1, <1>3, <1>5, <2>1
  <2> SUFFICES ASSUME z <= q PROVE FALSE
    BY <1>3
  <2> HIDE DEF d
  <2>3. d * z <= d * q
    BY <1>1, <1>3, ScaleOrder
  <2> QED BY <2>2, <2>3
<1>6. q + 1 \in Nat \ {0}
  BY <1>3
<1> QED BY <1>1, <1>2, <1>3, <1>4, <1>5, <1>6

\* The amount to pay in for an amount buys at least that amount.
LEMMA InThenOut ==
  ASSUME NEW y \in Nat, NEW r \in Nat \ {0}, NEW s \in Nat \ {0}, y < s
  PROVE  y <= GetAmountOut(GetAmountIn(y, r, s), r, s)
<1> DEFINE x == GetAmountIn(y, r, s)
<1>1. x \in Nat \ {0} /\ 1000 * (r * y) < 997 * (x * (s - y))
  BY SwapIn
<1> HIDE DEF x
<1>2. 1000 * (r * y) <= 997 * (x * (s - y))
  BY <1>1
<1>3. \A z \in Nat : 1000 * (r * z) <= 997 * (x * (s - z)) => z <= GetAmountOut(x, r, s)
  BY <1>1, SwapOut
<1>4. y <= GetAmountOut(x, r, s)
  BY <1>2, <1>3
<1> QED BY <1>4 DEF x

\* A pair pays more for more.
LEMMA OutMonotone ==
  ASSUME NEW x \in Nat, NEW z \in Nat, x <= z, NEW r \in Nat \ {0}, NEW s \in Nat \ {0}
  PROVE  GetAmountOut(x, r, s) <= GetAmountOut(z, r, s)
<1> DEFINE y == GetAmountOut(x, r, s)
<1>1. y \in Nat /\ y < s /\ 1000 * (r * y) <= 997 * (x * (s - y))
  BY SwapOut
<1> HIDE DEF y
<1>2. x * (s - y) <= z * (s - y)
  <2> DEFINE k == s - y
  <2>1. k \in Nat /\ s - y = k
    BY <1>1
  <2> HIDE DEF k
  <2>2. k * x <= k * z
    BY <2>1, ScaleOrder
  <2> QED BY <2>1, <2>2
<1>3. x * (s - y) \in Int /\ z * (s - y) \in Int /\ r * y \in Int
  BY <1>1
<1>4. 1000 * (r * y) <= 997 * (z * (s - y))
  <2> DEFINE m == x * (s - y)
             n == z * (s - y)
             l == r * y
  <2>1. m \in Int /\ n \in Int /\ l \in Int /\ m <= n /\ 1000 * l <= 997 * m
    BY <1>1, <1>2, <1>3
  <2> HIDE DEF m, n, l
  <2>2. 1000 * l <= 997 * n
    BY <2>1
  <2> QED BY <2>2 DEF l, n
<1>5. \A t \in Nat : 1000 * (r * t) <= 997 * (z * (s - t)) => t <= GetAmountOut(z, r, s)
  BY SwapOut
<1>6. y <= GetAmountOut(z, r, s)
  BY <1>1, <1>4, <1>5
<1> QED BY <1>6 DEF y

\* In every pair an amount of a token sells for less than it costs to buy
\* (getAmountOut and getAmountIn of the router, as exchangeIssuanceUtils.ts
\* uses them).
THEOREM SellsForLess ==
  ASSUME NEW y \in Nat \ {0}, NEW r \in Nat \ {0}, NEW s \in Nat \ {0}, y < s
  PROVE  /\ GetAmountOut(y, s, r) \in Nat /\ GetAmountIn(y, r, s) \in Nat
         /\ GetAmountOut(y, s, r) < GetAmountIn(y, r, s)
<1> DEFINE z == GetAmountOut(y, s, r)
           x == GetAmountIn(y, r, s)
<1>1. z \in Nat /\ z < r /\ 1000 * (s * z) <= 997 * (y * (r - z))
  BY SwapOut
<1>2. x \in Nat /\ 1000 * (r * y) < 997 * (x * (s - y))
  BY SwapIn
<1> HIDE DEF x, z
<1>3. z < x
  <2> SUFFICES ASSUME x <= z PROVE FALSE
    BY <1>1, <1>2
  <2>1. x * (s - y) <= z * (s - y)
    <3> DEFINE k == s - y
    <3>1. k \in Nat
      OBVIOUS
    <3> HIDE DEF k
    <3>2. k * x <= k * z
      BY <1>1, <1>2, <3>1, ScaleOrder
    <3>3. k * x = x * k /\ k * z = z * k
      BY <1>1, <1>2, <3>1
    <3> QED BY <3>2, <3>3 DEF k
  <2>2. z * (s - y) = s * z - y * z /\ y * (r - z) = r * y - y * z
    BY <1>1
  <2>3. x * (s - y) \in Int /\ s * z \in Nat /\ y * z \in Nat /\ r * y \in Nat /\ r * y >= 1
    BY <1>1, <1>2
  <2> DEFINE xk == x * (s - y)
             zk == z * (s - y)
             sz == s * z
             yz == y * z
             ry == r * y
             yr == y * (r - z)
  <2>4. /\ xk \in Int /\ sz \in Nat /\ yz \in Nat /\ ry \in Nat /\ ry >= 1
        /\ xk <= zk /\ zk = sz - yz /\ yr = ry - yz
        /\ 1000 * sz <= 997 * yr /\ 1000 * ry < 997 * xk
    BY <1>1, <1>2, <2>1, <2>2, <2>3
  <2> HIDE DEF xk, zk, sz, yz, ry, yr
  <2> QED BY <2>4
<1> QED BY <1>1, <1>2, <1>3 DEF x, z

\* The reserves that are paid into below.
ReserveSizes == {11, 25, 30, 40, 45, 50}

\* In a pair of these sizes what buys an amount costs no more than was paid
\* for it: 997 divides no product of two numbers below it.
LEMMA BuysBack ==
  ASSUME NEW r \in ReserveSizes, NEW s \in 1 .. 996, NEW x \in Nat,
         NEW y \in Nat \ {0}, y <= GetAmountOut(x, r, s)
  PROVE  y < s /\ GetAmountIn(y, r, s) <= x
<1> DEFINE out == GetAmountOut(x, r, s)
<1>0. r \in Nat \ {0} /\ s \in Nat \ {0}
  BY DEF ReserveSizes
<1>1. out \in Nat /\ out < s /\ 1000 * (r * out) <= 997 * (x * (s - out))
  BY <1>0, SwapOut
<1> HIDE DEF out
<1>2. y <= out /\ y < s
  BY <1>1 DEF out
<1>3. 1000 * (r * y) <= 997 * (x * (s - y))
  <2>1. r * y <= r * out /\ r * y \in Int /\ r * out \in Int
    BY <1>0, <1>1, <1>2
  <2>2. x * (s - out) <= x * (s - y) /\ x * (s - out) \in Int /\ x * (s - y) \in Int
    <3>1. s - out \in Int /\ s - y \in Int /\ s - out <= s - y
      BY <1>0, <1>1, <1>2
    <3> DEFINE k == s - out
               l == s - y
    <3> HIDE DEF k, l
    <3>2. x * k <= x * l /\ x * k \in Int /\ x * l \in Int
      BY <3>1, ScaleOrder DEF k, l
    <3> QED BY <3>2 DEF k, l
  <2> DEFINE ry == r * y
             ro == r * out
             xo == x * (s - out)
             xy == x * (s - y)
  <2>3. ry \in Int /\ ro \in Int /\ xo \in Int /\ xy \in Int /\ ry <= ro /\ xo <= xy /\ 1000 * ro <= 997 * xo
    BY <1>1, <2>1, <2>2
  <2> HIDE DEF ry, ro, xo, xy
  <2>4. 1000 * ry <= 997 * xy
    BY <2>3
  <2> QED BY <2>4 DEF ry, xy
<1>4. 1000 * (r * y) # 997 * (x * (s - y))
  <2> DEFINE m == x * (s - y)
  <2>1. m \in Int /\ y \in 1 .. 996
    BY <1>0, <1>2
  <2> HIDE DEF m
  <2>2. ASSUME NEW u \in Int, y = 997 * u PROVE FALSE
    BY <2>1, <2>2
  <2>3. 11000 * y # 997 * m
    <3> SUFFICES ASSUME 11000 * y = 997 * m PROVE FALSE
      OBVIOUS
    <3>1. 423 * m - 4667 * y \in Int /\ y = 997 * (423 * m - 4667 * y)
      BY <2>1
    <3> QED BY <2>2, <3>1
  <2>4. 25000 * y # 997 * m
    <3> SUFFICES ASSUME 25000 * y = 997 * m PROVE FALSE
      OBVIOUS
    <3>1. 226 * m - 5667 * y \in Int /\ y = 997 * (226 * m - 5667 * y)
      BY <2>1
    <3> QED BY <2>2, <3>1
  <2>5. 30000 * y # 997 * m
    <3> SUFFICES ASSUME 30000 * y = 997 * m PROVE FALSE
      OBVIOUS
    <3>1. 853 * m - 25667 * y \in Int /\ y = 997 * (853 * m - 25667 * y)
      BY <2>1
    <3> QED BY <2>2, <3>1
  <2>6. 40000 * y # 997 * m
    <3> SUFFICES ASSUME 40000 * y = 997 * m PROVE FALSE
      OBVIOUS
    <3>1. 889 * m - 35667 * y \in Int /\ y = 997 * (889 * m - 35667 * y)
      BY <2>1
    <3> QED BY <2>2, <3>1
  <2>7. 45000 * y # 997 * m
    <3> SUFFICES ASSUME 45000 * y = 997 * m PROVE FALSE
      OBVIOUS
    <3>1. 901 * m - 40667 * y \in Int /\ y = 997 * (901 * m - 40667 * y)
      BY <2>1
    <3> QED BY <2>2, <3>1
  <2>8. 50000 * y # 997 * m
    <3> SUFFICES ASSUME 50000 * y = 997 * m PROVE FALSE
      OBVIOUS
    <3>1. 113 * m - 5667 * y \in Int /\ y = 997 * (113 * m - 5667 * y)
      BY <2>1
    <3> QED BY <2>2, <3>1
  <2>9. 1000 * (r * y) # 997 * m
    BY <2>1, <2>3, <2>4, <2>5, <2>6, <2>7, <2>8 DEF ReserveSizes
  <2> QED BY <2>9 DEF m
<1>5. 1000 * (r * y) < 997 * (x * (s - y))
  <2> DEFINE l == r * y
             m == x * (s - y)
  <2>1. l \in Int /\ m \in Int /\ 1000 * l <= 997 * m /\ 1000 * l # 997 * m
    BY <1>0, <1>3, <1>4
  <2> HIDE DEF l, m
  <2>2. 1000 * l < 997 * m
    BY <2>1
  <2> QED BY <2>2 DEF l, m
<1>6. \A z \in Nat : 1000 * (r * y) < 997 * (z * (s - y)) => GetAmountIn(y, r, s) <= z
  <2>1. y \in Nat
    OBVIOUS
  <2> QED BY <1>0, <1>2, <2>1, SwapIn
<1> QED BY <1>2, <1>5, <1>6

\* The quotes in USDC keep one base unit of slack, whatever the quoter's prices.
LEMMA UsdcQuotes ==
  ASSUME a \in Int, b \in Int
  PROVE  UsdcQuotesKeepSlack
<1> SUFFICES ASSUME NEW quoter \in Quoters, a >= 0, b \in 1 .. Bound
             PROVE  LET components == <<[token |-> Usdc, unit |-> a], [token |-> "spot", unit |-> b]>>
                        amountIn   == getUsdcAmountInForExactSet(components, quoter)
                        amountOut  == getUsdcAmountOutForExactSet(components, quoter)
                    IN  /\ \A n \in {b, b + 1} : quoter.exactOutput[n] <= amountIn - a
                        /\ \A n \in {b - 1, b} : amountOut - a <= quoter.exactInput[n]
                        /\ amountOut < amountIn
  BY DEF UsdcQuotesKeepSlack
<1> DEFINE out == quoter.exactOutput
           in  == quoter.exactInput
           components == <<[token |-> Usdc, unit |-> a], [token |-> "spot", unit |-> b]>>
           x == out[b + 1]
           y == in[b - 1]
           amountIn == getUsdcAmountInForExactSet(components, quoter)
           amountOut == getUsdcAmountOutForExactSet(components, quoter)
<1>0. /\ Bound \in Nat /\ a \in Nat /\ b \in Nat \ {0}
      /\ b - 1 \in 0 .. Bound + 1 /\ b \in 0 .. Bound + 1 /\ b + 1 \in 0 .. Bound + 1
      /\ b \in 1 .. Bound + 1 /\ b - 1 <= b /\ b <= b + 1
  BY BoundAssumption
<1>1. /\ out \in [0 .. Bound + 1 -> Nat] /\ in \in [0 .. Bound + 1 -> Nat]
      /\ \A m, n \in 0 .. Bound + 1 : m <= n => out[m] <= out[n]
      /\ \A m, n \in 0 .. Bound + 1 : m <= n => in[m] <= in[n]
      /\ \A n \in 1 .. Bound + 1 : in[n] < out[n]
  BY QuotersAssumption DEF NotDecreasing
<1>2. x \in Nat /\ y \in Nat /\ out[b] \in Nat /\ in[b] \in Nat
  BY <1>0, <1>1
<1>3. out[b] <= x /\ y <= in[b] /\ in[b] < out[b]
  BY <1>0, <1>1
<1>4. DOMAIN components = 1 .. 2 /\ components[1].token = Usdc /\ components[1].unit = a
        /\ components[2].token # Usdc /\ components[2].unit = b
  BY TokensAssumption
<1>5. amountIn = a + x
  <2> DEFINE f == [i \in DOMAIN components |->
                     IF components[i].token = Usdc THEN components[i].unit
                     ELSE quoter.exactOutput[components[i].unit + 1]]
  <2>1. amountIn = SumFunction(f)
    BY Zenon DEF getUsdcAmountInForExactSet
  <2> HIDE DEF components
  <2>2. DOMAIN f = 1 .. 2 /\ f[1] = a /\ f[2] = x
    BY <1>4
  <2> HIDE DEF x
  <2>3. f \in [1 .. 2 -> Int]
    <3>1. \A i \in 1 .. 2 : f[i] \in Int
      <4> HIDE DEF f
      <4> QED BY <1>0, <1>2, <2>2
    <3>2. f = [i \in 1 .. 2 |-> f[i]]
      BY <2>2
    <3> HIDE DEF f
    <3> QED BY <3>1, <3>2
  <2> HIDE DEF f
  <2> QED BY <2>1, <2>2, <2>3, ShortSums
<1>6. amountOut = a + y
  <2> DEFINE f == [i \in DOMAIN components |->
                     IF components[i].token = Usdc THEN components[i].unit
                     ELSE quoter.exactInput[components[i].unit - 1]]
  <2>1. amountOut = SumFunction(f)
    BY Zenon DEF getUsdcAmountOutForExactSet
  <2> HIDE DEF components
  <2>2. DOMAIN f = 1 .. 2 /\ f[1] = a /\ f[2] = y
    BY <1>4
  <2> HIDE DEF y
  <2>3. f \in [1 .. 2 -> Int]
    <3>1. \A i \in 1 .. 2 : f[i] \in Int
      <4> HIDE DEF f
      <4> QED BY <1>0, <1>2, <2>2
    <3>2. f = [i \in 1 .. 2 |-> f[i]]
      BY <2>2
    <3> HIDE DEF f
    <3> QED BY <3>1, <3>2
  <2> HIDE DEF f
  <2> QED BY <2>1, <2>2, <2>3, ShortSums
<1> HIDE DEF amountIn, amountOut
<1>7. amountIn - a = x /\ amountOut - a = y /\ amountOut < amountIn
  <2> HIDE DEF x, y
  <2>1. out[b] \in Int /\ in[b] \in Int
    BY <1>2
  <2> QED BY <1>0, <1>2, <1>3, <1>5, <1>6, <2>1
<1>8. \A n \in {b, b + 1} : out[n] <= amountIn - a
  BY <1>2, <1>3, <1>7
<1>9. \A n \in {b - 1, b} : amountOut - a <= in[n]
  BY <1>2, <1>3, <1>7
<1> QED BY <1>7, <1>8, <1>9 DEF amountIn, amountOut

\* The reserves of a pair are small, and the side that is paid in is one of
\* the ReserveSizes.
Sized(exchange, token) ==
  /\ exchange[token].weth \in Nat \ {0} /\ exchange[token].token \in Nat \ {0}
  /\ exchange[token].weth \in 1 .. 996 /\ exchange[token].token \in 1 .. 996
  /\ token \in {"dai", "uni", "pay"}
  /\ token = "pay" => exchange[token].token \in ReserveSizes
  /\ token # "pay" => exchange[token].weth \in ReserveSizes

\* The reserves of the pairs.
LEMMA ExchangeTypes ==
  ASSUME NEW exchange \in Exchanges
  PROVE  "pay" \in DOMAIN exchange /\ \A token \in DOMAIN exchange : Sized(exchange, token)
<1> DEFINE Pair(weth, token) == [weth |-> weth, token |-> token]
<1>1. CASE exchange = [dai |-> Pair(40, 60), uni |-> Pair(30, 20), pay |-> Pair(50, 50)]
  <2>1. DOMAIN exchange = {"dai", "uni", "pay"}
    BY <1>1
  <2>2. exchange["dai"].weth = 40 /\ exchange["dai"].token = 60
    BY <1>1
  <2>3. exchange["uni"].weth = 30 /\ exchange["uni"].token = 20
    BY <1>1
  <2>4. exchange["pay"].weth = 50 /\ exchange["pay"].token = 50
    BY <1>1
  <2>5. Sized(exchange, "dai")
    BY <2>2 DEF Sized, ReserveSizes
  <2>6. Sized(exchange, "uni")
    BY <2>3 DEF Sized, ReserveSizes
  <2>7. Sized(exchange, "pay")
    BY <2>4 DEF Sized, ReserveSizes
  <2> QED BY <2>1, <2>5, <2>6, <2>7, Zenon
<1>2. CASE exchange = [dai |-> Pair(40, 90), pay |-> Pair(60, 45)]
  <2>1. DOMAIN exchange = {"dai", "pay"}
    BY <1>2
  <2>2. exchange["dai"].weth = 40 /\ exchange["dai"].token = 90
    BY <1>2
  <2>3. exchange["pay"].weth = 60 /\ exchange["pay"].token = 45
    BY <1>2
  <2>4. Sized(exchange, "dai")
    BY <2>2 DEF Sized, ReserveSizes
  <2>5. Sized(exchange, "pay")
    BY <2>3 DEF Sized, ReserveSizes
  <2> QED BY <2>1, <2>4, <2>5, Zenon
<1>3. CASE exchange = [uni |-> Pair(25, 40), dai |-> Pair(11, 35), pay |-> Pair(70, 30)]
  <2>1. DOMAIN exchange = {"uni", "dai", "pay"}
    BY <1>3
  <2>2. exchange["uni"].weth = 25 /\ exchange["uni"].token = 40
    BY <1>3
  <2>3. exchange["dai"].weth = 11 /\ exchange["dai"].token = 35
    BY <1>3
  <2>4. exchange["pay"].weth = 70 /\ exchange["pay"].token = 30
    BY <1>3
  <2>5. Sized(exchange, "uni")
    BY <2>2 DEF Sized, ReserveSizes
  <2>6. Sized(exchange, "dai")
    BY <2>3 DEF Sized, ReserveSizes
  <2>7. Sized(exchange, "pay")
    BY <2>4 DEF Sized, ReserveSizes
  <2> QED BY <2>1, <2>5, <2>6, <2>7, Zenon
<1> QED BY <1>1, <1>2, <1>3 DEF Exchanges

\* What a pair pays is a natural.
LEMMA SwapType ==
  ASSUME NEW e \in Exchanges, NEW token \in DOMAIN e, NEW x \in Nat
  PROVE  AmountOut("ether", e[token], x) \in Nat /\ AmountOut("token", e[token], x) \in Nat
<1> DEFINE r == e[token].weth
           t == e[token].token
<1>1. r \in Nat \ {0} /\ t \in Nat \ {0}
  BY ExchangeTypes DEF Sized
<1>2. /\ AmountOut("ether", e[token], x) = GetAmountOut(x, r, t)
      /\ AmountOut("token", e[token], x) = GetAmountOut(x, t, r)
  BY DEF AmountOut
<1> HIDE DEF r, t
<1>3. GetAmountOut(x, r, t) \in Nat
  BY <1>1, SwapOut
<1>4. GetAmountOut(x, t, r) \in Nat
  BY <1>1, SwapOut
<1> QED BY <1>2, <1>3, <1>4

\* What is in the Sets.
LEMMA SetTypes ==
  ASSUME NEW set \in Sets
  PROVE  /\ DOMAIN set = 1 .. 1 \/ DOMAIN set = 1 .. 2
         /\ \A i \in DOMAIN set : set[i].unit \in Nat \ {0} /\ set[i].token # "pay"
         /\ \E i \in DOMAIN set : set[i].token # Weth
<1>1. CASE set = <<[token |-> "dai", unit |-> 4], [token |-> "uni", unit |-> 3]>>
  <2>1. /\ DOMAIN set = 1 .. 2 /\ set[1] = [token |-> "dai", unit |-> 4]
        /\ set[2] = [token |-> "uni", unit |-> 3]
    BY <1>1
  <2>2. 1 \in DOMAIN set /\ set[1].token # Weth
    BY <2>1, TokensAssumption
  <2> QED BY <2>1, <2>2
<1>2. CASE set = <<[token |-> Weth, unit |-> 2], [token |-> "dai", unit |-> 5]>>
  <2>1. /\ DOMAIN set = 1 .. 2 /\ set[1] = [token |-> Weth, unit |-> 2]
        /\ set[2] = [token |-> "dai", unit |-> 5]
    BY <1>2
  <2>2. 2 \in DOMAIN set /\ set[2].token # Weth /\ Weth # "pay"
    BY <2>1, TokensAssumption
  <2> QED BY <2>1, <2>2
<1>3. CASE set = <<[token |-> "uni", unit |-> 2]>>
  <2>1. DOMAIN set = 1 .. 1 /\ set[1] = [token |-> "uni", unit |-> 2]
    BY <1>3
  <2>2. 1 \in DOMAIN set /\ set[1].token # Weth
    BY <2>1, TokensAssumption
  <2> QED BY <2>1, <2>2
<1> QED BY <1>1, <1>2, <1>3 DEF Sets

\* A token can be bought on some exchange, in this amount on each.
Buyable(token, amount, u, s) ==
  token # Weth => /\ hasPair(u, token) \/ hasPair(s, token)
                  /\ \A e \in {u, s} : hasPair(e, token) => amount < e[token].token

\* The price of an amount is at most the one of each exchange.
LEMMA BestPrice ==
  ASSUME NEW token, NEW amount \in Nat \ {0}, NEW u \in Exchanges, NEW s \in Exchanges,
         Buyable(token, amount, u, s)
  PROVE  LET p == getInputAmountBestPrice(token, amount, u, s)
         IN  /\ p \in Nat \ {0}
             /\ token = Weth => p = amount
             /\ token # Weth => \A e \in {u, s} : hasPair(e, token) =>
                                  p <= AmountIn("ether", e[token], amount)
<1> DEFINE p == getInputAmountBestPrice(token, amount, u, s)
           cost(e) == IF hasPair(e, token) THEN AmountIn("ether", e[token], amount) ELSE MaxUint256
<1>1. CASE token = Weth
  BY <1>1 DEF getInputAmountBestPrice
<1>2. CASE token # Weth
  <2>1. p = min(cost(u), cost(s))
    BY <1>2 DEF getInputAmountBestPrice, cheapest
  <2>2. ASSUME NEW e \in {u, s} PROVE cost(e) \in Nat \ {0}
    <3>1. CASE hasPair(e, token)
      <4>1. e \in Exchanges /\ token \in DOMAIN e
        BY <3>1 DEF hasPair
      <4> DEFINE r == e[token].weth
                 t == e[token].token
      <4>2. r \in Nat \ {0} /\ t \in Nat \ {0}
        BY <4>1, ExchangeTypes DEF Sized
      <4>3. amount < t
        BY <1>2, <3>1 DEF Buyable
      <4>4. AmountIn("ether", e[token], amount) = GetAmountIn(amount, r, t)
        BY DEF AmountIn
      <4> HIDE DEF r, t
      <4>5. amount \in Nat
        OBVIOUS
      <4>6. GetAmountIn(amount, r, t) \in Nat \ {0}
        BY <4>2, <4>3, <4>5, SwapIn
      <4> QED BY <3>1, <4>4, <4>6
    <3>2. CASE ~hasPair(e, token)
      BY <3>2, MaxUint256Assumption
    <3> QED BY <3>1, <3>2
  <2> HIDE DEF cost
  <2>3. cost(u) \in Nat \ {0} /\ cost(s) \in Nat \ {0}
    BY <2>2
  <2>4. p \in Nat \ {0} /\ p <= cost(u) /\ p <= cost(s)
    BY <2>1, <2>3 DEF min
  <2>5. ASSUME NEW e \in {u, s}, hasPair(e, token) PROVE p <= AmountIn("ether", e[token], amount)
    <3>1. p <= cost(e)
      BY <2>4
    <3>2. cost(e) = AmountIn("ether", e[token], amount)
      BY <2>5 DEF cost
    <3> QED BY <3>1, <3>2
  <2> HIDE DEF p
  <2>6. /\ p \in Nat \ {0}
        /\ token = Weth => p = amount
        /\ token # Weth => \A e \in {u, s} : hasPair(e, token) => p <= AmountIn("ether", e[token], amount)
    BY <1>2, <2>4, <2>5
  <2> QED BY <2>6 DEF p
<1> QED BY <1>1, <1>2

\* What can be quoted can be bought.
LEMMA QuotableParts ==
  ASSUME NEW set \in Sets, NEW amountSet, NEW u, NEW s, Quotable(set, amountSet, u, s),
         NEW i \in DOMAIN set
  PROVE  /\ componentAmount(set[i], amountSet) > 0
         /\ Buyable(set[i].token, componentAmount(set[i], amountSet), u, s)
         /\ Buyable(set[i].token, set[i].unit, u, s)
  BY DEF Quotable, Buyable

\* What a pair pays for WETH costs no more than the WETH that was paid.
LEMMA BestIsBoughtBack ==
  ASSUME NEW token, token # Weth, token # "pay", NEW u \in Exchanges, NEW s \in Exchanges,
         NEW x \in Nat, NEW amount \in Nat \ {0}, amount <= best("ether", token, x, u, s),
         Buyable(token, amount, u, s)
  PROVE  getInputAmountBestPrice(token, amount, u, s) <= x
<1> DEFINE proceeds(e) == IF hasPair(e, token) THEN AmountOut("ether", e[token], x) ELSE 0
<1>1. best("ether", token, x, u, s) = IF proceeds(u) > proceeds(s) THEN proceeds(u) ELSE proceeds(s)
  BY Zenon DEF best
<1>2. PICK e \in {u, s} : amount <= proceeds(e)
  <2> HIDE DEF proceeds
  <2> QED BY <1>1
<1>3. hasPair(e, token) /\ amount <= AmountOut("ether", e[token], x)
  BY <1>2
<1>4. e \in Exchanges /\ token \in DOMAIN e
  BY <1>3 DEF hasPair
<1> DEFINE r == e[token].weth
           t == e[token].token
<1>5. r \in ReserveSizes /\ t \in 1 .. 996
  BY <1>4, ExchangeTypes DEF Sized
<1>6. /\ AmountIn("ether", e[token], amount) = GetAmountIn(amount, r, t)
      /\ AmountOut("ether", e[token], x) = GetAmountOut(x, r, t)
  BY DEF AmountIn, AmountOut
<1> HIDE DEF r, t
<1>7. GetAmountIn(amount, r, t) <= x
  <2>1. amount <= GetAmountOut(x, r, t)
    BY <1>3, <1>6
  <2> QED BY <1>5, <2>1, BuysBack, ZenonT(30)
<1>8. /\ getInputAmountBestPrice(token, amount, u, s) \in Nat
      /\ getInputAmountBestPrice(token, amount, u, s) <= AmountIn("ether", e[token], amount)
  BY <1>3, BestPrice
<1>9. GetAmountIn(amount, r, t) \in Nat
  <2>1. r \in Nat \ {0} /\ t \in Nat \ {0} /\ amount \in Nat
    BY <1>5 DEF ReserveSizes
  <2>2. amount < t
    BY <1>3 DEF Buyable, t
  <2> QED BY <2>1, <2>2, SwapIn
<1> QED BY <1>6, <1>7, <1>8, <1>9

\* The Sets quoted for an amount of ETH cost no more than that amount.
LEMMA Affordable ==
  ASSUME NEW set \in Sets, NEW u \in Exchanges, NEW s \in Exchanges, NEW eth \in Nat \ {0},
         NEW F, F = getIssueSetForExactETH(set, eth, u, s),
         Quotable(set, PreciseUnit, u, s), Quotable(set, F, u, s)
  PROVE  /\ getIssueExactSetFromETH(set, F, u, s) \in Nat \ {0}
         /\ getIssueExactSetFromETH(set, F, u, s) <= eth
<1> DEFINE D == DOMAIN set
           amt(i) == componentAmount(set[i], F)
           price == [i \in D |-> getInputAmountBestPrice(set[i].token, amt(i), u, s)]
           c == [i \in D |-> getInputAmountBestPrice(set[i].token, set[i].unit, u, s)]
           total == SumFunction(c)
           scaled == [i \in D |-> (c[i] * eth) \div total]
           out == [i \in D |-> IF set[i].token = Weth THEN scaled[i]
                               ELSE best("ether", set[i].token, scaled[i], u, s)]
           sets == [i \in D |-> (out[i] * PreciseUnit) \div set[i].unit]
<1>0. PreciseUnit \in Nat \ {0} /\ MaxUint256 \in Int
  BY PreciseUnitAssumption, MaxUint256Assumption
<1>1. IsFiniteSet(D) /\ 1 \in D
  <2>1. IsFiniteSet(1 .. 1) /\ IsFiniteSet(1 .. 2)
    BY ShortIntervals
  <2>2. 1 \in 1 .. 1 /\ 1 \in 1 .. 2
    OBVIOUS
  <2> QED BY <2>1, <2>2, SetTypes
<1>2. \A i \in D : set[i].unit \in Nat \ {0} /\ set[i].token # "pay"
  BY SetTypes
<1>3. F = FoldFunction(min, MaxUint256, sets)
  BY Zenon DEF getIssueSetForExactETH
<1>4. getIssueExactSetFromETH(set, F, u, s) = SumFunction(price)
  BY Zenon DEF getIssueExactSetFromETH
<1>5. F > 0
  BY DEF Quotable
<1>6. ASSUME NEW i \in D
      PROVE  /\ Buyable(set[i].token, set[i].unit, u, s)
             /\ amt(i) > 0 /\ Buyable(set[i].token, amt(i), u, s)
  BY QuotableParts
<1>7. ASSUME NEW i \in D PROVE c[i] \in Nat \ {0}
  <2>1. getInputAmountBestPrice(set[i].token, set[i].unit, u, s) \in Nat \ {0}
    BY <1>2, <1>6, BestPrice
  <2> QED BY <2>1
<1>8. c \in [D -> Nat] /\ total \in Nat \ {0}
  <2>1. c \in [D -> Nat]
    BY <1>7
  <2> HIDE DEF c
  <2>2. SumFunction(c) \in Nat /\ c[1] <= SumFunction(c)
    BY <1>1, <2>1, SumOfNaturals
  <2> QED BY <1>1, <1>7, <2>1, <2>2
<1> HIDE DEF c, total
<1>9. ASSUME NEW i \in D PROVE scaled[i] \in Nat /\ total * scaled[i] <= c[i] * eth
  <2>1. c[i] * eth \in Nat
    BY <1>7
  <2>2. scaled[i] = (c[i] * eth) \div total
    OBVIOUS
  <2> DEFINE n == c[i] * eth
  <2>3. n \div total \in Nat /\ total * (n \div total) <= n
    <3> HIDE DEF n
    <3> QED BY <1>8, <2>1, DivBounds DEF n
  <2> HIDE DEF scaled
  <2> QED BY <2>2, <2>3
<1>10. scaled \in [D -> Nat]
  BY <1>9
<1> HIDE DEF scaled
<1>11. ASSUME NEW i \in D PROVE out[i] \in Nat
  <2>1. CASE set[i].token = Weth
    BY <1>9, <2>1
  <2>2. CASE set[i].token # Weth
    <3> DEFINE token == set[i].token
               proceeds(e) == IF hasPair(e, token) THEN AmountOut("ether", e[token], scaled[i]) ELSE 0
    <3>1. out[i] = IF proceeds(u) > proceeds(s) THEN proceeds(u) ELSE proceeds(s)
      BY <2>2, Zenon DEF best
    <3>2. ASSUME NEW e \in {u, s} PROVE proceeds(e) \in Nat
      <4>1. CASE hasPair(e, token)
        <5>1. e \in Exchanges /\ token \in DOMAIN e
          BY <4>1 DEF hasPair
        <5>2. AmountOut("ether", e[token], scaled[i]) \in Nat
          BY <1>9, <5>1, SwapType
        <5> QED BY <4>1, <5>2
      <4>2. CASE ~hasPair(e, token)
        BY <4>2
      <4> QED BY <4>1, <4>2
    <3> HIDE DEF proceeds, out
    <3> QED BY <3>1, <3>2
  <2> QED BY <2>1, <2>2
<1>12. ASSUME NEW i \in D
       PROVE  sets[i] \in Int /\ set[i].unit * sets[i] <= out[i] * PreciseUnit
  <2> DEFINE n == out[i] * PreciseUnit
             d == set[i].unit
  <2>1. n \in Nat /\ d \in Nat \ {0}
    BY <1>0, <1>2, <1>11
  <2>2. sets[i] = n \div d
    OBVIOUS
  <2> HIDE DEF n, d, sets
  <2>3. n \div d \in Nat /\ d * (n \div d) <= n
    BY <2>1, DivBounds
  <2> QED BY <2>2, <2>3 DEF n, d
<1>13. F \in Nat /\ \A i \in D : F <= sets[i]
  <2>1. sets \in [D -> Int]
    BY <1>12
  <2> HIDE DEF sets, D
  <2>2. FoldFunction(min, MaxUint256, sets) \in Int /\ \A i \in D : FoldFunction(min, MaxUint256, sets) <= sets[i]
    BY <1>0, <1>1, <2>1, FoldedMinimum, Zenon
  <2> QED BY <1>3, <1>5, <2>2
<1> HIDE DEF sets, out
<1>14. ASSUME NEW i \in D PROVE amt(i) \in Nat \ {0} /\ amt(i) <= out[i]
  <2> DEFINE un == set[i].unit
             n == F * un
  <2>1. un \in Nat \ {0} /\ n \in Nat
    BY <1>2, <1>13
  <2>2. amt(i) = n \div PreciseUnit
    BY DEF componentAmount
  <2>3. n \div PreciseUnit \in Nat /\ PreciseUnit * (n \div PreciseUnit) <= n
    <3> HIDE DEF n
    <3> QED BY <1>0, <2>1, DivBounds
  <2>4. amt(i) \in Nat \ {0} /\ PreciseUnit * amt(i) <= n
    BY <1>6, <2>2, <2>3
  <2>5. n <= un * sets[i]
    <3>1. un * F <= un * sets[i]
      <4> HIDE DEF un
      <4>1. un \in Nat /\ F \in Int /\ sets[i] \in Int /\ F <= sets[i]
        BY <1>12, <1>13, <2>1
      <4> QED BY <4>1, ScaleOrder
    <3>2. un * F = F * un
      BY <1>13, <2>1
    <3> QED BY <3>1, <3>2
  <2>6. un * sets[i] <= out[i] * PreciseUnit /\ un * sets[i] \in Int /\ out[i] * PreciseUnit \in Int
    BY <1>0, <1>11, <1>12, <2>1
  <2>7. out[i] * PreciseUnit = PreciseUnit * out[i] /\ PreciseUnit * amt(i) \in Int
    BY <1>0, <1>11, <2>4
  <2> HIDE DEF n, un, amt
  <2>8. PreciseUnit * amt(i) <= PreciseUnit * out[i]
    BY <2>1, <2>4, <2>5, <2>6, <2>7
  <2>9. amt(i) <= out[i]
    BY <1>0, <1>11, <2>4, <2>8, CancelFactor
  <2> QED BY <2>4, <2>9
<1> HIDE DEF amt
<1>15. ASSUME NEW i \in D PROVE price[i] \in Nat \ {0} /\ price[i] <= scaled[i]
  <2>1. price[i] = getInputAmountBestPrice(set[i].token, amt(i), u, s)
    BY DEF amt
  <2>2. getInputAmountBestPrice(set[i].token, amt(i), u, s) \in Nat \ {0}
    BY <1>6, <1>14, BestPrice
  <2>3. CASE set[i].token = Weth
    <3>1. getInputAmountBestPrice(set[i].token, amt(i), u, s) = amt(i)
      BY <1>6, <1>14, <2>3, BestPrice
    <3>2. out[i] = scaled[i]
      BY <2>3 DEF out
    <3> QED BY <1>14, <2>1, <2>2, <3>1, <3>2
  <2>4. CASE set[i].token # Weth
    <3>1. out[i] = best("ether", set[i].token, scaled[i], u, s)
      BY <2>4 DEF out
    <3>2. amt(i) <= best("ether", set[i].token, scaled[i], u, s)
      BY <1>14, <3>1
    <3>3. getInputAmountBestPrice(set[i].token, amt(i), u, s) <= scaled[i]
      BY <1>2, <1>6, <1>9, <1>14, <2>4, <3>2, BestIsBoughtBack
    <3> QED BY <2>1, <2>2, <3>3
  <2> QED BY <2>3, <2>4
<1>16. price \in [D -> Nat]
  BY <1>15
<1> HIDE DEF price
<1> DEFINE paid == SumFunction(price)
           spent == SumFunction(scaled)
<1>17. paid \in Nat \ {0}
  <2>1. SumFunction(price) \in Nat /\ price[1] <= SumFunction(price)
    <3> HIDE DEF D
    <3> QED BY <1>1, <1>16, SumOfNaturals
  <2> QED BY <1>1, <1>15, <2>1
<1>18. spent \in Nat
  <2> HIDE DEF D
  <2> QED BY <1>1, <1>10, SumOfNaturals
<1>19. paid <= spent
  <2>1. \A i \in D : 1 * price[i] <= scaled[i] * 1
    BY <1>10, <1>15, <1>16
  <2> HIDE DEF D
  <2>2. 1 * SumFunction(price) <= SumFunction(scaled) * 1
    BY <1>1, <1>10, <1>16, <2>1, SumsCompare
  <2> QED BY <1>17, <1>18, <2>2
<1>20. total * spent <= total * eth
  <2>1. \A i \in D : total * scaled[i] <= c[i] * eth
    BY <1>9
  <2>2. total * SumFunction(scaled) <= SumFunction(c) * eth
    <3> HIDE DEF D
    <3>1. eth \in Nat /\ total \in Nat
      BY <1>8
    <3> QED BY <1>1, <1>8, <1>10, <2>1, <3>1, SumsCompare
  <2> QED BY <2>2 DEF total
<1>21. spent <= eth
  <2> HIDE DEF spent
  <2> QED BY <1>8, <1>18, <1>20, CancelFactor
<1> HIDE DEF paid, spent
<1>22. paid <= eth
  BY <1>17, <1>18, <1>19, <1>21
<1> QED BY <1>4, <1>17, <1>22 DEF paid

\* An exact input pays for the Sets it is quoted for, in ETH and in a token.
LEMMA ExactInputQuotes ==
  ASSUME a \in Int, b \in Int
  PROVE  ExactInputQuoteAffordable
<1> SUFFICES ASSUME NEW set \in Sets, NEW u \in Exchanges, NEW s \in Exchanges, a > 0,
                    Quotable(set, PreciseUnit, u, s)
             PROVE  LET ethIn    == AmountOut("token", u["pay"], 4 * a)
                        fromEth  == getIssueSetForExactETH(set, 4 * a, u, s)
                        fromPay  == getIssueSetForExactToken(set, "pay", 4 * a, u, s)
                    IN  /\ Quotable(set, fromEth, u, s) => getIssueExactSetFromETH(set, fromEth, u, s) <= 4 * a
                        /\ ethIn > 0 /\ Quotable(set, fromPay, u, s) =>
                             /\ getIssueExactSetFromTokenRefund(set, "pay", 4 * a, fromPay, u, s) >= 0
                             /\ getIssueExactSetFromETH(set, fromPay, u, s) < s["pay"].weth =>
                                  getIssueExactSetFromToken(set, "pay", fromPay, u, s) <= 4 * a
  BY DEF ExactInputQuoteAffordable
<1> DEFINE x       == 4 * a
           ethIn   == AmountOut("token", u["pay"], x)
           fromEth == getIssueSetForExactETH(set, x, u, s)
           fromPay == getIssueSetForExactToken(set, "pay", x, u, s)
<1>1. x \in Nat \ {0} /\ x \in Nat
  OBVIOUS
<1> HIDE DEF x
<1>2. ASSUME Quotable(set, fromEth, u, s) PROVE getIssueExactSetFromETH(set, fromEth, u, s) <= x
  <2> HIDE DEF fromEth
  <2> QED BY <1>1, <1>2, Affordable DEF fromEth
<1>3. ASSUME ethIn > 0, Quotable(set, fromPay, u, s)
      PROVE  /\ getIssueExactSetFromTokenRefund(set, "pay", x, fromPay, u, s) >= 0
             /\ getIssueExactSetFromETH(set, fromPay, u, s) < s["pay"].weth =>
                  getIssueExactSetFromToken(set, "pay", fromPay, u, s) <= x
  <2> DEFINE cost == getIssueExactSetFromETH(set, fromPay, u, s)
             r == u["pay"].token
             t == u["pay"].weth
             at(e) == IF hasPair(e, "pay") THEN AmountIn("token", e["pay"], cost) ELSE MaxUint256
  <2>0. "pay" # Weth /\ "token" # "ether"
    BY TokensAssumption
  <2>1. "pay" \in DOMAIN u /\ "pay" \in DOMAIN s
    BY ExchangeTypes DEF Sized
  <2>2. ethIn \in Nat \ {0}
    <3>1. ethIn \in Nat
      BY <1>1, <2>1, SwapType
    <3> HIDE DEF ethIn
    <3> QED BY <1>3, <3>1
  <2>3. fromPay = getIssueSetForExactETH(set, ethIn, u, s)
    BY <2>0 DEF getIssueSetForExactToken
  <2>4. cost \in Nat \ {0} /\ cost <= ethIn
    <3> HIDE DEF ethIn, fromPay
    <3> QED BY <1>3, <2>2, <2>3, Affordable
  <2>5. getIssueExactSetFromTokenRefund(set, "pay", x, fromPay, u, s) = ethIn - cost
    BY <2>0 DEF getIssueExactSetFromTokenRefund
  <2>6. getIssueExactSetFromToken(set, "pay", fromPay, u, s) = min(at(u), at(s))
    BY <2>0, Zenon DEF getIssueExactSetFromToken, cheapest
  <2>7. ethIn = GetAmountOut(x, r, t)
    BY <2>0 DEF AmountOut
  <2>8. r \in ReserveSizes /\ t \in 1 .. 996
    BY <2>1, ExchangeTypes DEF Sized
  <2>9. at(u) = GetAmountIn(cost, r, t)
    BY <2>0, <2>1 DEF AmountIn, hasPair
  <2> HIDE DEF cost, r, t, ethIn, at
  <2>10. cost < t /\ GetAmountIn(cost, r, t) <= x
    <3>1. cost <= GetAmountOut(x, r, t)
      BY <2>4, <2>7
    <3>2. r \in ReserveSizes /\ t \in 1 .. 996 /\ x \in Nat /\ cost \in Nat \ {0}
      BY <1>1, <2>4, <2>8, Zenon
    <3> QED BY <3>1, <3>2, BuysBack, ZenonT(30)
  <2>11. GetAmountIn(cost, r, t) \in Nat
    <3>1. r \in Nat \ {0} /\ t \in Nat \ {0} /\ cost \in Nat
      BY <2>4, <2>8 DEF ReserveSizes
    <3> QED BY <2>10, <3>1, SwapIn
  <2>12. ASSUME cost < s["pay"].weth PROVE at(s) \in Int
    <3> DEFINE rs == s["pay"].token
               ts == s["pay"].weth
    <3>1. rs \in Nat \ {0} /\ ts \in Nat \ {0}
      BY <2>1, ExchangeTypes DEF Sized
    <3>2. at(s) = GetAmountIn(cost, rs, ts)
      BY <2>0, <2>1 DEF AmountIn, hasPair, at
    <3> HIDE DEF rs, ts
    <3>3. cost < ts /\ cost \in Nat
      BY <2>4, <2>12 DEF ts
    <3>4. GetAmountIn(cost, rs, ts) \in Nat
      BY <3>1, <3>3, SwapIn
    <3> QED BY <3>2, <3>4
  <2>13. ASSUME cost < s["pay"].weth PROVE min(at(u), at(s)) <= x
    BY <1>1, <2>9, <2>10, <2>11, <2>12, <2>13 DEF min
  <2>14. ethIn - cost >= 0
    BY <2>2, <2>4
  <2> QED BY <2>5, <2>6, <2>13, <2>14 DEF cost
<1> QED BY <1>2, <1>3 DEF x

\* With the same exchange on both sides there is nothing to compare.
LEMMA OneExchange ==
  ASSUME NEW e, NEW token \in DOMAIN e, NEW paid, NEW amount
  PROVE  /\ cheapest(paid, token, amount, e, e) = AmountIn(paid, e[token], amount)
         /\ best(paid, token, amount, e, e) = AmountOut(paid, e[token], amount)
<1>1. hasPair(e, token)
  BY DEF hasPair
<1> QED BY <1>1, Zenon DEF cheapest, best, min

\* Issuing and redeeming on one exchange costs something.
LEMMA RoundTripQuotes ==
  ASSUME a \in Int, b \in Int
  PROVE  NoRoundTripProfit
<1> SUFFICES ASSUME NEW set \in Sets, NEW e \in Exchanges, a > 0, Quotable(set, a, e, e)
             PROVE  LET cost == getIssueExactSetFromETH(set, a, e, e)
                        paid == getIssueExactSetFromToken(set, "pay", a, e, e)
                    IN  /\ getRedeemExactSetForETH(set, a, e, e) < cost
                        /\ cost < e["pay"].weth =>
                             getRedeemExactSetForToken(set, "pay", a, e, e) < paid
  BY DEF NoRoundTripProfit
<1> DEFINE amt(i) == componentAmount(set[i], a)
           f == [i \in DOMAIN set |-> getInputAmountBestPrice(set[i].token, amt(i), e, e)]
           g == [i \in DOMAIN set |-> IF set[i].token = Weth THEN amt(i)
                                      ELSE best("token", set[i].token, amt(i), e, e)]
           cost == getIssueExactSetFromETH(set, a, e, e)
           paid == getIssueExactSetFromToken(set, "pay", a, e, e)
           ethOut == getRedeemExactSetForETH(set, a, e, e)
           r == e["pay"].token
           t == e["pay"].weth
<1>0. "pay" # Weth /\ "token" # "ether"
  BY TokensAssumption
<1>1. cost = SumFunction(f) /\ ethOut = SumFunction(g)
  BY Zenon DEF getIssueExactSetFromETH, getRedeemExactSetForETH
<1>2. ASSUME NEW i \in DOMAIN set
      PROVE  /\ f[i] \in Nat \ {0} /\ g[i] \in Nat /\ g[i] <= f[i]
             /\ set[i].token # Weth => g[i] < f[i]
  <2>1. amt(i) > 0 /\ Buyable(set[i].token, amt(i), e, e)
    BY QuotableParts
  <2>2. amt(i) \in Nat \ {0}
    <3> DEFINE n == a * set[i].unit
    <3>1. n \in Nat
      BY SetTypes
    <3>2. amt(i) = n \div PreciseUnit
      BY DEF componentAmount
    <3>3. n \div PreciseUnit \in Nat
      <4> HIDE DEF n
      <4> QED BY <3>1, DivBounds, PreciseUnitAssumption
    <3> HIDE DEF amt, n
    <3> QED BY <2>1, <3>2, <3>3
  <2> DEFINE y == amt(i)
  <2>3. /\ f[i] = IF set[i].token = Weth THEN y ELSE cheapest("ether", set[i].token, y, e, e)
        /\ g[i] = IF set[i].token = Weth THEN y ELSE best("token", set[i].token, y, e, e)
    BY DEF getInputAmountBestPrice
  <2> HIDE DEF f, g, amt
  <2>4. CASE set[i].token = Weth
    <3> HIDE DEF y
    <3>1. y \in Nat \ {0}
      BY <2>2 DEF y
    <3> QED BY <2>3, <2>4, <3>1
  <2>5. CASE set[i].token # Weth
    <3> DEFINE token == set[i].token
               w == e[token].weth
               v == e[token].token
    <3>1. hasPair(e, token) /\ y < v
      BY <2>1, <2>5 DEF Buyable
    <3>2. token \in DOMAIN e
      BY <3>1 DEF hasPair
    <3>3. w \in Nat \ {0} /\ v \in Nat \ {0}
      BY <3>2, ExchangeTypes DEF Sized
    <3>4. f[i] = GetAmountIn(y, w, v) /\ g[i] = GetAmountOut(y, v, w)
      BY <1>0, <2>3, <2>5, <3>2, OneExchange DEF AmountIn, AmountOut
    <3>5. GetAmountOut(y, v, w) \in Nat /\ GetAmountIn(y, w, v) \in Nat \ {0}
            /\ GetAmountOut(y, v, w) < GetAmountIn(y, w, v)
      <4> HIDE DEF w, v, y
      <4>1. y \in Nat \ {0}
        BY <2>2 DEF y
      <4>2. GetAmountOut(y, v, w) \in Nat /\ GetAmountIn(y, w, v) \in Nat
              /\ GetAmountOut(y, v, w) < GetAmountIn(y, w, v)
        BY <3>1, <3>3, <4>1, SellsForLess
      <4> QED BY <4>2
    <3> HIDE DEF y, w, v, token
    <3> QED BY <3>4, <3>5
  <2> QED BY <2>4, <2>5
<1> HIDE DEF f, g
<1>3. cost \in Nat \ {0} /\ ethOut \in Nat /\ ethOut < cost
  <2>1. CASE DOMAIN set = 1 .. 1
    <3>1. f \in [1 .. 1 -> Int] /\ g \in [1 .. 1 -> Int]
      BY <1>2, <2>1 DEF f, g
    <3>2. SumFunction(f) = f[1] /\ SumFunction(g) = g[1]
      BY <3>1, ShortSums
    <3>3. 1 \in DOMAIN set /\ set[1].token # Weth
      BY <2>1, SetTypes
    <3>4. f[1] \in Nat \ {0} /\ g[1] \in Nat /\ g[1] < f[1]
      BY <1>2, <3>3
    <3> QED BY <1>1, <3>2, <3>4
  <2>2. CASE DOMAIN set = 1 .. 2
    <3>1. f \in [1 .. 2 -> Int] /\ g \in [1 .. 2 -> Int]
      BY <1>2, <2>2 DEF f, g
    <3>2. SumFunction(f) = f[1] + f[2] /\ SumFunction(g) = g[1] + g[2]
      BY <3>1, ShortSums
    <3>3. set[1].token # Weth \/ set[2].token # Weth
      BY <2>2, SetTypes
    <3>4. 1 \in DOMAIN set /\ 2 \in DOMAIN set
      BY <2>2
    <3>5. /\ f[1] \in Nat \ {0} /\ g[1] \in Nat /\ g[1] <= f[1]
          /\ f[2] \in Nat \ {0} /\ g[2] \in Nat /\ g[2] <= f[2]
          /\ g[1] < f[1] \/ g[2] < f[2]
      BY <1>2, <3>3, <3>4
    <3>6. f[1] + f[2] \in Nat \ {0} /\ g[1] + g[2] \in Nat /\ g[1] + g[2] < f[1] + f[2]
      BY <3>5
    <3> QED BY <1>1, <3>2, <3>6
  <2> QED BY <2>1, <2>2, SetTypes
<1>4. "pay" \in DOMAIN e /\ r \in Nat \ {0} /\ t \in Nat \ {0}
  BY ExchangeTypes DEF Sized
<1>5. paid = GetAmountIn(cost, r, t) /\ getRedeemExactSetForToken(set, "pay", a, e, e) = GetAmountOut(ethOut, t, r)
  <2>1. /\ paid = cheapest("token", "pay", cost, e, e)
        /\ getRedeemExactSetForToken(set, "pay", a, e, e) = AmountOut("ether", e["pay"], ethOut)
    BY <1>0 DEF getIssueExactSetFromToken, getRedeemExactSetForToken
  <2> HIDE DEF cost, ethOut, paid
  <2>2. cheapest("token", "pay", cost, e, e) = AmountIn("token", e["pay"], cost)
    BY <1>4, OneExchange
  <2> QED BY <1>0, <2>1, <2>2 DEF AmountIn, AmountOut
<1> HIDE DEF cost, paid, ethOut, r, t
<1>6. ASSUME cost < t PROVE GetAmountOut(ethOut, t, r) < GetAmountIn(cost, r, t)
  <2>1. GetAmountOut(ethOut, t, r) <= GetAmountOut(cost, t, r) /\ GetAmountOut(ethOut, t, r) \in Nat
    <3>1. ethOut <= cost /\ ethOut \in Nat /\ cost \in Nat
      BY <1>3
    <3>2. GetAmountOut(ethOut, t, r) \in Nat
      BY <1>4, <3>1, SwapOutType
    <3> QED BY <1>4, <3>1, <3>2, OutMonotone
  <2>2. /\ GetAmountOut(cost, t, r) \in Nat /\ GetAmountIn(cost, r, t) \in Nat
        /\ GetAmountOut(cost, t, r) < GetAmountIn(cost, r, t)
    BY <1>3, <1>4, <1>6, SellsForLess
  <2> QED BY <2>1, <2>2
<1> QED BY <1>3, <1>5, <1>6 DEF cost, paid, ethOut, t

-----------------------------------------------------------------------------
(* The margin, the leverage and the round trip of perpetual futures        *)

\* A truncated quotient of a multiple.
LEMMA TruncExact ==
  ASSUME NEW z \in Int, NEW d \in Nat \ {0}
  PROVE  TruncDiv(d * z, d) = z
<1>1. ASSUME NEW w \in Nat PROVE TruncDiv(d * w, d) = w
  <2>1. d * w \in Nat /\ d * w \in Int /\ d * w <= d * w /\ d * w < d * w + d
    BY <1>1
  <2>2. TruncDiv(d * w, d) = (d * w) \div d
    BY <2>1, TruncOfNaturals
  <2>3. (d * w) \div d = w
    BY <1>1, <2>1, DivUnique
  <2> QED BY <2>2, <2>3
<1>2. CASE z >= 0
  BY <1>1, <1>2
<1>3. CASE z < 0
  <2> DEFINE w == -z
             n == d * w
  <2>1. w \in Nat /\ n \in Int /\ d \in Int \ {0} /\ d * z = -n /\ -w = z
    BY <1>3
  <2>2. TruncDiv(n, d) = w
    <3> HIDE DEF w
    <3> QED BY <1>1, <2>1
  <2> HIDE DEF n, w
  <2>3. TruncDiv(-n, d) = -TruncDiv(n, d)
    BY <2>1, TruncationIsOdd
  <2> QED BY <2>1, <2>2, <2>3
<1> QED BY <1>2, <1>3

\* A common factor of a truncated quotient cancels.
LEMMA TruncCancel ==
  ASSUME NEW z \in Int, NEW k \in Nat \ {0}, NEW p \in Nat \ {0}
  PROVE  TruncDiv(z * p, k * p) = TruncDiv(z, k)
<1>0. k * p \in Nat \ {0} /\ k * p \in Int \ {0} /\ k \in Int \ {0}
  OBVIOUS
<1>1. ASSUME NEW w \in Nat PROVE TruncDiv(w * p, k * p) = TruncDiv(w, k)
  <2> DEFINE q == w \div k
  <2>1. q \in Nat /\ k * q <= w /\ w < k * q + k
    BY <1>1, DivBounds
  <2> HIDE DEF q
  <2>2. w * p \in Nat /\ (k * p) * q = p * (k * q) /\ (k * p) * q + k * p = p * (k * q + k) /\ w * p = p * w
    BY <1>1, <2>1
  <2>3. p * (k * q) <= p * w /\ p * w < p * (k * q + k)
    <3> DEFINE m == k * q
    <3>1. m \in Nat /\ m <= w /\ w + 1 <= m + k
      BY <1>1, <2>1
    <3> HIDE DEF m
    <3>2. p * m <= p * w
      BY <1>1, <3>1
    <3>3. p * (w + 1) <= p * (m + k) /\ p * (w + 1) = p * w + p
      BY <1>1, <3>1
    <3>4. p * w \in Int /\ p * (m + k) \in Int
      BY <1>1, <3>1
    <3> QED BY <3>2, <3>3, <3>4 DEF m
  <2>4. (w * p) \div (k * p) = q
    <3> DEFINE n == w * p
               d == k * p
    <3>1. n \in Int /\ d \in Nat \ {0} /\ d * q <= n /\ n < d * q + d
      BY <1>0, <2>2, <2>3
    <3> HIDE DEF n, d
    <3>2. n \div d = q
      BY <2>1, <3>1, DivUnique
    <3> QED BY <3>2 DEF n, d
  <2>5. TruncDiv(w * p, k * p) = (w * p) \div (k * p)
    BY <1>0, <2>2, TruncOfNaturals
  <2>6. TruncDiv(w, k) = q
    BY <1>1, TruncOfNaturals DEF q
  <2> QED BY <2>4, <2>5, <2>6
<1>2. CASE z >= 0
  BY <1>1, <1>2
<1>3. CASE z < 0
  <2> DEFINE w == -z
             n == w * p
  <2>1. w \in Nat /\ n \in Int /\ z * p = -n /\ -w = z /\ w \in Int
    BY <1>3
  <2>2. TruncDiv(n, k * p) = TruncDiv(w, k)
    <3> HIDE DEF w
    <3> QED BY <1>1, <2>1
  <2> HIDE DEF n, w
  <2>3. TruncDiv(-n, k * p) = -TruncDiv(n, k * p) /\ TruncDiv(-w, k) = -TruncDiv(w, k)
    BY <1>0, <2>1, TruncationIsOdd
  <2> QED BY <2>1, <2>2, <2>3
<1> QED BY <1>2, <1>3

\* Per Set and per whole number of Sets.
LEMMA WholeSets ==
  ASSUME NEW x \in Int, NEW k \in Nat \ {0}
  PROVE  /\ preciseMul(x, PreciseUnit) = x
         /\ preciseMul(x, k * PreciseUnit) = k * x
         /\ preciseDiv(x, k * PreciseUnit) = TruncDiv(x, k)
<1>0. PreciseUnit \in Nat \ {0}
  BY PreciseUnitAssumption
<1>1. x * PreciseUnit = PreciseUnit * x /\ x * (k * PreciseUnit) = PreciseUnit * (k * x) /\ k * x \in Int
  BY <1>0
<1>2. TruncDiv(PreciseUnit * x, PreciseUnit) = x
  BY <1>0, TruncExact
<1>3. TruncDiv(PreciseUnit * (k * x), PreciseUnit) = k * x
  <2> DEFINE z == k * x
  <2>1. z \in Int
    OBVIOUS
  <2> HIDE DEF z
  <2>2. TruncDiv(PreciseUnit * z, PreciseUnit) = z
    BY <1>0, <2>1, TruncExact
  <2> QED BY <2>2 DEF z
<1>4. TruncDiv(x * PreciseUnit, k * PreciseUnit) = TruncDiv(x, k)
  BY <1>0, TruncCancel
<1> QED BY <1>1, <1>2, <1>3, <1>4 DEF preciseMul, preciseDiv

\* The Sets that a net debt allows: the debt they add is within it.
LEMMA IssuedDebt ==
  ASSUME NEW net \in Int, NEW available \in Nat, net <= available
  PROVE  LET T == preciseDiv(net, 12)
         IN  /\ T \in Int
             /\ T >= 0 => /\ PreciseMul(6, 2 * T) \in Nat /\ PreciseMul(6, 2 * T) <= available
             /\ T <= preciseDiv(available, 12)
<1> DEFINE T == preciseDiv(net, 12)
           M == preciseDiv(available, 12)
<1>0. PreciseUnit \in Nat \ {0} /\ 12 \in Nat \ {0} /\ 12 \in Int \ {0}
  BY PreciseUnitAssumption
<1>1. T \in Int /\ M \in Nat /\ 12 * M <= available * PreciseUnit /\ available * PreciseUnit < 12 * M + 12
  <2>1. T \in Int
    BY <1>0, RoundedIsOdd
  <2>2. M = PreciseDiv(available, 12)
    BY <1>0, PreciseDivMirrors
  <2> QED BY <1>0, <2>1, <2>2, PreciseDivBounds
<1>2. CASE net >= 0
  <2>1. T \in Nat /\ 12 * T <= net * PreciseUnit
    <3>1. net \in Nat
      BY <1>2
    <3>2. T = PreciseDiv(net, 12)
      BY <1>0, <3>1, PreciseDivMirrors
    <3> QED BY <1>0, <3>1, <3>2, PreciseDivBounds
  <2> HIDE DEF T, M
  <2>2. net * PreciseUnit <= available * PreciseUnit /\ net * PreciseUnit \in Int /\ available * PreciseUnit \in Int
    BY <1>0, <1>2
  <2> DEFINE l == net * PreciseUnit
             h == available * PreciseUnit
  <2>3. T <= M
    <3>1. l \in Int /\ h \in Int /\ l <= h /\ 12 * T <= l /\ h < 12 * M + 12
      BY <1>1, <2>1, <2>2
    <3> HIDE DEF l, h
    <3> QED BY <1>1, <2>1, <3>1
  <2> DEFINE z == PreciseMul(6, 2 * T)
  <2>4. z \in Nat /\ PreciseUnit * z <= 6 * (2 * T)
    <3>1. 2 * T \in Nat /\ 6 \in Nat
      BY <2>1
    <3> QED BY <3>1, PreciseMulBounds
  <2> HIDE DEF z
  <2>5. PreciseUnit * z <= PreciseUnit * available
    <3>1. 6 * (2 * T) = 12 * T /\ PreciseUnit * available = h /\ h \in Int /\ l \in Int /\ PreciseUnit * z \in Int
      BY <1>0, <2>1, <2>2, <2>4
    <3>2. 12 * T <= l /\ l <= h
      BY <2>1, <2>2
    <3> HIDE DEF l, h
    <3> QED BY <2>1, <2>4, <3>1, <3>2
  <2>6. z <= available
    BY <1>0, <2>4, <2>5, CancelFactor
  <2> QED BY <2>1, <2>3, <2>4, <2>6 DEF T, M, z
<1>3. CASE net < 0
  <2> DEFINE w == -net
             v == preciseDiv(w, 12)
  <2>1. w \in Nat /\ -w = net
    BY <1>3
  <2>2. v \in Nat /\ T = -v
    <3> HIDE DEF w
    <3>1. v = PreciseDiv(w, 12)
      BY <1>0, <2>1, PreciseDivMirrors
    <3>2. v \in Nat
      BY <1>0, <2>1, <3>1, PreciseDivBounds
    <3>3. preciseDiv(-w, 12) = -v
      BY <1>0, <2>1, RoundedIsOdd
    <3> QED BY <2>1, <3>2, <3>3
  <2> HIDE DEF T, M, v
  <2>3. T <= M /\ (T >= 0 => T = 0)
    BY <1>1, <2>2
  <2>4. ASSUME T >= 0 PROVE PreciseMul(6, 2 * T) \in Nat /\ PreciseMul(6, 2 * T) <= available
    <3>1. 2 * T = 0
      BY <2>3, <2>4
    <3>2. PreciseMul(6, 0) \in Nat /\ PreciseUnit * PreciseMul(6, 0) <= 6 * 0
      <4>1. 6 \in Nat /\ 0 \in Nat
        OBVIOUS
      <4> QED BY <4>1, PreciseMulBounds
    <3>3. PreciseMul(6, 0) <= 0
      <4> DEFINE z == PreciseMul(6, 0)
      <4>1. z \in Nat /\ PreciseUnit * z <= PreciseUnit * 0
        BY <1>0, <3>2
      <4> HIDE DEF z
      <4> QED BY <1>0, <4>1, CancelFactor DEF z
    <3> QED BY <3>1, <3>2, <3>3
  <2> QED BY <1>1, <2>3, <2>4 DEF T, M
<1> QED BY <1>2, <1>3

\* The Sets that may be issued at most stay within the margin.
LEMMA MarginQuotes ==
  ASSUME a \in Int, b \in Int
  PROVE  MaxIssueWithinMargin
<1> SUFFICES ASSUME NEW slippage \in 0 .. 2, NEW imRatio \in {1, 3, 10}, NEW pnl \in {-7, 0, 5},
                    NEW debt \in {0, 25}
             PROVE  LET supply     == 2 * PreciseUnit
                        account    == Account(a, 0)
                        collateral == settledCollateral(account, TRUE) + (IF pnl < 0 THEN pnl ELSE 0)
                        quantity   == calculateMaxIssueQuantity(account, supply, slippage, imRatio, pnl, debt, 12)
                        addedDebt  == preciseMul(preciseDiv(12, supply), quantity)
                    IN  b = 0 /\ debt * imRatio <= collateral * RatioScale /\ quantity >= 0 =>
                          /\ (debt + addedDebt) * imRatio <= collateral * RatioScale
                          /\ quantity <= calculateMaxIssueQuantity(account, supply, 0, imRatio, pnl, debt, 12)
  BY DEF MaxIssueWithinMargin
<1> DEFINE supply == 2 * PreciseUnit
           account == Account(a, 0)
           collateral == settledCollateral(account, TRUE) + (IF pnl < 0 THEN pnl ELSE 0)
           N == collateral * RatioScale
           quotient == TruncDiv(N, imRatio)
           available == quotient - debt
           slipped(sl) == TruncDiv(preciseMul(available, sl) * RatioScale, imRatio)
           net(sl) == available - slipped(sl)
           quantity(sl) == calculateMaxIssueQuantity(account, supply, sl, imRatio, pnl, debt, 12)
           addedDebt == preciseMul(preciseDiv(12, supply), quantity(slippage))
<1> SUFFICES ASSUME debt * imRatio <= N, quantity(slippage) >= 0
             PROVE  (debt + addedDebt) * imRatio <= N /\ quantity(slippage) <= quantity(0)
  OBVIOUS
<1>0. /\ PreciseUnit \in Nat \ {0} /\ RatioScale \in Nat \ {0} /\ imRatio \in Nat \ {0} /\ debt \in Nat
      /\ slippage \in Nat /\ 0 \in Nat /\ 12 \in Int /\ 2 \in Nat \ {0}
  BY PreciseUnitAssumption, PerpAssumption
<1>1. collateral \in Int
  BY DEF Account, settledCollateral
<1>2. ASSUME NEW sl PROVE quantity(sl) = preciseMul(preciseDiv(net(sl), 12), supply)
  <2>1. (IF pnl >= 0 THEN 0 ELSE pnl) = (IF pnl < 0 THEN pnl ELSE 0)
    OBVIOUS
  <2> QED BY <2>1, Zenon DEF calculateMaxIssueQuantity
<1> HIDE DEF collateral, quantity, account
<1>3. N \in Nat /\ imRatio * debt <= N
  <2>1. N \in Int
    BY <1>0, <1>1
  <2>2. debt * imRatio >= 0 /\ debt * imRatio \in Int /\ debt * imRatio = imRatio * debt
    BY <1>0
  <2> HIDE DEF N
  <2> QED BY <2>1, <2>2
<1> HIDE DEF N
<1>4. quotient \in Nat /\ imRatio * quotient <= N /\ debt <= quotient
  <2>1. quotient = N \div imRatio
    BY <1>0, <1>3, TruncOfNaturals
  <2>2. N \div imRatio \in Nat /\ imRatio * (N \div imRatio) <= N
    BY <1>0, <1>3, DivBounds
  <2>3. debt <= N \div imRatio
    <3>1. debt \in Int
      BY <1>0
    <3> QED BY <1>0, <1>3, <3>1, QuotientIsLargest
  <2> QED BY <2>1, <2>2, <2>3
<1> HIDE DEF quotient
<1>5. available \in Nat
  BY <1>0, <1>4
<1> HIDE DEF available
<1>6. ASSUME NEW sl \in Nat PROVE slipped(sl) \in Nat
  <2> DEFINE m == preciseMul(available, sl)
             n == m * RatioScale
  <2>1. m = PreciseMul(available, sl) /\ PreciseMul(available, sl) \in Nat
    BY <1>5, <1>6, UnsignedMirrors, PreciseMulBounds
  <2>2. n \in Nat
    <3> HIDE DEF m
    <3> QED BY <1>0, <2>1
  <2> HIDE DEF n
  <2>3. TruncDiv(n, imRatio) = n \div imRatio /\ n \div imRatio \in Nat
    BY <1>0, <2>2, TruncOfNaturals, DivBounds
  <2> QED BY <2>3 DEF n
<1>7. slipped(0) = 0
  <2> DEFINE m == preciseMul(available, 0)
  <2>1. m = PreciseMul(available, 0) /\ m \in Nat /\ PreciseUnit * m <= available * 0
    <3>1. available \in Nat /\ 0 \in Nat
      BY <1>5
    <3> HIDE DEF available
    <3>2. preciseMul(available, 0) = PreciseMul(available, 0)
      BY <3>1, UnsignedMirrors, Zenon
    <3>3. PreciseMul(available, 0) \in Nat /\ PreciseUnit * PreciseMul(available, 0) <= available * 0
      BY <3>1, PreciseMulBounds, Zenon
    <3> QED BY <3>2, <3>3, Zenon
  <2> HIDE DEF m
  <2>2. m <= 0
    <3>1. PreciseUnit * m <= PreciseUnit * 0
      BY <1>0, <1>5, <2>1
    <3> QED BY <1>0, <2>1, <3>1, CancelFactor
  <2>3. m * RatioScale = imRatio * 0
    BY <1>0, <2>1, <2>2
  <2>4. TruncDiv(imRatio * 0, imRatio) = 0
    BY <1>0, TruncExact
  <2> QED BY <2>3, <2>4 DEF m
<1> HIDE DEF slipped
<1>8. net(0) = available
  BY <1>5, <1>7
<1>9. net(slippage) \in Int /\ net(slippage) <= available
  BY <1>0, <1>5, <1>6
<1> HIDE DEF net
<1> DEFINE T == preciseDiv(net(slippage), 12)
           M == preciseDiv(available, 12)
<1>10. /\ T \in Int /\ T <= M
       /\ T >= 0 => PreciseMul(6, 2 * T) \in Nat /\ PreciseMul(6, 2 * T) <= available
  BY <1>5, <1>9, IssuedDebt
<1>11. M \in Int
  <2>1. 12 # 0 /\ 12 \in Int /\ available \in Int
    BY <1>5
  <2> QED BY <2>1, RoundedIsOdd
<1> HIDE DEF T, M
<1>12. quantity(slippage) = 2 * T /\ quantity(0) = 2 * M
  <2>1. preciseMul(T, 2 * PreciseUnit) = 2 * T /\ preciseMul(M, 2 * PreciseUnit) = 2 * M
    BY <1>0, <1>10, <1>11, WholeSets
  <2> QED BY <1>2, <1>8, <2>1 DEF T, M
<1>13. T >= 0 /\ 2 * T \in Nat
  BY <1>10, <1>12
<1>14. addedDebt \in Nat /\ addedDebt <= available
  <2>1. preciseDiv(12, supply) = 6
    <3>1. preciseDiv(12, 2 * PreciseUnit) = TruncDiv(12, 2)
      BY <1>0, WholeSets
    <3>2. TruncDiv(2 * 6, 2) = 6
      <4>1. 6 \in Int
        OBVIOUS
      <4> QED BY <1>0, <4>1, TruncExact
    <3>3. 2 * 6 = 12
      OBVIOUS
    <3> QED BY <3>1, <3>2, <3>3
  <2>2. addedDebt = preciseMul(6, 2 * T)
    BY <1>12, <2>1
  <2>3. preciseMul(6, 2 * T) = PreciseMul(6, 2 * T)
    <3>1. 6 \in Nat
      OBVIOUS
    <3> QED BY <1>13, <3>1, UnsignedMirrors
  <2> QED BY <1>10, <1>13, <2>2, <2>3
<1> HIDE DEF addedDebt
<1>15. (debt + addedDebt) * imRatio <= N
  <2> DEFINE l == debt + addedDebt
  <2>1. l \in Int /\ l <= quotient
    BY <1>0, <1>4, <1>14 DEF available
  <2> HIDE DEF l
  <2>2. imRatio * l <= imRatio * quotient /\ imRatio * l \in Int /\ imRatio * quotient \in Int
    <3>1. imRatio \in Nat
      BY <1>0
    <3> QED BY <1>4, <2>1, <3>1, ScaleOrder
  <2>3. imRatio * l <= N
    BY <1>3, <1>4, <2>2
  <2>4. imRatio * l = l * imRatio
    BY <1>0, <2>1
  <2> QED BY <2>3, <2>4 DEF l
<1>16. quantity(slippage) <= quantity(0)
  BY <1>10, <1>11, <1>12
<1> QED BY <1>15, <1>16

\* A quotient rounded up covers its dividend.
LEMMA QuotientCovers ==
  ASSUME NEW x \in Nat \ {0}, NEW y \in Nat \ {0}
  PROVE  Quotient(x, y) \in Nat \ {0} /\ x <= y * Quotient(x, y)
<1> DEFINE n == x + y - 1
           q == n \div y
<1>1. n \in Nat
  OBVIOUS
<1>2. q \in Nat /\ n < y * q + y
  <2> HIDE DEF n
  <2> QED BY <1>1, DivBounds
<1>3. Quotient(x, y) = q /\ Quotient(x, y) \in Nat \ {0}
  BY QuotientPositive DEF Quotient
<1> HIDE DEF q
<1>4. x <= y * q
  <2>1. y * q \in Int
    BY <1>2
  <2> DEFINE m == y * q
  <2> HIDE DEF m
  <2>2. m \in Int /\ x + y - 1 < m + y
    BY <1>2, <2>1 DEF m
  <2>3. x <= m
    BY <2>2
  <2> QED BY <2>3 DEF m
<1> QED BY <1>3, <1>4

\* The trade that levers an account up to an exposure of G: the base that is
\* traded, what it is worth at the spot price, and what the roundings lose.
LEMMA LeveredTrade ==
  ASSUME NEW G \in Nat, NEW p \in Nat \ {0}, NEW s \in Nat \ {0}
  PROVE  LET n  == PreciseDiv(G, p)
             B  == PreciseMul(PreciseDiv(n, s), s)
             Q  == PreciseMul(B, p)
             qn == PreciseMul(n, p)
         IN  /\ n \in Nat /\ PreciseDiv(n, s) \in Nat /\ B \in Nat /\ Q \in Nat /\ qn \in Nat
             /\ Q <= qn /\ qn <= G
             /\ G <= Q + (1 + Quotient(p, PreciseUnit) * (1 + Quotient(s, PreciseUnit)))
<1> DEFINE n  == PreciseDiv(G, p)
           B  == PreciseMul(PreciseDiv(n, s), s)
           Q  == PreciseMul(B, p)
           qn == PreciseMul(n, p)
           qp == Quotient(p, PreciseUnit)
           qs == Quotient(s, PreciseUnit)
           P  == PreciseUnit
<1>0. P \in Nat \ {0}
  BY PreciseUnitAssumption
<1>1. qp \in Nat \ {0} /\ qs \in Nat \ {0} /\ p <= P * qp
  BY <1>0, QuotientCovers
<1>2. n \in Nat /\ p * n <= G * P /\ G * P < p * n + p
  BY PreciseDivBounds
<1> HIDE DEF n
<1>3. PreciseDiv(n, s) \in Nat /\ B \in Nat /\ B <= n /\ n - B <= qs
  BY <1>0, <1>2, TwoFloors DEF PreciseDiv, PreciseMul
<1> HIDE DEF B
<1>4. Q \in Nat /\ P * Q <= B * p /\ B * p < P * Q + P
  BY <1>3, PreciseMulBounds
<1>5. qn \in Nat /\ P * qn <= n * p /\ n * p < P * qn + P
  BY <1>2, PreciseMulBounds
<1> HIDE DEF Q, qn, qp, qs, P
<1>6. /\ p * n \in Nat /\ p * B \in Nat /\ p * qs \in Nat /\ n * p = p * n /\ B * p = p * B
      /\ P * Q \in Nat /\ P * qn \in Nat /\ G * P \in Nat /\ P * G = G * P /\ P * G \in Nat
  BY <1>0, <1>1, <1>2, <1>3, <1>4, <1>5
<1>7. p * B <= p * n /\ p * n <= p * B + p * qs
  <2>1. p \in Nat /\ n <= B + qs /\ B + qs \in Int
    BY <1>1, <1>2, <1>3
  <2>2. p * B <= p * n
    BY <1>2, <1>3, <2>1, ScaleOrder
  <2>3. p * n <= p * (B + qs)
    BY <1>2, <2>1, ScaleOrder
  <2>4. p * (B + qs) = p * B + p * qs
    BY <1>1, <1>3
  <2> QED BY <2>2, <2>3, <2>4
<1>8. Q <= qn
  <2>1. P * Q < P * (qn + 1) /\ P * (qn + 1) = P * qn + P
    <3>1. P * (qn + 1) = P * qn + P
      BY <1>0, <1>5
    <3> DEFINE pB == p * B
               pn == p * n
               PQ == P * Q
               Pq == P * qn
               Pq1 == P * (qn + 1)
    <3>2. /\ pB \in Nat /\ pn \in Nat /\ PQ \in Nat /\ Pq \in Nat /\ PQ <= pB /\ pB <= pn /\ pn < Pq + P
          /\ Pq1 = Pq + P
      BY <1>4, <1>5, <1>6, <1>7, <3>1
    <3> HIDE DEF pB, pn, PQ, Pq, Pq1
    <3>3. PQ < Pq1
      BY <1>0, <3>2
    <3> QED BY <3>1, <3>3 DEF PQ, Pq1
  <2> SUFFICES ASSUME qn + 1 <= Q PROVE FALSE
    BY <1>4, <1>5
  <2>2. P * (qn + 1) <= P * Q
    <3>1. P \in Nat /\ qn + 1 \in Int /\ Q \in Int
      BY <1>0, <1>4, <1>5
    <3> QED BY <3>1, ScaleOrder
  <2>3. P * (qn + 1) \in Int
    BY <1>0, <1>5
  <2> QED BY <1>6, <2>1, <2>2, <2>3
<1>9. qn <= G
  <2>1. P * qn <= P * G
    BY <1>2, <1>5, <1>6
  <2> QED BY <1>0, <1>5, <2>1, CancelFactor
<1>10. G <= Q + (1 + qp * (1 + qs))
  <2> DEFINE e == qp * (1 + qs)
             h == Q + (1 + e)
  <2>1. e \in Nat /\ h \in Nat
    BY <1>1, <1>4
  <2>2. p * (1 + qs) = p + p * qs /\ P * e = (P * qp) * (1 + qs) /\ p * (1 + qs) <= (P * qp) * (1 + qs)
    <3> DEFINE k == 1 + qs
               m == P * qp
    <3>1. k \in Nat /\ m \in Nat /\ p <= m
      BY <1>0, <1>1
    <3>2. p * (1 + qs) = p + p * qs /\ P * e = (P * qp) * (1 + qs)
      BY <1>0, <1>1
    <3> HIDE DEF k, m
    <3>3. k * p <= k * m
      BY <3>1, ScaleOrder
    <3>4. k * p = p * k /\ k * m = m * k
      BY <3>1
    <3>5. p * k <= m * k
      BY <3>3, <3>4
    <3> QED BY <3>2, <3>5 DEF k, m
  <2>3. P * h = P * Q + P + P * e /\ P * e \in Int /\ P * h \in Int
    BY <1>0, <1>4, <2>1
  <2> DEFINE pn == p * n
             pB == p * B
             pq == p * qs
             PQ == P * Q
             Pe == P * e
             Ph == P * h
             PG == P * G
  <2>4. /\ pn \in Nat /\ pB \in Nat /\ pq \in Nat /\ PQ \in Nat /\ Pe \in Int /\ PG \in Nat
        /\ PG < pn + p /\ pn <= pB + pq /\ pB < PQ + P /\ p + pq <= Pe /\ Ph = PQ + P + Pe
    BY <1>2, <1>4, <1>6, <1>7, <2>2, <2>3
  <2> HIDE DEF pn, pB, pq, PQ, Pe, Ph, PG, e
  <2>5. PG <= Ph
    BY <1>0, <2>4
  <2>6. P * G <= P * h
    BY <2>5 DEF PG, Ph
  <2> HIDE DEF h
  <2>7. G <= h
    BY <1>0, <2>1, <2>6, CancelFactor
  <2> QED BY <2>7 DEF h, e
<1> QED BY <1>2, <1>3, <1>4, <1>5, <1>8, <1>9, <1>10 DEF n, B, Q, qn, qp, qs, P

\* What a limit of x is when it is submitted per Set.
LEMMA SubmittedLimit ==
  ASSUME NEW x \in Int, NEW s \in Nat \ {0}
  PROVE  LET limit == preciseMul(preciseDiv(x, s), s)
         IN  /\ limit \in Int
             /\ x >= 0 => limit <= x /\ x - Quotient(s, PreciseUnit) <= limit
             /\ x < 0 => limit <= 0
<1> DEFINE L(z) == preciseMul(preciseDiv(z, s), s)
<1>0. PreciseUnit \in Nat \ {0}
  BY PreciseUnitAssumption
<1>1. ASSUME NEW z \in Nat
      PROVE  L(z) \in Nat /\ L(z) <= z /\ z - Quotient(s, PreciseUnit) <= L(z) /\ preciseDiv(z, s) \in Nat
  <2> DEFINE t == PreciseDiv(z, s)
             r == PreciseMul(t, s)
  <2>1. t \in Nat /\ r \in Nat /\ r <= z /\ z - r <= Quotient(s, PreciseUnit)
    BY <1>0, <1>1, TwoFloors DEF PreciseDiv, PreciseMul
  <2>2. preciseDiv(z, s) = t
    BY <1>1, PreciseDivMirrors
  <2> HIDE DEF t
  <2>3. preciseMul(t, s) = r
    BY <2>1, UnsignedMirrors
  <2> HIDE DEF r
  <2>4. Quotient(s, PreciseUnit) \in Nat
    BY <1>0, QuotientPositive
  <2>5. r <= z /\ z - Quotient(s, PreciseUnit) <= r
    BY <1>1, <2>1, <2>4
  <2> QED BY <2>1, <2>2, <2>3, <2>5
<1>2. CASE x >= 0
  <2>1. x \in Nat
    BY <1>2
  <2>2. L(x) \in Nat /\ L(x) <= x /\ x - Quotient(s, PreciseUnit) <= L(x)
    BY <1>1, <2>1
  <2> HIDE DEF L
  <2>3. L(x) \in Int /\ ~(x < 0)
    BY <1>2, <2>2
  <2> QED BY <1>2, <2>2, <2>3 DEF L
<1>3. CASE x < 0
  <2> DEFINE z == -x
             t == preciseDiv(z, s)
  <2>1. z \in Nat /\ -z = x
    BY <1>3
  <2>2. L(z) \in Nat /\ t \in Nat
    <3> HIDE DEF z
    <3> QED BY <1>1, <2>1
  <2>3. preciseDiv(x, s) = -t
    <3> HIDE DEF z
    <3>1. s \in Int /\ s # 0 /\ z \in Int
      BY <2>1
    <3>2. preciseDiv(-z, s) = -preciseDiv(z, s)
      BY <3>1, RoundedIsOdd
    <3> QED BY <2>1, <3>2
  <2> HIDE DEF t
  <2>4. preciseMul(-t, s) = -preciseMul(t, s)
    BY <2>2, RoundedIsOdd
  <2>5. L(x) = -L(z)
    BY <2>3, <2>4 DEF t
  <2> HIDE DEF L
  <2>6. L(x) \in Int /\ L(x) <= 0 /\ ~(x >= 0)
    BY <1>3, <2>2, <2>5
  <2> QED BY <2>6 DEF L
<1> QED BY <1>2, <1>3

\* A rounded share of an exposure that falls short by what the roundings lose.
LEMMA ReportedLeverage ==
  ASSUME NEW C \in Nat \ {0}, NEW R \in Nat, NEW Q \in Nat, NEW lost \in Nat,
         Q <= C * R, C * R <= Q + lost
  PROVE  LET rep == PreciseDiv(Q, C)
         IN  /\ rep \in Nat /\ rep <= R * PreciseUnit
             /\ (R * PreciseUnit - rep) * C <= PreciseUnit * lost + C
<1> DEFINE rep == PreciseDiv(Q, C)
           P == PreciseUnit
           t == R * P
<1>0. P \in Nat \ {0} /\ t \in Nat
  BY PreciseUnitAssumption
<1>1. rep \in Nat /\ C * rep <= Q * P /\ Q * P < C * rep + C
  BY PreciseDivBounds
<1> HIDE DEF rep, P
<1>2. C * R \in Nat /\ P * (C * R) = C * t /\ P * (Q + lost) = Q * P + P * lost /\ P * Q = Q * P
  BY <1>0
<1>3. P * Q <= P * (C * R) /\ P * (C * R) <= P * (Q + lost)
  <2> DEFINE G == C * R
  <2>1. G \in Int /\ Q \in Int /\ Q + lost \in Int /\ Q <= G /\ G <= Q + lost /\ P \in Nat
    BY <1>0, <1>2
  <2> HIDE DEF G
  <2>2. P * Q <= P * G
    BY <2>1, ScaleOrder
  <2>3. P * G <= P * (Q + lost)
    BY <2>1, ScaleOrder
  <2> QED BY <2>2, <2>3 DEF G
<1> HIDE DEF t
<1>4. C * rep \in Int /\ C * t \in Int /\ Q * P \in Int /\ P * lost \in Int /\ (t - rep) * C = C * t - C * rep
  BY <1>0, <1>1
<1> DEFINE Cr == C * rep
           Ct == C * t
           QP == Q * P
           Pl == P * lost
           gap == (t - rep) * C
<1>5. /\ Cr \in Int /\ Ct \in Int /\ QP \in Int /\ Pl \in Int /\ gap = Ct - Cr
      /\ Cr <= QP /\ QP < Cr + C /\ QP <= Ct /\ Ct <= QP + Pl
  BY <1>1, <1>2, <1>3, <1>4
<1>6. Cr <= Ct /\ gap <= Pl + C
  <2> HIDE DEF Cr, Ct, QP, Pl, gap
  <2> QED BY <1>5
<1>7. rep <= t
  <2>1. C * rep <= C * t
    BY <1>6
  <2> QED BY <1>0, <1>1, <2>1, CancelFactor
<1> QED BY <1>1, <1>6, <1>7 DEF rep, t, P

\* A Set that is levered up reports the leverage.
LEMMA LeverQuotes ==
  ASSUME a \in Int, b \in Int
  PROVE  LeverUpReachesRatio
<1> SUFFICES ASSUME NEW leverageRatio \in 1 .. 3, NEW price \in {3, PreciseUnit, 11},
                    NEW supply \in {4, PreciseUnit, 20}, NEW isLong \in BOOLEAN, a > 0
             PROVE  ReachesRatio(leverageRatio, price, supply, isLong)
  BY DEF LeverUpReachesRatio
<1> DEFINE C == 20 * a
           R == leverageRatio
           s == supply
           p == price
           P == PreciseUnit
           G == C * R
           n == PreciseDiv(G, p)
           u == PreciseDiv(n, s)
           B == PreciseMul(u, s)
           Q == PreciseMul(B, p)
           qn == PreciseMul(n, p)
           sl == PreciseMul(qn, LeverSlippage)
           qs == Quotient(s, P)
           lost == 1 + Quotient(p, P) * (1 + qs)
           allowance == PreciseMul(Q, LeverSlippage)
           x == IF isLong THEN qn + sl ELSE qn - sl
           limit == preciseMul(preciseDiv(x, s), s)
           rep == PreciseDiv(Q, C)
           trade == leverUp(p, s, C, R, isLong)
           base == preciseMul(trade.baseUnit, s)
           quote == preciseMul(base, p)
           account == SettledAccount(C)
           reported == calculateLeverageRatios(
                         account, <<[baseBalance |-> base, quoteBalance |-> -quote]>>, <<p>>)[1]
           target == R * P * (IF isLong THEN 1 ELSE -1)
<1>0. /\ P \in Nat \ {0} /\ C \in Nat \ {0} /\ R \in Nat \ {0} /\ p \in Nat \ {0} /\ s \in Nat \ {0}
      /\ LeverSlippage \in Nat /\ G \in Nat
  BY PreciseUnitAssumption, PerpAssumption
<1>1. isLong = TRUE \/ isLong = FALSE
  OBVIOUS
<1> HIDE DEF C, R, s, p, G
<1>2. /\ n \in Nat /\ u \in Nat /\ B \in Nat /\ Q \in Nat /\ qn \in Nat
      /\ Q <= qn /\ qn <= G /\ G <= Q + lost
  BY <1>0, LeveredTrade
<1>3. qs \in Nat \ {0} /\ lost \in Nat
  <2>1. qs \in Nat \ {0} /\ Quotient(p, P) \in Nat
    BY <1>0, QuotientCovers
  <2> HIDE DEF qs
  <2>2. Quotient(p, P) * (1 + qs) \in Nat
    BY <2>1
  <2> QED BY <2>1, <2>2
<1> HIDE DEF lost, qs
<1>4. rep \in Nat /\ rep <= R * P /\ (R * P - rep) * C <= P * lost + C
  <2>1. R \in Nat /\ Q <= C * R /\ C * R <= Q + lost
    BY <1>0, <1>2 DEF G
  <2> HIDE DEF Q
  <2> QED BY <1>0, <1>2, <1>3, <2>1, ReportedLeverage
<1>5. /\ trade.baseUnit = IF isLong THEN u ELSE -u
      /\ preciseMul(trade.quoteUnit, s) = limit
  <2>1. preciseDiv(C * R, p) = n
    BY <1>0, PreciseDivMirrors DEF G
  <2>2. preciseDiv(n, s) = u /\ preciseMul(n, p) = qn
    <3> HIDE DEF n
    <3> QED BY <1>0, <1>2, PreciseDivMirrors, UnsignedMirrors
  <2>3. Magnitude(qn) = qn /\ preciseMul(qn, LeverSlippage) = sl
    <3> HIDE DEF qn
    <3> QED BY <1>0, <1>2, UnsignedMirrors DEF Magnitude
  <2>4. trade = [baseUnit |-> IF isLong THEN u ELSE -u, quoteUnit |-> preciseDiv(x, s)]
    <3> HIDE DEF u, qn, n, sl
    <3> QED BY <2>1, <2>2, <2>3 DEF leverUp
  <2> HIDE DEF trade, x, u
  <2> QED BY <2>4
<1> HIDE DEF trade, limit
<1>6. base = (IF isLong THEN B ELSE -B) /\ quote = (IF isLong THEN Q ELSE -Q)
        /\ preciseMul(p, base) = quote /\ Magnitude(quote) = Q
  <2>1. preciseMul(u, s) = B /\ preciseMul(-u, s) = -B
    <3> HIDE DEF u
    <3>1. preciseMul(u, s) = B
      BY <1>0, <1>2, UnsignedMirrors
    <3>2. preciseMul(-u, s) = -preciseMul(u, s)
      BY <1>0, <1>2, RoundedIsOdd
    <3> QED BY <3>1, <3>2
  <2>2. base = IF isLong THEN B ELSE -B
    <3> HIDE DEF B, u
    <3> QED BY <1>5, <2>1
  <2> HIDE DEF base, B
  <2>3. preciseMul(B, p) = Q /\ preciseMul(-B, p) = -Q
    <3>1. preciseMul(B, p) = Q
      BY <1>0, <1>2, UnsignedMirrors
    <3>2. preciseMul(-B, p) = -preciseMul(B, p)
      BY <1>0, <1>2, RoundedIsOdd
    <3> QED BY <3>1, <3>2
  <2>4. quote = IF isLong THEN Q ELSE -Q
    <3> HIDE DEF Q
    <3> QED BY <2>2, <2>3
  <2>5. preciseMul(p, base) = quote
    <3>1. base \in Int
      BY <1>2, <2>2
    <3>2. p * base = base * p
      BY <1>0, <3>1
    <3> QED BY <3>2 DEF preciseMul
  <2>6. Magnitude(quote) = Q
    <3> HIDE DEF quote, Q
    <3> QED BY <1>1, <1>2, <2>4 DEF Magnitude
  <2> QED BY <2>2, <2>4, <2>5, <2>6
<1> HIDE DEF base, quote
<1>7. reported = IF isLong THEN rep ELSE -rep
  <2>1. settledCollateral(account, TRUE) = C
    <3>1. account.collateralBalance = C /\ account.owedRealizedPnl = 0 /\ account.pendingFundingPayments = 0
      BY DEF SettledAccount
    <3> HIDE DEF account
    <3> QED BY <1>0, <3>1 DEF settledCollateral
  <2> DEFINE positions == <<[baseBalance |-> base, quoteBalance |-> -quote]>>
             prices == <<p>>
  <2>2. DOMAIN positions = 1 .. 1 /\ positions[1].baseBalance = base /\ positions[1].quoteBalance = -quote /\ prices[1] = p
    OBVIOUS
  <2> DEFINE value == preciseMul(p, base)
  <2>3. reported = preciseDiv(value, value + C + (-quote))
    <3>1. 1 \in 1 .. 1
      OBVIOUS
    <3> HIDE DEF account, positions, prices
    <3>2. calculateLeverageRatios(account, positions, prices)[1] = preciseDiv(value, value + C + (-quote))
      BY <2>1, <2>2, <3>1 DEF calculateLeverageRatios
    <3> QED BY <3>2 DEF positions, prices
  <2>4. value = quote /\ quote \in Int
    BY <1>1, <1>2, <1>6
  <2> HIDE DEF value, reported, Q
  <2>5. value + C + (-quote) = C
    BY <1>0, <2>4
  <2>6. preciseDiv(Q, C) = rep
    BY <1>0, <1>2, PreciseDivMirrors
  <2>7. preciseDiv(-Q, C) = -preciseDiv(Q, C)
    BY <1>0, <1>2, RoundedIsOdd
  <2>8. reported = preciseDiv(quote, C)
    BY <2>3, <2>4, <2>5
  <2> HIDE DEF rep
  <2> QED BY <1>1, <1>6, <2>6, <2>7, <2>8
<1> HIDE DEF rep, reported, x, qn, sl, Q
<1>8. target = (IF isLong THEN R * P ELSE -(R * P)) /\ R * P \in Nat \ {0}
  BY <1>0, <1>1
<1> HIDE DEF target
<1>9. Magnitude(reported) <= Magnitude(target)
  <2> DEFINE t == R * P
  <2>1. t \in Nat /\ rep <= t /\ target = IF isLong THEN t ELSE -t
    BY <1>4, <1>8
  <2> HIDE DEF t
  <2>2. Magnitude(reported) = rep /\ Magnitude(target) = t
    BY <1>1, <1>4, <1>7, <2>1 DEF Magnitude
  <2> QED BY <2>1, <2>2
<1>10. Distance(reported, target) * C <= P * lost + C
  <2> DEFINE t == R * P
  <2>1. t \in Nat /\ rep <= t /\ target = IF isLong THEN t ELSE -t
    BY <1>4, <1>8
  <2>2. (t - rep) * C <= P * lost + C
    BY <1>4
  <2> HIDE DEF t
  <2>3. Distance(reported, target) = t - rep
    BY <1>1, <1>4, <1>7, <2>1 DEF Distance, Magnitude
  <2> QED BY <2>2, <2>3
<1>11. reported # 0 => ~SignsDiffer(reported, target)
  <2> DEFINE t == R * P
  <2>1. t \in Nat \ {0} /\ target = IF isLong THEN t ELSE -t
    BY <1>8
  <2> HIDE DEF t
  <2> QED BY <1>1, <1>4, <1>7, <2>1 DEF SignsDiffer
<1>12. ASSUME allowance >= lost + qs PROVE IF isLong THEN limit >= quote ELSE limit <= -quote
  <2>1. allowance \in Nat /\ sl \in Nat /\ allowance <= sl
    <3>1. allowance \in Nat /\ P * allowance <= Q * LeverSlippage
      BY <1>0, <1>2, PreciseMulBounds
    <3>2. sl \in Nat /\ qn * LeverSlippage < P * sl + P
      BY <1>0, <1>2, PreciseMulBounds DEF sl
    <3>3. Q * LeverSlippage <= qn * LeverSlippage /\ Q * LeverSlippage \in Int /\ qn * LeverSlippage \in Int
      <4>1. LeverSlippage * Q <= LeverSlippage * qn
        BY <1>0, <1>2, ScaleOrder
      <4>2. LeverSlippage * Q = Q * LeverSlippage /\ LeverSlippage * qn = qn * LeverSlippage
        BY <1>0, <1>2
      <4>3. LeverSlippage * Q \in Int /\ LeverSlippage * qn \in Int
        BY <1>0, <1>2
      <4> QED BY <4>1, <4>2, <4>3
    <3> HIDE DEF allowance
    <3> SUFFICES ASSUME sl + 1 <= allowance PROVE FALSE
      BY <3>1, <3>2
    <3>4. P * (sl + 1) <= P * allowance
      <4>1. P \in Nat /\ sl + 1 \in Int /\ allowance \in Int
        BY <1>0, <3>1, <3>2
      <4> QED BY <4>1, ScaleOrder
    <3>5. P * (sl + 1) = P * sl + P /\ P * sl \in Int /\ P * allowance \in Int
      BY <1>0, <3>1, <3>2
    <3> DEFINE l == Q * LeverSlippage
               h == qn * LeverSlippage
               Ps == P * sl
               Pa == P * allowance
    <3>6. l \in Int /\ h \in Int /\ Ps \in Int /\ Pa \in Int /\ Pa <= l /\ l <= h /\ h < Ps + P /\ Ps + P <= Pa
      BY <3>1, <3>2, <3>3, <3>4, <3>5
    <3> HIDE DEF l, h, Ps, Pa
    <3> QED BY <1>0, <3>6
  <2> HIDE DEF allowance
  <2>2. x \in Int
    BY <1>2, <2>1 DEF x
  <2>3. limit \in Int /\ (x >= 0 => limit <= x /\ x - qs <= limit) /\ (x < 0 => limit <= 0)
    BY <1>0, <2>2, SubmittedLimit DEF limit, qs
  <2>4. CASE isLong
    <3>1. x = qn + sl /\ quote = Q
      BY <1>6, <2>4 DEF x
    <3>2. limit >= Q
      BY <1>2, <1>3, <1>12, <2>1, <2>3, <3>1
    <3> QED BY <2>4, <3>1, <3>2
  <2>5. CASE ~isLong
    <3>1. x = qn - sl /\ quote = -Q
      BY <1>6, <2>5 DEF x
    <3>2. limit <= Q
      BY <1>0, <1>2, <1>3, <1>12, <2>1, <2>3, <3>1
    <3>3. -quote = Q
      BY <1>2, <3>1
    <3> QED BY <2>5, <3>2, <3>3
  <2> QED BY <2>4, <2>5
<1>13. preciseMul(Magnitude(quote), LeverSlippage) = allowance
  BY <1>0, <1>2, <1>6, UnsignedMirrors
<1> QED BY <1>5, <1>9, <1>10, <1>11, <1>12, <1>13
      DEF ReachesRatio, C, R, s, p, P, lost, qs, trade, base, quote, limit, reported, target

\* A long gets back its share c of the account less the closed share v of its
\* quote balance and what the sale yields.  With the spread that is the cost
\* of the purchase, paid, on both sides.
LEMMA LongPaysTheSpread ==
  ASSUME NEW P \in Nat \ {0}, NEW k \in Nat \ {0}, NEW j \in Int, NEW Q \in Nat, NEW paid \in Nat,
         NEW c \in Int, NEW r \in Nat, NEW v \in Nat, NEW h \in Nat,
         101 - Q < k * j + k, (k + 1) * c <= 101 + (j + paid),
         P <= (k + 1) * r + k, (Q + paid) * r < P * v + P, Q + paid <= P * h
  PROVE  c - v <= j + 1 + h
<1> DEFINE K == k + 1
           W == Q + paid
           x == c - j
<1>1. K \in Nat \ {0} /\ W \in Nat /\ x \in Int
  OBVIOUS
<1>2. K * x <= W + k - 1
  <2>1. K * x = K * c - (k * j + j)
    OBVIOUS
  <2> DEFINE Kc == K * c
             kj == k * j
             l == K * x
  <2>2. Kc \in Int /\ kj \in Int /\ l = Kc - (kj + j) /\ Kc <= 101 + (j + paid) /\ 101 - Q < kj + k
    BY <2>1
  <2> HIDE DEF Kc, kj, l
  <2>3. l <= Q + paid + k - 1
    BY <2>2
  <2> QED BY <2>3 DEF l
<1>3. P * (K * x) <= W * P + P * k - P
  <2> DEFINE l == K * x
             m == W + k - 1
  <2>1. l \in Int /\ m \in Int /\ l <= m /\ P \in Nat
    BY <1>2
  <2>2. P * m = W * P + P * k - P
    OBVIOUS
  <2> HIDE DEF l, m
  <2>3. P * l <= P * m
    BY <2>1, ScaleOrder
  <2> QED BY <2>2, <2>3 DEF l
<1>4. W * P - W * k + K <= P * (K * v) + K * P
  <2>1. W * P <= W * (K * r + k)
    <3> DEFINE y == K * r + k
    <3>1. y \in Int /\ P <= y /\ P \in Int
      OBVIOUS
    <3> HIDE DEF y, W
    <3> QED BY <1>1, <3>1, ScaleOrder DEF y
  <2>2. K * (W * r + 1) <= K * (P * v + P)
    <3> DEFINE y == W * r + 1
               z == P * v + P
    <3>1. y \in Int /\ z \in Int /\ y <= z /\ K \in Nat
      OBVIOUS
    <3> HIDE DEF y, z, K
    <3> QED BY <3>1, ScaleOrder DEF y, z
  <2>3. /\ W * (K * r + k) = W * (K * r) + W * k
        /\ K * (W * r + 1) = W * (K * r) + K
        /\ K * (P * v + P) = P * (K * v) + K * P
    <3> HIDE DEF W, K
    <3>1. W * (K * r + k) = W * (K * r) + W * k
      BY <1>1
    <3>2. K * (W * r + 1) = W * (K * r) + K
      BY <1>1
    <3>3. K * (P * v + P) = P * (K * v) + K * P
      BY <1>1
    <3> QED BY <3>1, <3>2, <3>3
  <2> HIDE DEF W, K
  <2>4. W * P \in Int /\ W * k \in Int /\ W * (K * r) \in Int /\ P * (K * v) \in Int /\ K * P \in Int
    BY <1>1
  <2> DEFINE a1 == W * P
             a2 == W * k
             a3 == W * (K * r)
             a4 == P * (K * v)
             a5 == K * P
  <2>5. a1 \in Int /\ a2 \in Int /\ a3 \in Int /\ a4 \in Int /\ a5 \in Int /\ a1 <= a3 + a2 /\ a3 + K <= a4 + a5
    BY <2>1, <2>2, <2>3, <2>4
  <2> HIDE DEF a1, a2, a3, a4, a5
  <2>6. a1 - a2 + K <= a4 + a5
    BY <1>1, <2>5
  <2> QED BY <2>6 DEF a1, a2, a4, a5
<1>5. W * k <= P * (k * h)
  <2>1. k * W <= k * (P * h)
    <3> DEFINE y == P * h
    <3>1. y \in Int /\ W \in Int /\ W <= y /\ k \in Nat
      OBVIOUS
    <3> HIDE DEF y, W
    <3> QED BY <3>1, ScaleOrder DEF y
  <2>2. k * W = W * k /\ k * (P * h) = P * (k * h)
    OBVIOUS
  <2> QED BY <2>1, <2>2
<1>6. x - v <= 1 + h
  <2> SUFFICES ASSUME h + 2 + v <= x PROVE FALSE
    BY <1>1
  <2>1. P * (K * (h + 2 + v)) <= P * (K * x)
    <3> DEFINE g == h + 2 + v
    <3> HIDE DEF K, x
    <3>1. K \in Nat /\ g \in Int /\ x \in Int /\ g <= x
      BY <1>1
    <3> HIDE DEF g
    <3>2. K * g <= K * x /\ K * g \in Int /\ K * x \in Int
      BY <3>1, ScaleOrder
    <3> DEFINE y == K * g
               z == K * x
    <3> HIDE DEF y, z
    <3>3. P \in Nat /\ y \in Int /\ z \in Int /\ y <= z
      BY <3>2 DEF y, z
    <3> QED BY <3>3, ScaleOrder DEF y, z, g
  <2>2. P * (K * (h + 2 + v)) = P * (k * h) + P * h + P * k + P * k + P + P + P * (K * v)
    <3>1. P * (K * (h + 2 + v)) = P * (K * (h + 2)) + P * (K * v)
      OBVIOUS
    <3>2. P * (K * (h + 2)) = P * (k * h) + P * h + P * k + P * k + P + P
      OBVIOUS
    <3> QED BY <3>1, <3>2
  <2> DEFINE X == P * (K * x)
             V == P * (K * v)
             Pk == P * k
             Ph == P * h
             WP == W * P
             Wk == W * k
             KP == K * P
             Pkh == P * (k * h)
  <2>3. /\ X \in Int /\ V \in Int /\ Pk \in Int /\ Ph \in Nat /\ WP \in Int /\ Wk \in Int /\ Pkh \in Int
        /\ KP = Pk + P
    OBVIOUS
  <2>4. /\ X <= WP + Pk - P /\ WP - Wk + K <= V + KP /\ Wk <= Pkh
        /\ Pkh + Ph + Pk + Pk + P + P + V <= X
    BY <1>3, <1>4, <1>5, <2>1, <2>2
  <2> HIDE DEF X, V, Pk, Ph, WP, Wk, KP, Pkh, K, W, x
  <2> QED BY <1>1, <2>3, <2>4
<1> HIDE DEF x
<1>7. c - j - v <= 1 + h
  BY <1>6 DEF x
<1> QED BY <1>7

\* A short likewise, and here the roundings favour the Set.
LEMMA ShortPaysTheSpread ==
  ASSUME NEW P \in Nat \ {0}, NEW k \in Nat \ {0}, NEW j \in Int, NEW Q \in Nat, NEW paid \in Nat,
         NEW c \in Int, NEW r \in Nat, NEW v \in Nat,
         101 + Q < k * j + k, (k + 1) * c <= 101 + (j - paid),
         (k + 1) * r <= P, P * v <= (Q + paid) * r
  PROVE  c + v <= j
<1> DEFINE K == k + 1
           W == Q + paid
           x == c + v - j
<1>1. K \in Nat \ {0} /\ W \in Nat /\ x \in Int
  OBVIOUS
<1>2. K * c - (k * j + j) <= k - 1 - W
  <2> DEFINE Kc == K * c
             kj == k * j
  <2>1. Kc \in Int /\ kj \in Int /\ Kc <= 101 + (j - paid) /\ 101 + Q < kj + k
    OBVIOUS
  <2> HIDE DEF Kc, kj
  <2>2. Kc - (kj + j) <= k - 1 - (Q + paid)
    BY <2>1
  <2> QED BY <2>2 DEF Kc, kj
<1>3. K * v <= W
  <2> HIDE DEF K, W
  <2>1. K * (P * v) <= K * (W * r)
    <3>1. P * v \in Int /\ W * r \in Int /\ P * v <= W * r /\ K \in Nat
      BY <1>1 DEF W
    <3> DEFINE y == P * v
               z == W * r
    <3> HIDE DEF y, z
    <3>2. K * y <= K * z
      BY <3>1, ScaleOrder DEF y, z
    <3> QED BY <3>2 DEF y, z
  <2>2. W * (K * r) <= W * P
    <3>1. K * r \in Int /\ P \in Int /\ K * r <= P
      BY <1>1 DEF K
    <3> DEFINE y == K * r
    <3> HIDE DEF y
    <3>2. W * y <= W * P
      BY <1>1, <3>1, ScaleOrder DEF y
    <3> QED BY <3>2 DEF y
  <2>3. K * (P * v) = P * (K * v) /\ K * (W * r) = W * (K * r) /\ W * P = P * W
    BY <1>1
  <2>4. P * (K * v) \in Int /\ W * (K * r) \in Int /\ P * W \in Int /\ K * v \in Int
    BY <1>1
  <2>5. P * (K * v) <= P * W
    BY <2>1, <2>2, <2>3, <2>4
  <2> DEFINE y == K * v
  <2> HIDE DEF y
  <2>6. y <= W
    BY <1>1, <2>4, <2>5, CancelFactor DEF y
  <2> QED BY <2>6 DEF y
<1>4. K * x < K
  <2>1. K * x = K * c + K * v - (k * j + j)
    OBVIOUS
  <2> DEFINE Kx == K * x
             Kc == K * c
             Kv == K * v
             kj == k * j
  <2>2. /\ Kc \in Int /\ Kv \in Int /\ kj \in Int /\ Kx = Kc + Kv - (kj + j)
        /\ Kc - (kj + j) <= k - 1 - W /\ Kv <= W
    BY <1>2, <1>3, <2>1
  <2> HIDE DEF Kx, Kc, Kv, kj, W
  <2>3. Kx < k + 1
    BY <1>1, <2>2
  <2> QED BY <2>3 DEF Kx
<1> HIDE DEF x, K
<1>5. x <= 0
  <2> SUFFICES ASSUME 1 <= x PROVE FALSE
    BY <1>1
  <2>1. K * 1 <= K * x
    BY <1>1, ScaleOrder
  <2>2. K * x \in Int /\ K * 1 = K
    BY <1>1
  <2> QED BY <1>1, <1>4, <2>1, <2>2
<1> QED BY <1>5 DEF x

\* Rounding up covers the numerator, nothing included.
LEMMA QuotientReaches ==
  ASSUME NEW x \in Nat, NEW y \in Nat \ {0}
  PROVE  Quotient(x, y) \in Nat /\ x <= y * Quotient(x, y)
<1>1. CASE x = 0
  <2>1. Quotient(x, y) \in Nat
    <3>1. x + y - 1 \in Nat
      OBVIOUS
    <3> QED BY <3>1, DivBounds DEF Quotient
  <2>2. y * Quotient(x, y) \in Nat
    BY <2>1
  <2> QED BY <1>1, <2>1, <2>2
<1>2. CASE x # 0
  BY <1>2, QuotientCovers
<1> QED BY <1>1, <1>2

\* Truncating loses less than one unit, and never exceeds a natural number.
LEMMA TruncBounds ==
  ASSUME NEW n \in Int, NEW k \in Nat \ {0}
  PROVE  /\ TruncDiv(n, k) \in Int
         /\ n < k * TruncDiv(n, k) + k
         /\ n >= 0 => k * TruncDiv(n, k) <= n
<1>1. ASSUME NEW w \in Nat
      PROVE  /\ TruncDiv(w, k) \in Int /\ w < k * TruncDiv(w, k) + k
             /\ k * TruncDiv(w, k) <= w
  <2>1. TruncDiv(w, k) = w \div k
    BY <1>1, TruncOfNaturals
  <2>2. w \div k \in Nat /\ k * (w \div k) <= w /\ w < k * (w \div k) + k
    BY <1>1, DivBounds
  <2> QED BY <2>1, <2>2
<1>2. CASE n >= 0
  BY <1>1, <1>2
<1>3. CASE n < 0
  <2> DEFINE w == -n
             y == TruncDiv(w, k)
  <2>1. w \in Nat /\ w \in Int /\ n = -w /\ k \in Int \ {0}
    BY <1>3
  <2> HIDE DEF w
  <2>2. TruncDiv(n, k) = -y /\ y \in Int
    BY <2>1, TruncationIsOdd
  <2>3. k * y <= w
    BY <1>1, <2>1
  <2> HIDE DEF y
  <2>4. k * (-y) = -(k * y) /\ k * y \in Int
    BY <2>2
  <2>5. n < k * (-y) + k
    BY <2>1, <2>3, <2>4
  <2> QED BY <1>3, <2>2, <2>5
<1> QED BY <1>2, <1>3

\* The share of a position that one Set out of k + 1 closes.
LEMMA ClosedShare ==
  ASSUME NEW w \in Nat \ {0}, NEW k \in Nat \ {0}
  PROVE  LET r == preciseDiv(w, (k + 1) * w)
         IN  r \in Nat /\ (k + 1) * r <= PreciseUnit /\ PreciseUnit <= (k + 1) * r + k
<1>0. PreciseUnit \in Nat /\ PreciseUnit \in Int /\ k + 1 \in Nat \ {0} /\ w * PreciseUnit = PreciseUnit * w
  BY PreciseUnitAssumption
<1> DEFINE K == k + 1
<1> HIDE DEF K
<1>1. K \in Nat \ {0} /\ K = k + 1
  BY <1>0 DEF K
<1>2. TruncDiv(PreciseUnit * w, K * w) = TruncDiv(PreciseUnit, K)
  BY <1>0, <1>1, TruncCancel
<1>3. TruncDiv(PreciseUnit, K) = PreciseUnit \div K
  BY <1>0, <1>1, TruncOfNaturals
<1>4. preciseDiv(w, K * w) = PreciseUnit \div K
  BY <1>0, <1>2, <1>3 DEF preciseDiv
<1> DEFINE r == PreciseUnit \div K
<1>5. r \in Nat /\ K * r <= PreciseUnit /\ PreciseUnit < K * r + K
  BY <1>0, <1>1, DivBounds
<1> HIDE DEF r
<1>6. K * r \in Int
  BY <1>1, <1>5
<1> DEFINE m == K * r
<1> HIDE DEF m
<1>7. m \in Int /\ PreciseUnit < m + K
  BY <1>5, <1>6 DEF m
<1>8. PreciseUnit <= m + k
  BY <1>0, <1>1, <1>7
<1> QED BY <1>1, <1>4, <1>5, <1>8 DEF r, m

\* The two sides of a market: buying an amount costs more than selling it
\* yields.
LEMMA SpreadIsPaid ==
  ASSUME NEW w \in Nat \ {0}, NEW price \in Nat \ {0}
  PROVE  /\ PreciseMulCeil(w, price + 1) \in Nat /\ PreciseMul(w, price - 1) \in Nat
         /\ PreciseMul(w, price - 1) + 1 <= PreciseMulCeil(w, price + 1)
<1> DEFINE A == PreciseMulCeil(w, price + 1)
           B == PreciseMul(w, price - 1)
           P == PreciseUnit
<1>0. price + 1 \in Nat /\ price - 1 \in Nat /\ P \in Nat \ {0}
  BY PreciseUnitAssumption
<1>1. A \in Nat /\ w * (price + 1) <= P * A
  BY <1>0, PreciseMulCeilBounds
<1>2. B \in Nat /\ P * B <= w * (price - 1)
  BY <1>0, PreciseMulBounds
<1> HIDE DEF A, B, P
<1>3. w * (price + 1) = w * price + w /\ w * (price - 1) = w * price - w /\ w * price \in Int
  OBVIOUS
<1>4. P * A \in Int /\ P * B \in Int
  BY <1>0, <1>1, <1>2
<1>5. P * B < P * A
  <2> DEFINE x == P * A
             y == P * B
             z == w * price
  <2>1. x \in Int /\ y \in Int /\ z \in Int /\ z + w <= x /\ y <= z - w
    BY <1>1, <1>2, <1>3, <1>4
  <2> HIDE DEF x, y, z
  <2>2. y < x
    BY <2>1
  <2> QED BY <2>2 DEF x, y
<1>6. B < A
  <2> SUFFICES ASSUME A <= B PROVE FALSE
    BY <1>1, <1>2
  <2>1. P \in Nat /\ A \in Int /\ B \in Int
    BY <1>0, <1>1, <1>2
  <2>2. P * A <= P * B
    BY <2>1, ScaleOrder
  <2> QED BY <1>4, <1>5, <2>2
<1> QED BY <1>1, <1>2, <1>6 DEF A, B

\* One Set issued, at a supply of k Sets that hold t of the base token each,
\* and redeemed at once: in precise units.
TripPaysTheSpread(price, k, t, base) ==
  LET market   == Market(price)
      quote    == -preciseMul(base, price)
      paid     == SwapQuote(market, Magnitude(t), t >= 0)
      newQuote == quote + (IF t >= 0 THEN -paid ELSE paid)
      amountIn == calculateUSDCTransferInPreciseUnits(
                    Account(100, quote), <<[baseBalance |-> base, quoteBalance |-> quote]>>,
                    <<market>>, k * PreciseUnit, PreciseUnit, TRUE)
      value    == closedValue(
                    Account(100 + amountIn, newQuote),
                    <<[baseBalance |-> base + t, quoteBalance |-> newQuote]>>,
                    <<market>>, (k + 1) * PreciseUnit, PreciseUnit, TRUE)
      spread   == SwapQuote(market, Magnitude(t), TRUE) - SwapQuote(market, Magnitude(t), FALSE)
      rounding == IF t >= 0 THEN 1 + Quotient(Magnitude(newQuote), PreciseUnit) ELSE 0
  IN  /\ amountIn \in Int /\ value \in Int /\ rounding \in Nat /\ spread \in Nat
      /\ amountIn >= 0 => value + spread <= amountIn + rounding

\* At every price, for every long and short and every number of Sets: who
\* issues one and redeems it at once pays the spread.  The payment in is the
\* share of the account and the cost of the trade, and the Set closes at its
\* share of the account, of the quote balance and what the trade yields on
\* the other side of the market (calculateUSDCTransferInPreciseUnits and
\* calculateUSDCTransferOutPreciseUnits of perpV2Utils.ts).
THEOREM PerpRoundTrip ==
  ASSUME NEW price \in Nat \ {0}, NEW k \in Nat \ {0}, NEW t \in Int, t # 0, NEW base \in Int, base = k * t
  PROVE  TripPaysTheSpread(price, k, t, base)
<1> DEFINE P        == PreciseUnit
           K        == k + 1
           w        == Magnitude(t)
           market   == Market(price)
           quote    == -preciseMul(base, price)
           paid     == SwapQuote(market, w, t >= 0)
           newQuote == quote + (IF t >= 0 THEN -paid ELSE paid)
           account  == Account(100, quote)
           before   == <<[baseBalance |-> base, quoteBalance |-> quote]>>
           amountIn == calculateUSDCTransferInPreciseUnits(account, before, <<market>>, k * P, P, TRUE)
           issued   == Account(100 + amountIn, newQuote)
           after    == <<[baseBalance |-> base + t, quoteBalance |-> newQuote]>>
           value    == closedValue(issued, after, <<market>>, K * P, P, TRUE)
           spread   == SwapQuote(market, w, TRUE) - SwapQuote(market, w, FALSE)
           cover    == Quotient(Magnitude(newQuote), P)
           rounding == IF t >= 0 THEN 1 + cover ELSE 0
           F        == SwapQuote(market, w, ~(t >= 0))
           r        == preciseDiv(w, Magnitude(base + t))
           j        == TruncDiv(101 + quote, k)
           c        == TruncDiv(101 + amountIn, K)
<1>0. /\ P \in Nat \ {0} /\ K \in Nat \ {0} /\ K = k + 1 /\ w \in Nat \ {0} /\ price \in Int
      /\ base + t \in Int /\ base + t = K * t /\ Magnitude(base + t) = K * w
  <2>1. P \in Nat \ {0} /\ K \in Nat \ {0} /\ K = k + 1 /\ w \in Nat \ {0} /\ price \in Int
    BY PreciseUnitAssumption DEF Magnitude
  <2>2. base + t \in Int /\ base + t = K * t
    OBVIOUS
  <2>3. Magnitude(K * t) = K * w
    <3> HIDE DEF K
    <3>1. CASE t > 0
      BY <2>1, <3>1 DEF Magnitude
    <3>2. CASE t < 0
      <4>1. K * t \in Int /\ K * t < 0 /\ K * (-t) = -(K * t)
        BY <2>1, <3>2
      <4> QED BY <3>2, <4>1 DEF Magnitude
    <3> QED BY <3>1, <3>2
  <2> QED BY <2>1, <2>2, <2>3
<1>1. market.spot \in Nat /\ market.ask \in Nat /\ market.bid \in Nat
      /\ market.ask = price + 1 /\ market.bid = price - 1
  BY DEF Market
<1>2. quote \in Int
  <2>1. preciseMul(base, price) \in Int
    BY <1>0, RoundedIsOdd
  <2> QED BY <2>1
<1>3. TruncDiv(base, k) = t /\ TruncDiv(base + t, K) = t
  BY <1>0, TruncExact
<1> HIDE DEF P, K, w, market, quote
<1>4. settledCollateral(account, TRUE) + account.netQuoteBalance = 101 + quote
  BY <1>2 DEF settledCollateral, Account
<1>5. paid \in Nat /\ amountIn = j + (IF t >= 0 THEN paid ELSE -paid)
  <2>1. 101 + quote \in Int /\ k \in Nat \ {0} /\ t = TruncDiv(base, k)
    BY <1>2, <1>3
  <2> HIDE DEF account
  <2> DEFINE cost == IF t >= 0 THEN paid ELSE -paid
             S == k * P
             markets == <<market>>
             total == 101 + quote
  <2>2. /\ S = k * PreciseUnit /\ markets = <<market>> /\ P = PreciseUnit /\ total = 101 + quote
        /\ before = <<[baseBalance |-> base, quoteBalance |-> quote]>>
        /\ paid = SwapQuote(market, Magnitude(t), t >= 0) /\ cost = IF t >= 0 THEN paid ELSE -paid
    BY Zenon DEF P, w
  <2>3. amountIn = calculateUSDCTransferInPreciseUnits(account, before, markets, S, PreciseUnit, TRUE)
    BY Zenon DEF P
  <2> HIDE DEF cost, S, markets, before, paid, total, amountIn
  <2>4. paid \in Nat /\ calculateUSDCTransferInPreciseUnits(account, before, markets, S, PreciseUnit, TRUE) = TruncDiv(total, k) + cost
    <3> DEFINE tradeCost(i) ==
                 LET bs    == preciseMul(preciseDiv(before[i].baseBalance, S), PreciseUnit)
                     ideal == preciseMul(bs, markets[i].spot)
                     q     == SwapQuote(markets[i], Magnitude(bs), bs >= 0)
                 IN  ideal + (IF bs >= 0 THEN q - ideal ELSE Magnitude(ideal) - q)
    <3>1. paid \in Nat
      BY <1>1, <2>2, SwapQuoteType
    <3>2. calculateUSDCTransferInPreciseUnits(account, before, markets, S, PreciseUnit, TRUE)
            = preciseMul(preciseDiv(settledCollateral(account, TRUE) + account.netQuoteBalance, S), PreciseUnit)
                + SumFunction([i \in DOMAIN before |-> tradeCost(i)])
      BY Zenon DEF calculateUSDCTransferInPreciseUnits
    <3>3. DOMAIN before = 1 .. 1 /\ before[1].baseBalance = base /\ markets[1] = market
      BY <2>2
    <3>4. preciseDiv(base, S) = t /\ preciseMul(t, PreciseUnit) = t
      BY <2>1, <2>2, WholeSets
    <3>5. preciseMul(preciseDiv(total, S), PreciseUnit) = TruncDiv(total, k)
      <4>1. preciseDiv(total, S) = TruncDiv(total, k)
        BY <2>1, <2>2, WholeSets
      <4>2. TruncDiv(total, k) \in Int
        <5>1. k \in Int \ {0}
          OBVIOUS
        <5> QED BY <2>1, <2>2, <5>1, TruncationIsOdd
      <4>3. preciseMul(TruncDiv(total, k), PreciseUnit) = TruncDiv(total, k)
        BY <4>2, WholeSets
      <4> QED BY <4>1, <4>3
    <3>6. tradeCost(1) = cost
      <4> DEFINE ideal == preciseMul(t, market.spot)
      <4>1. tradeCost(1) = ideal + (IF t >= 0 THEN paid - ideal ELSE Magnitude(ideal) - paid)
        BY <2>2, <3>3, <3>4
      <4>2. paid \in Int
        BY <3>1
      <4> HIDE DEF tradeCost
      <4> QED BY <1>1, <2>2, <4>1, <4>2, TradeCost
    <3>7. SumFunction([i \in DOMAIN before |-> tradeCost(i)]) = cost
      <4> DEFINE f == [i \in DOMAIN before |-> tradeCost(i)]
      <4>1. cost \in Int
        BY <2>2, <3>1
      <4> HIDE DEF tradeCost
      <4>2. f \in [1 .. 1 -> Int] /\ f[1] = cost
        BY <3>3, <3>6, <4>1
      <4> HIDE DEF f
      <4>3. SumFunction(f) = cost
        BY <4>2, ShortSums
      <4> QED BY <4>3 DEF f
    <3> HIDE DEF tradeCost
    <3> QED BY <1>4, <2>2, <3>1, <3>2, <3>5, <3>7
  <2> QED BY <2>2, <2>3, <2>4 DEF cost, total
<1>6. j \in Int /\ 101 + quote < k * j + k
  <2>1. 101 + quote \in Int
    BY <1>2
  <2> QED BY <2>1, TruncBounds
<1> HIDE DEF paid, j, amountIn
<1>7. amountIn \in Int /\ newQuote \in Int
  BY <1>2, <1>5, <1>6
<1> HIDE DEF newQuote
<1>8. settledCollateral(issued, TRUE) = 101 + amountIn
  BY <1>7 DEF settledCollateral, Account
<1>9. r \in Nat /\ K * r <= P /\ P <= K * r + k
  BY <1>0, ClosedShare DEF K, P
<1>10. F \in Nat /\ value = c + (preciseMul(newQuote, r) + (IF t >= 0 THEN F ELSE -F))
  <2>1. 101 + amountIn \in Int /\ t = TruncDiv(base + t, K)
    BY <1>3, <1>7
  <2> HIDE DEF issued
  <2> DEFINE pnl == preciseMul(newQuote, r) + (IF t >= 0 THEN F ELSE -F)
             S == K * P
             markets == <<market>>
             total == 101 + amountIn
             held == base + t
  <2>2. /\ S = K * PreciseUnit /\ markets = <<market>> /\ P = PreciseUnit /\ total = 101 + amountIn
        /\ after = <<[baseBalance |-> held, quoteBalance |-> newQuote]>> /\ held = base + t
        /\ F = SwapQuote(market, Magnitude(t), ~(t >= 0))
        /\ r = preciseDiv(Magnitude(t), Magnitude(held))
        /\ pnl = preciseMul(newQuote, r) + (IF t >= 0 THEN F ELSE -F)
    BY Zenon DEF P, w
  <2>3. value = closedValue(issued, after, markets, S, PreciseUnit, TRUE)
    BY Zenon DEF P
  <2>4. r \in Int /\ held \in Int /\ t = TruncDiv(held, K)
    BY <1>0, <1>9, <2>1
  <2> HIDE DEF pnl, S, markets, after, F, r, total, value, held
  <2>5. F \in Nat /\ closedValue(issued, after, markets, S, PreciseUnit, TRUE) = TruncDiv(total, K) + pnl
    <3> DEFINE realizedPnl(i) ==
                 LET h        == after[i]
                     baseUnit == preciseDiv(h.baseBalance, S)
                     bs       == preciseMul(baseUnit, PreciseUnit)
                     isLong   == baseUnit >= 0
                     rt       == preciseDiv(Magnitude(bs), Magnitude(h.baseBalance))
                     qt       == SwapQuote(markets[i], Magnitude(bs), ~isLong)
                 IN  preciseMul(h.quoteBalance, rt) + (IF isLong THEN qt ELSE -qt)
    <3>1. F \in Nat
      BY <1>1, <2>2, SwapQuoteType
    <3>2. closedValue(issued, after, markets, S, PreciseUnit, TRUE)
            = preciseMul(preciseDiv(settledCollateral(issued, TRUE), S), PreciseUnit)
                + SumFunction([i \in DOMAIN after |-> realizedPnl(i)])
      BY Zenon DEF closedValue
    <3>3. /\ DOMAIN after = 1 .. 1 /\ after[1].baseBalance = held /\ after[1].quoteBalance = newQuote
          /\ markets[1] = market
      BY <2>2
    <3>4. preciseDiv(held, S) = t /\ preciseMul(t, PreciseUnit) = t
      BY <1>0, <2>2, <2>4, WholeSets
    <3>5. preciseMul(preciseDiv(total, S), PreciseUnit) = TruncDiv(total, K)
      <4>1. preciseDiv(total, S) = TruncDiv(total, K)
        BY <1>0, <2>1, <2>2, WholeSets
      <4>2. TruncDiv(total, K) \in Int
        <5>1. K \in Int \ {0}
          BY <1>0
        <5> QED BY <2>1, <2>2, <5>1, TruncationIsOdd
      <4>3. preciseMul(TruncDiv(total, K), PreciseUnit) = TruncDiv(total, K)
        BY <1>0, <4>2, WholeSets
      <4> QED BY <4>1, <4>3
    <3>6. realizedPnl(1) = pnl
      BY <2>2, <3>3, <3>4
    <3>7. SumFunction([i \in DOMAIN after |-> realizedPnl(i)]) = pnl
      <4> DEFINE f == [i \in DOMAIN after |-> realizedPnl(i)]
      <4>1. pnl \in Int
        <5>1. preciseMul(newQuote, r) \in Int
          BY <1>7, <2>4, RoundedIsOdd
        <5> QED BY <2>2, <3>1, <5>1
      <4> HIDE DEF realizedPnl
      <4>2. f \in [1 .. 1 -> Int] /\ f[1] = pnl
        BY <3>3, <3>6, <4>1
      <4> HIDE DEF f
      <4>3. SumFunction(f) = pnl
        BY <4>2, ShortSums
      <4> QED BY <4>3 DEF f
    <3> HIDE DEF realizedPnl
    <3> QED BY <1>8, <2>2, <3>1, <3>2, <3>5, <3>7
  <2> QED BY <2>2, <2>3, <2>5 DEF total, pnl
<1>11. c \in Int /\ (amountIn >= 0 => K * c <= 101 + amountIn)
  <2>1. 101 + amountIn \in Int /\ (amountIn >= 0 => 101 + amountIn >= 0)
    BY <1>7
  <2> QED BY <1>0, <2>1, TruncBounds
<1> HIDE DEF value, F, r, c, cover
<1>12. preciseMul(newQuote, r) \in Int
  <2>1. r \in Int
    BY <1>9
  <2> QED BY <1>7, <2>1, RoundedIsOdd
<1>13. value \in Int
  BY <1>10, <1>11, <1>12
<1>14. cover \in Nat /\ Magnitude(newQuote) <= P * cover
  <2>1. Magnitude(newQuote) \in Nat
    BY <1>7 DEF Magnitude
  <2> QED BY <1>0, <2>1, QuotientReaches DEF cover
<1>15. spread \in Nat /\ spread = (IF t >= 0 THEN paid - F ELSE F - paid)
  <2>1. /\ SwapQuote(market, w, TRUE) = PreciseMulCeil(w, price + 1)
        /\ SwapQuote(market, w, FALSE) = PreciseMul(w, price - 1)
    BY <1>1 DEF SwapQuote
  <2>2. spread \in Nat
    <3> DEFINE x == PreciseMulCeil(w, price + 1)
               y == PreciseMul(w, price - 1)
    <3>1. x \in Nat /\ y \in Nat /\ y + 1 <= x
      BY <1>0, SpreadIsPaid
    <3> HIDE DEF x, y
    <3>2. x - y \in Nat
      BY <3>1
    <3> QED BY <2>1, <3>2 DEF x, y
  <2>3. /\ paid = SwapQuote(market, w, t >= 0) /\ F = SwapQuote(market, w, ~(t >= 0))
        /\ spread = SwapQuote(market, w, TRUE) - SwapQuote(market, w, FALSE)
    BY DEF paid, F
  <2> DEFINE x == PreciseMulCeil(w, price + 1)
             y == PreciseMul(w, price - 1)
  <2>4. spread = x - y
    BY <2>1
  <2>5. CASE t >= 0
    <3>1. paid = x /\ F = y
      BY <1>1, <2>3, <2>5 DEF SwapQuote
    <3> HIDE DEF spread, x, y
    <3> QED BY <2>2, <2>4, <2>5, <3>1
  <2>6. CASE ~(t >= 0)
    <3>1. paid = y /\ F = x
      BY <1>1, <2>3, <2>6 DEF SwapQuote
    <3> HIDE DEF spread, x, y
    <3> QED BY <2>2, <2>4, <2>6, <3>1
  <2> QED BY <2>5, <2>6
<1> HIDE DEF spread
<1>16. ASSUME amountIn >= 0, t > 0 PROVE value + spread <= amountIn + rounding
  <2> DEFINE Q == preciseMul(base, price)
             v == PreciseMul(Q + paid, r)
  <2>1. Q \in Nat /\ quote = -Q
    <3>1. base \in Nat
      BY <1>16
    <3> QED BY <3>1, UnsignedMirrors, PreciseMulBounds DEF quote
  <2> HIDE DEF Q
  <2>2. newQuote = -(Q + paid) /\ Q + paid \in Nat /\ Q + paid \in Int
    BY <1>5, <1>16, <2>1 DEF newQuote
  <2> DEFINE W == Q + paid
  <2> HIDE DEF W
  <2>3. W \in Nat /\ W \in Int /\ newQuote = -W /\ W = Q + paid
    BY <2>2 DEF W
  <2>4. v \in Nat /\ W * r < P * v + P
    BY <1>9, <2>3, PreciseMulBounds DEF P, W
  <2>5. preciseMul(newQuote, r) = -v
    <3>1. preciseMul(W, r) = v
      BY <1>9, <2>3, UnsignedMirrors DEF W
    <3>2. preciseMul(-W, r) = -preciseMul(W, r)
      <4>1. r \in Int
        BY <1>9
      <4> QED BY <2>3, <4>1, RoundedIsOdd
    <3> QED BY <2>3, <3>1, <3>2
  <2>6. Magnitude(newQuote) = W
    <3>1. CASE W = 0
      BY <2>3, <3>1 DEF Magnitude
    <3>2. CASE W # 0
      BY <2>3, <3>2 DEF Magnitude
    <3> QED BY <3>1, <3>2
  <2> HIDE DEF v
  <2>7. 101 - Q < k * j + k /\ W <= P * cover
    BY <1>6, <1>14, <2>1, <2>6
  <2>8. amountIn = j + paid /\ spread = paid - F /\ rounding = 1 + cover /\ value = c + (-v + F)
    BY <1>5, <1>10, <1>15, <1>16, <2>5
  <2>9. (k + 1) * c <= 101 + (j + paid) /\ P <= (k + 1) * r + k /\ (Q + paid) * r < P * v + P /\ Q + paid <= P * cover
    BY <1>0, <1>9, <1>11, <1>16, <2>3, <2>4, <2>7, <2>8
  <2>10. c - v <= j + 1 + cover
    BY <1>0, <1>5, <1>6, <1>9, <1>11, <1>14, <2>1, <2>4, <2>7, <2>9, LongPaysTheSpread
  <2> HIDE DEF rounding
  <2> QED BY <1>5, <1>6, <1>10, <1>11, <1>14, <2>4, <2>8, <2>10
<1>17. ASSUME amountIn >= 0, t < 0 PROVE value + spread <= amountIn + rounding
  <2> DEFINE Q == preciseMul(-base, price)
             v == PreciseMul(Q + paid, r)
  <2>1. Q \in Nat /\ quote = Q
    <3>1. -base \in Nat
      BY <1>17
    <3>2. Q \in Nat
      BY <3>1, UnsignedMirrors, PreciseMulBounds
    <3>3. preciseMul(-base, price) = -preciseMul(base, price)
      BY <1>0, RoundedIsOdd
    <3> QED BY <3>2, <3>3 DEF quote
  <2> HIDE DEF Q
  <2>2. newQuote = Q + paid /\ Q + paid \in Nat
    BY <1>5, <1>17, <2>1 DEF newQuote
  <2>3. v \in Nat /\ P * v <= (Q + paid) * r
    BY <1>9, <2>2, PreciseMulBounds DEF P
  <2>4. preciseMul(newQuote, r) = v
    BY <1>9, <2>2, UnsignedMirrors
  <2> HIDE DEF v
  <2>5. amountIn = j - paid /\ spread = F - paid /\ rounding = 0 /\ value = c + (v - F)
    BY <1>5, <1>6, <1>10, <1>15, <1>17, <2>3, <2>4
  <2>6. 101 + Q < k * j + k /\ (k + 1) * c <= 101 + (j - paid) /\ (k + 1) * r <= P
    BY <1>0, <1>6, <1>9, <1>11, <1>17, <2>1, <2>5
  <2>7. c + v <= j
    BY <1>0, <1>5, <1>6, <1>9, <1>11, <2>1, <2>3, <2>6, ShortPaysTheSpread
  <2> HIDE DEF rounding
  <2> QED BY <1>5, <1>6, <1>10, <1>11, <2>3, <2>5, <2>7
<1>18. amountIn >= 0 => value + spread <= amountIn + rounding
  BY <1>16, <1>17
<1>19. amountIn \in Int /\ value \in Int /\ rounding \in Nat /\ spread \in Nat
  BY <1>7, <1>13, <1>14, <1>15
<1> QED
  BY <1>18, <1>19, Zenon DEF TripPaysTheSpread, P, K, w, market, quote, paid, newQuote, account, before, amountIn,
     issued, after, value, spread, cover, rounding

\* The position unit in USDC never stands for more than the collateral.
LEMMA ExternalUnitIsBacked ==
  ASSUME NEW coll \in Nat, NEW supply \in Nat \ {0}, NEW account, account.collateralBalance = coll
  PROVE  calculateExternalPositionUnit(account, supply) * UsdcScale * supply <= coll * PreciseUnit
<1> DEFINE n == coll * PreciseUnit
           x == n \div supply
           u == x \div UsdcScale
<1>0. n \in Nat /\ UsdcScale \in Nat \ {0}
  BY PreciseUnitAssumption, PerpAssumption
<1> HIDE DEF n
<1>1. x \in Nat /\ supply * x <= n
  BY <1>0, DivBounds
<1>2. TruncDiv(n, supply) = x
  BY <1>0, TruncOfNaturals
<1>3. calculateExternalPositionUnit(account, supply) = TruncDiv(x, UsdcScale)
  <2> HIDE DEF x
  <2> QED BY <1>2 DEF calculateExternalPositionUnit, toUSDCDecimals, preciseDiv, n
<1> HIDE DEF x
<1>4. u \in Nat /\ UsdcScale * u <= x /\ TruncDiv(x, UsdcScale) = u
  BY <1>0, <1>1, DivBounds, TruncOfNaturals
<1> HIDE DEF u
<1>5. UsdcScale * u \in Int /\ u * UsdcScale = UsdcScale * u
  BY <1>0, <1>4
<1> DEFINE y == UsdcScale * u
<1> HIDE DEF y
<1>6. y \in Int /\ y <= x /\ u * UsdcScale = y
  BY <1>4, <1>5 DEF y
<1>7. supply * y <= supply * x
  <2>1. supply \in Nat /\ x \in Int
    BY <1>1
  <2> QED BY <1>6, <2>1, ScaleOrder
<1>8. supply * y = y * supply /\ supply * y \in Int /\ supply * x \in Int
  BY <1>1, <1>6
<1>9. y * supply <= n
  BY <1>0, <1>1, <1>7, <1>8
<1> QED BY <1>3, <1>4, <1>6, <1>9 DEF n

\* A Set of perpetual futures, issued and redeemed at once.
LEMMA PerpRoundTripQuotes ==
  ASSUME a \in Int, b \in Int
  PROVE  PerpRoundTripNoGain
<1> SUFFICES ASSUME NEW price \in {3, PreciseUnit, 11},
                    NEW supply \in {PreciseUnit, 2 * PreciseUnit, 4 * PreciseUnit}, a # 0
             PROVE  RoundTripNoGain(price, supply)
  BY DEF PerpRoundTripNoGain
<1> DEFINE P         == PreciseUnit
           market    == Market(price)
           base      == 8 * a
           quote     == -preciseMul(base, price)
           account   == Account(100, quote)
           before    == <<[baseBalance |-> base, quoteBalance |-> quote]>>
           traded    == preciseMul(preciseDiv(base, supply), P)
           paid      == SwapQuote(market, Magnitude(traded), traded >= 0)
           newQuote  == quote + (IF traded >= 0 THEN -paid ELSE paid)
           amountIn  == calculateUSDCTransferInPreciseUnits(account, before, <<market>>, supply, P, TRUE)
           after     == <<[baseBalance |-> base + traded, quoteBalance |-> newQuote]>>
           issued    == Account(100 + amountIn, newQuote)
           newSupply == supply + P
           amountOut == calculateUSDCTransferOutPreciseUnits(issued, after, <<market>>, newSupply, P, TRUE)
           value     == closedValue(issued, after, <<market>>, newSupply, P, TRUE)
           spread    == SwapQuote(market, Magnitude(traded), TRUE) - SwapQuote(market, Magnitude(traded), FALSE)
           rounding  == IF traded >= 0 THEN 1 + Quotient(Magnitude(newQuote), P) ELSE 0
           inUsdc    == calculateUSDCTransferIn(account, before, <<market>>, supply, P)
           outUsdc   == calculateUSDCTransferOut(issued, after, <<market>>, newSupply, P)
<1>0. P \in Nat \ {0} /\ price \in Nat \ {0} /\ supply \in Nat \ {0} /\ newSupply \in Nat \ {0} /\ base \in Int
  BY PreciseUnitAssumption
<1>1. PICK k \in Nat \ {0}, t \in Int : supply = k * P /\ base = k * t /\ t # 0
  <2> DEFINE t8 == 8 * a
             t4 == 4 * a
             t2 == 2 * a
  <2>1. /\ t8 \in Int /\ t8 # 0 /\ base = 1 * t8 /\ P = 1 * P
        /\ t4 \in Int /\ t4 # 0 /\ base = 2 * t4
        /\ t2 \in Int /\ t2 # 0 /\ base = 4 * t2
        /\ supply \in {P, 2 * P, 4 * P}
        /\ 1 \in Nat \ {0} /\ 2 \in Nat \ {0} /\ 4 \in Nat \ {0}
    BY <1>0
  <2> HIDE DEF t8, t4, t2, base, P
  <2>2. CASE supply = P
    BY <2>1, <2>2, Zenon
  <2>3. CASE supply = 2 * P
    BY <2>1, <2>3, Zenon
  <2>4. CASE supply = 4 * P
    BY <2>1, <2>4, Zenon
  <2> QED BY <2>1, <2>2, <2>3, <2>4
<1>2. traded = t /\ newSupply = (k + 1) * P
  <2>1. preciseDiv(base, k * P) = TruncDiv(base, k) /\ preciseMul(t, P) = t
    BY <1>0, <1>1, WholeSets
  <2>2. TruncDiv(base, k) = t
    BY <1>1, TruncExact
  <2>3. k * P + P = (k + 1) * P
    BY <1>0, <1>1
  <2> HIDE DEF base, P
  <2>4. traded = t
    BY <1>1, <2>1, <2>2
  <2> QED BY <1>1, <2>3, <2>4
<1> HIDE DEF base, traded, newSupply
<1>3. /\ amountIn \in Int /\ value \in Int /\ rounding \in Nat /\ spread \in Nat
      /\ amountIn >= 0 => value + spread <= amountIn + rounding
  <2> DEFINE paid1 == SwapQuote(market, Magnitude(t), t >= 0)
             newQuote1 == quote + (IF t >= 0 THEN -paid1 ELSE paid1)
             amountIn1 == calculateUSDCTransferInPreciseUnits(
                            Account(100, quote), <<[baseBalance |-> base, quoteBalance |-> quote]>>,
                            <<market>>, k * P, P, TRUE)
             value1 == closedValue(Account(100 + amountIn1, newQuote1),
                                   <<[baseBalance |-> base + t, quoteBalance |-> newQuote1]>>,
                                   <<market>>, (k + 1) * P, P, TRUE)
             spread1 == SwapQuote(market, Magnitude(t), TRUE) - SwapQuote(market, Magnitude(t), FALSE)
             rounding1 == IF t >= 0 THEN 1 + Quotient(Magnitude(newQuote1), P) ELSE 0
  <2>1. /\ amountIn1 \in Int /\ value1 \in Int /\ rounding1 \in Nat /\ spread1 \in Nat
        /\ amountIn1 >= 0 => value1 + spread1 <= amountIn1 + rounding1
    <3>1. TripPaysTheSpread(price, k, t, base)
      BY <1>0, <1>1, PerpRoundTrip
    <3> QED BY <3>1, Zenon DEF TripPaysTheSpread
  <2>2. paid = paid1 /\ newQuote = newQuote1
    BY <1>2, Zenon
  <2> HIDE DEF newQuote, newQuote1, paid, paid1
  <2>3. amountIn = amountIn1
    BY <1>1, Zenon
  <2> HIDE DEF amountIn, amountIn1
  <2>4. value = value1 /\ rounding = rounding1 /\ spread = spread1
    BY <1>2, <2>2, <2>3, Zenon
  <2> HIDE DEF value, value1, rounding, rounding1, spread, spread1
  <2> QED BY <2>1, <2>3, <2>4
<1>4. amountOut = Magnitude(value)
  BY Zenon DEF calculateUSDCTransferOutPreciseUnits
<1>5. inUsdc = TruncDiv(amountIn, UsdcScale) /\ outUsdc = TruncDiv(amountOut, UsdcScale)
  BY Zenon DEF calculateUSDCTransferIn, calculateUSDCTransferOut, toUSDCDecimals
<1> HIDE DEF spread, rounding, amountIn, value, amountOut, inUsdc, outUsdc
<1>6. issued.collateralBalance = 100 + amountIn
  BY DEF Account
<1> HIDE DEF issued
<1>7. ASSUME amountIn >= 0, value >= 0
      PROVE  /\ amountOut + spread <= amountIn + rounding
             /\ outUsdc <= inUsdc + Quotient(rounding, UsdcScale)
             /\ calculateExternalPositionUnit(issued, newSupply) * UsdcScale * newSupply
                  <= issued.collateralBalance * P
  <2>1. amountOut = value /\ amountOut \in Nat /\ amountIn \in Nat
    BY <1>3, <1>4, <1>7 DEF Magnitude
  <2>2. amountOut + spread <= amountIn + rounding /\ amountOut <= amountIn + rounding
    BY <1>3, <1>7, <2>1
  <2>3. UsdcScale \in Nat \ {0} /\ amountOut - amountIn <= rounding
    BY <1>3, <2>1, <2>2, PerpAssumption
  <2>4. inUsdc = amountIn \div UsdcScale /\ outUsdc = amountOut \div UsdcScale
    BY <1>5, <2>1, <2>3, TruncOfNaturals
  <2>5. amountOut \div UsdcScale - amountIn \div UsdcScale <= Quotient(rounding, UsdcScale)
    BY <1>3, <2>1, <2>3, QuotientsApart
  <2>6. /\ amountOut \div UsdcScale \in Nat /\ amountIn \div UsdcScale \in Nat
        /\ Quotient(rounding, UsdcScale) \in Nat
    BY <1>3, <2>1, <2>3, DivBounds, QuotientReaches
  <2>7. outUsdc <= inUsdc + Quotient(rounding, UsdcScale)
    <3> DEFINE x == amountOut \div UsdcScale
               y == amountIn \div UsdcScale
               z == Quotient(rounding, UsdcScale)
    <3> HIDE DEF x, y, z
    <3>1. x \in Nat /\ y \in Nat /\ z \in Nat /\ x - y <= z
      BY <2>5, <2>6 DEF x, y, z
    <3>2. x <= y + z
      BY <3>1
    <3> QED BY <2>4, <3>2 DEF x, y, z
  <2>8. 100 + amountIn \in Nat
    BY <2>1
  <2>9. calculateExternalPositionUnit(issued, newSupply) * UsdcScale * newSupply <= (100 + amountIn) * PreciseUnit
    BY <1>0, <1>6, <2>8, ExternalUnitIsBacked DEF newSupply
  <2> QED BY <1>6, <2>2, <2>7, <2>9
<1> QED
  BY <1>7, Zenon DEF RoundTripNoGain, P, market, base, quote, account, before, traded, paid, newQuote, amountIn,
     after, issued, newSupply, amountOut, value, spread, rounding, inUsdc, outUsdc

-----------------------------------------------------------------------------
(* The properties.                                                         *)

\* The operands are integers of either sign.
LEMMA OperandsAreIntegers == Spec => [](a \in Int /\ b \in Int)
<1>1. Operand \subseteq Int
  BY BoundAssumption DEF Operand
<1>2. Init => a \in Int /\ b \in Int
  BY <1>1 DEF Init
<1>3. a \in Int /\ b \in Int /\ [Next]_operands => (a \in Int /\ b \in Int)'
  BY <1>1 DEF Next, PickFirst, PickSecond, operands
<1> QED BY <1>2, <1>3, PTL DEF Spec

\* The roundings of PreciseUnitMath match the reference definitions for all
\* operands of both signs and every scale, and mathUtils.ts repeats them.
THEOREM RoundingsAreExact == Spec => []RoundingsMatchReference
<1>1. ASSUME a \in Int, b \in Int PROVE RoundingsMatchReference
  <2>1. DivDownFloors
    BY <1>1, DivDownIsReference DEF DivDownFloors
  <2>2. DivCeilAwayFromZero
    <3> SUFFICES ASSUME b # 0
                 PROVE  IsAwayFromZero(PreciseDivCeilInt(a, b), a * PreciseUnit, b)
      BY DEF DivCeilAwayFromZero
    <3>1. a * PreciseUnit \in Int
      BY <1>1, PreciseUnitAssumption
    <3> QED BY <1>1, <3>1, DivCeilMirrors, AwayFromZeroIsReference
  <2>3. MulCeilCovers
    <3> SUFFICES ASSUME a \in Nat, b \in Nat
                 PROVE  /\ PreciseMulCeil(a, b) * PreciseUnit >= a * b
                        /\ \A q \in Nat : q * PreciseUnit >= a * b
                                            => PreciseMulCeil(a, b) <= q
      BY <1>1, BoundAssumption DEF MulCeilCovers
    <3>1. /\ PreciseMulCeil(a, b) \in Nat
          /\ a * b <= PreciseUnit * PreciseMulCeil(a, b)
      BY PreciseMulCeilBounds
    <3> DEFINE c == PreciseMulCeil(a, b)
               p == a * b
    <3>2. p \in Nat /\ c \in Nat /\ p <= PreciseUnit * c
      BY <3>1
    <3>3. ASSUME NEW q \in Nat, q * PreciseUnit >= p PROVE c <= q
      <4>1. a * b <= q * PreciseUnit
        BY <3>2, <3>3, PreciseUnitAssumption
      <4> QED BY <4>1, MulCeilIsSmallest
    <3> HIDE DEF c, p
    <3>4. c * PreciseUnit >= p
      BY <3>2, PreciseUnitAssumption
    <3> QED BY <3>3, <3>4 DEF c, p
  <2>4. MathUtilsMirrorContract
    <3>1. /\ preciseMul(a, b) = PreciseMulInt(a, b)
          /\ preciseDiv(a, b) = PreciseDivInt(a, b)
      BY DEF preciseMul, PreciseMulInt, preciseDiv, PreciseDivInt
    <3>2. b # 0 => /\ preciseDivCeilInt(a, b) = PreciseDivCeilInt(a, b)
                   /\ divDown(a, b) = DivDown(a, b)
      BY <1>1, DivCeilMirrors, DivDownMirrors
    <3>3. a >= 0 /\ b >= 0 =>
            /\ preciseMul(a, b) = PreciseMul(a, b)
            /\ preciseMulCeil(a, b) = PreciseMulCeil(a, b)
            /\ b > 0 => preciseDivCeil(a, b) = PreciseDivCeil(a, b)
      <4> SUFFICES ASSUME a \in Nat, b \in Nat
                   PROVE /\ preciseMul(a, b) = PreciseMul(a, b)
                         /\ preciseMulCeil(a, b) = PreciseMulCeil(a, b)
                         /\ b > 0 => preciseDivCeil(a, b) = PreciseDivCeil(a, b)
        BY <1>1
      <4> QED BY UnsignedMirrors
    <3> QED BY <1>1, <3>1, <3>2, <3>3 DEF MathUtilsMirrorContract
  <2> QED BY <2>1, <2>2, <2>3, <2>4 DEF RoundingsMatchReference
<1> QED BY <1>1, OperandsAreIntegers, PTL

\* A unit of either sign is stored so that the stored position never exceeds
\* the one asked for, and comes back at most one base unit smaller, for every
\* multiplier that fees leave (_convertRealToVirtualUnit,
\* _convertVirtualToRealUnit).
THEOREM RoundTripIsTight == Spec => []RoundTripTight
<1>1. ASSUME a \in Int, b \in Int PROVE RoundTripTight
  <2> SUFFICES ASSUME b \in 1 .. PreciseUnit
               PROVE  /\ ConvertRealToVirtualUnit(a, b) * b <= a * PreciseUnit
                      /\ ConvertVirtualToRealUnit(ConvertRealToVirtualUnit(a, b), b)
                           \in {a - 1, a}
    BY DEF RoundTripTight
  <2> DEFINE v == ConvertRealToVirtualUnit(a, b)
             back == ConvertVirtualToRealUnit(v, b)
  <2>1. v \in Int /\ b * v <= a * PreciseUnit
    BY <1>1, VirtualUnitIsFloor, PreciseUnitAssumption
  <2>2. back \in Int /\ back <= a /\ a <= back + 1
    BY <1>1, RoundTripLosesAtMostOne
  <2> HIDE DEF back
  <2>3. back \in {a - 1, a}
    BY <1>1, <2>2
  <2>4. v * b = b * v
    <3> HIDE DEF v
    <3> QED BY <1>1, <2>1
  <2> QED BY <2>1, <2>3, <2>4 DEF back
<1> QED BY <1>1, OperandsAreIntegers, PTL

\* Every quote of what a dilution of the supply does agrees with the contract
\* in the direction its rounding is for, whatever the scale, the length of a
\* year and the bound on the operands (feeModuleUtils.ts,
\* getExpectedIssuePositionMultiplier, getExpectedRedeemPositionMultiplier).
THEOREM DilutionIsQuotedRight == Spec => []DilutionQuotesAgree
<1>0. PreciseUnit \in Nat \ {0} /\ OneYear \in Nat \ {0}
  BY PreciseUnitAssumption, OneYearAssumption
<1>1. ASSUME a \in Int, b \in Int PROVE DilutionQuotesAgree
  <2>1. SplitAccrualNeverMore
    <3> SUFFICES ASSUME NEW rate \in Percentage, NEW supply \in 0 .. Bound,
                        a \in 0 .. Bound, b \in a .. Bound,
                        getStreamingFee(rate, 0, b, {}) < PreciseUnit
                 PROVE  /\ getStreamingFeeInflationAmount(getStreamingFee(rate, 0, a, {}), supply)
                             + getStreamingFeeInflationAmount(getStreamingFee(rate, a, b, {}),
                                 supply + getStreamingFeeInflationAmount(
                                            getStreamingFee(rate, 0, a, {}), supply))
                             <= getStreamingFeeInflationAmount(getStreamingFee(rate, 0, b, {}), supply)
                        /\ getStreamingFee(rate, 0, b, {0}) = 0
      BY DEF SplitAccrualNeverMore
    <3>1. a \in Nat /\ b \in Nat /\ a <= b /\ supply \in Nat
      BY BoundAssumption
    <3>2. getStreamingFee(rate, 0, b, {0}) = 0
      BY <3>1, PassedZero
    <3> QED BY <3>1, <3>2, SplitMintsNoMore
  <2>2. FeeIsShareOfDilutedSupply
    <3>1. a >= 0 => a \in Nat
      BY <1>1
    <3> QED BY <3>1, ShareOfDilutedSupply DEF FeeIsShareOfDilutedSupply
  <2>3. PostFeeUnitsMatchContract
    <3> SUFFICES ASSUME NEW percent \in Percentage
                 PROVE  getPostFeePositionUnits(<<a, b>>, percent)
                          = <<ConvertVirtualToRealUnit(a, PreciseMul(PreciseUnit, PreciseUnit - percent)),
                              ConvertVirtualToRealUnit(b, PreciseMul(PreciseUnit, PreciseUnit - percent))>>
      BY DEF PostFeeUnitsMatchContract
    <3> DEFINE M == PreciseUnit - percent
               U(x) == IF x >= 0 THEN preciseMul(x, M) ELSE preciseMulCeilInt(x, M)
    <3>1. M \in Nat \ {0}
      BY <1>0 DEF Percentage
    <3>2. getPostFeePositionUnits(<<a, b>>, percent) = [i \in 1 .. 2 |-> U(<<a, b>>[i])]
      BY DEF getPostFeePositionUnits
    <3> HIDE DEF M
    <3>3. PreciseMul(PreciseUnit, M) = M
      <4>1. PreciseUnit * M \in Int /\ PreciseUnit * M < PreciseUnit * M + PreciseUnit
        BY <1>0, <3>1
      <4>2. (PreciseUnit * M) \div PreciseUnit = M
        BY <1>0, <3>1, <4>1, DivUnique
      <4> QED BY <4>2 DEF PreciseMul
    <3>4. U(a) = ConvertVirtualToRealUnit(a, M) /\ U(b) = ConvertVirtualToRealUnit(b, M)
      BY <1>1, <3>1, PostFeeUnit
    <3> HIDE DEF U
    <3>5. [i \in 1 .. 2 |-> U(<<a, b>>[i])] = <<U(a), U(b)>>
      OBVIOUS
    <3> QED BY <3>2, <3>3, <3>4, <3>5 DEF M
  <2>4. MultiplierQuoteConservative
    <3> SUFFICES ASSUME NEW multiplier \in 1 .. 2 * PreciseUnit
                 PROVE  /\ 0 <= a /\ a <= b /\ b > 0 =>
                             GetIssuePositionMultiplier(multiplier, a, b)
                               - getExpectedIssuePositionMultiplier(multiplier, a, b)
                               \in 0 .. Quotient(multiplier, PreciseUnit)
                        /\ 0 < b /\ b <= a =>
                             GetRedeemPositionMultiplier(multiplier, a, b)
                               - getExpectedRedeemPositionMultiplier(multiplier, a, b)
                               \in 0 .. Quotient(multiplier, PreciseUnit)
      BY DEF MultiplierQuoteConservative
    <3>1. multiplier \in Nat \ {0}
      BY <1>0
    <3>2. /\ 0 <= a /\ a <= b /\ b > 0 => a \in Nat /\ b \in Nat \ {0}
          /\ 0 < b /\ b <= a => a \in Nat /\ b \in Nat \ {0}
      BY <1>1
    <3> QED BY <3>1, <3>2, MultiplierQuotes
  <2>5. IssueQuoteAgrees /\ RedeemQuoteAgrees
    BY <1>1, IssueQuotes, RedeemQuotes
  <2> QED BY <2>1, <2>2, <2>3, <2>4, <2>5 DEF DilutionQuotesAgree
<1> QED BY <1>1, OperandsAreIntegers, PTL

\* What is quoted at the price of a market can be carried out at that price,
\* for every scale and for operands of any size: the reserves of assets whose
\* addresses are written in one case come in the order of the assets, one trade
\* engages a percentage or equalizes a pair, an issuance through exchanges costs
\* no more than was paid in and buying and selling back gains nothing, the USDC
\* quotes keep a base unit of slack at any prices of the quoter, and a Set with
\* longs and shorts pays the spread both ways, reaches its leverage, only passes
\* funding on and, while its margin is not used up, stays within it
\* (uniswapUtils.ts, exchangeIssuanceUtils.ts, perpV2Utils.ts).
THEOREM PricesAreQuotedRight == Spec => []PricedQuotesSound
<1>1. ASSUME a \in Int, b \in Int
      PROVE  PricedQuotesSound
  <2>1. ReservesFollowAssetsInOneCase /\ EngageReachesPercentage /\ RebalanceEqualizesValue
    BY <1>1, ReserveOrder, EngageQuotes, RebalanceQuotes
  <2>2. ExactInputQuoteAffordable /\ NoRoundTripProfit /\ UsdcQuotesKeepSlack
    BY <1>1, ExactInputQuotes, RoundTripQuotes, UsdcQuotes
  <2>3. SpotPriceCancels /\ PerpRoundTripNoGain /\ LeverUpReachesRatio
    BY <1>1, SpotQuotes, PerpRoundTripQuotes, LeverQuotes
  <2>4. FundingIsZeroSum /\ MaxIssueWithinMargin
    BY <1>1, FundingQuotes, MarginQuotes
  <2> QED BY <2>1, <2>2, <2>3, <2>4 DEF PricedQuotesSound
<1> QED BY <1>1, OperandsAreIntegers, PTL

=============================================================================
