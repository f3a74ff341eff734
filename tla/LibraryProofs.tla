---------------------------- MODULE LibraryProofs ----------------------------
(***************************************************************************)
(* The facts every other proof cites about the two libraries.  Which way   *)
(* each conversion of PreciseUnitMath rounds and by how much, for every    *)
(* scale; what the array operations of AddressArrayUtils do to the lists   *)
(* that the Controller and the SetToken keep next to a mapping, mostly     *)
(* without repetitions; and what a sum over a finite set adds up to.       *)
(***************************************************************************)
EXTENDS PreciseUnitMath, AddressArrayUtils, FiniteSetTheorems, TLAPS

-----------------------------------------------------------------------------
(* PreciseUnitMath.                                                        *)

\* \div on naturals is the floor of the quotient.
LEMMA DivBounds ==
  ASSUME NEW a \in Nat, NEW b \in Nat \ {0}
  PROVE  /\ a \div b \in Nat
         /\ b * (a \div b) <= a
         /\ a < b * (a \div b) + b
  OBVIOUS

\* A quotient is determined by the interval it falls in.
LEMMA DivUnique ==
  ASSUME NEW a \in Int, NEW b \in Nat \ {0}, NEW x \in Int,
         b * x <= a, a < b * x + b
  PROVE  a \div b = x
<1>1. /\ a \div b \in Int
      /\ b * (a \div b) <= a
      /\ a < b * (a \div b) + b
  OBVIOUS
<1> DEFINE q == a \div b
<1>2. q \in Int /\ b * q < b * x + b /\ b * x < b * q + b
  BY <1>1
<1> HIDE DEF q
<1>3. b * q < b * (x + 1) /\ b * x < b * (q + 1)
  BY <1>2
<1>4. q < x + 1
  <2>1. CASE q >= x + 1
    <3>1. b * q >= b * (x + 1)
      BY <1>2, <2>1
    <3> QED BY <3>1, <1>3, <1>2
  <2> QED BY <2>1, <1>2
<1>5. x < q + 1
  <2>1. CASE x >= q + 1
    <3>1. b * x >= b * (q + 1)
      BY <1>2, <2>1
    <3> QED BY <3>1, <1>3, <1>2
  <2> QED BY <2>1, <1>2
<1> QED BY <1>4, <1>5, <1>2 DEF q

\* divDown by a positive divisor is the floor of the quotient for dividends of
\* either sign: a negative position (a debt) is rounded up in magnitude.
LEMMA DivDownByPositive ==
  ASSUME NEW a \in Int, NEW b \in Nat \ {0}
  PROVE  DivDown(a, b) = a \div b
<1>1. CASE a >= 0
  <2>1. TruncDiv(a, b) = a \div b /\ ~SignsDiffer(a, b)
    BY <1>1 DEF TruncDiv, SignsDiffer, Magnitude
  <2> QED BY <2>1 DEF DivDown
<1>2. CASE a < 0
  <2> DEFINE q == (-a) \div b
  <2>1. q \in Nat /\ b * q <= -a /\ -a < b * q + b
    BY <1>2, DivBounds
  <2>2. TruncDiv(a, b) = -q /\ SignsDiffer(a, b)
    BY <1>2 DEF TruncDiv, SignsDiffer, Magnitude
  <2>3. TruncMod(a, b) = a - b * (-q)
    BY <2>2 DEF TruncMod
  <2>4. DivDown(a, b) = IF a - b * (-q) # 0 THEN -q - 1 ELSE -q
    BY <2>2, <2>3 DEF DivDown
  <2> HIDE DEF q
  <2>5. b * (-q) = -(b * q) /\ b * (-q - 1) = -(b * q) - b
    BY <2>1
  <2>6. CASE a - b * (-q) # 0
    <3>1. b * (-q - 1) <= a /\ a < b * (-q - 1) + b
      BY <2>1, <2>5, <2>6
    <3>2. a \div b = -q - 1
      BY <3>1, <2>1, DivUnique
    <3> QED BY <3>2, <2>4, <2>6
  <2>7. CASE ~(a - b * (-q) # 0)
    <3>1. b * (-q) <= a /\ a < b * (-q) + b
      BY <2>1, <2>5, <2>7
    <3>2. a \div b = -q
      BY <3>1, <2>1, DivUnique
    <3> QED BY <3>2, <2>4, <2>7
  <2> QED BY <2>6, <2>7
<1> QED BY <1>1, <1>2

\* divDown is the floor of the quotient for each of the four sign combinations
\* of dividend and divisor.  TLA+'s \div takes a positive divisor, so the
\* quotient by a negative one is written with both signs turned.
THEOREM DivDownIsFloor ==
  ASSUME NEW a \in Int, NEW b \in Int \ {0}
  PROVE  DivDown(a, b) = IF b > 0 THEN a \div b ELSE (-a) \div (-b)
<1>1. CASE b > 0
  BY <1>1, DivDownByPositive
<1>2. CASE b < 0
  <2>0. -a \in Int /\ -b \in Nat \ {0}
    BY <1>2
  <2>1. CASE a = 0
    <3>1. Magnitude(a) \div Magnitude(b) = 0 /\ (-a) \div (-b) = 0
      BY <1>2, <2>1 DEF Magnitude
    <3>2. TruncDiv(a, b) = 0
      BY <3>1 DEF TruncDiv
    <3>3. TruncMod(a, b) = 0
      BY <2>1, <3>2 DEF TruncMod
    <3> QED BY <1>2, <3>1, <3>2, <3>3 DEF DivDown
  <2>2. CASE a # 0
    <3>1. SignsDiffer(-a, -b) = SignsDiffer(a, b)
      BY <1>2, <2>2 DEF SignsDiffer
    <3>2. Magnitude(-a) = Magnitude(a) /\ Magnitude(-b) = Magnitude(b)
      BY DEF Magnitude
    <3>3. TruncDiv(-a, -b) = TruncDiv(a, b) /\ TruncDiv(a, b) \in Int
      <4>1. Magnitude(a) \in Nat /\ Magnitude(b) \in Nat \ {0}
        BY DEF Magnitude
      <4>2. Magnitude(a) \div Magnitude(b) \in Nat
        BY <4>1, DivBounds
      <4> QED BY <3>1, <3>2, <4>2 DEF TruncDiv
    <3>4. TruncMod(-a, -b) = -TruncMod(a, b) /\ TruncMod(a, b) \in Int
      <4> DEFINE q == TruncDiv(a, b)
      <4>1. q \in Int
        BY <3>3
      <4>2. TruncMod(a, b) = a - b * q /\ TruncMod(-a, -b) = (-a) - (-b) * q
        BY <3>3 DEF TruncMod
      <4> HIDE DEF q
      <4>3. b * q \in Int /\ (-b) * q = -(b * q)
        BY <4>1
      <4> QED BY <4>2, <4>3
    <3>5. DivDown(-a, -b) = DivDown(a, b)
      BY <3>1, <3>3, <3>4 DEF DivDown
    <3> QED BY <1>2, <2>0, <3>5, DivDownByPositive
  <2> QED BY <2>1, <2>2
<1> QED BY <1>1, <1>2

\* preciseMul rounds down and loses less than one.
LEMMA PreciseMulBounds ==
  ASSUME NEW a \in Nat, NEW b \in Nat
  PROVE  /\ PreciseMul(a, b) \in Nat
         /\ PreciseUnit * PreciseMul(a, b) <= a * b
         /\ a * b < PreciseUnit * PreciseMul(a, b) + PreciseUnit
<1>1. a * b \in Nat
  OBVIOUS
<1> QED BY <1>1, DivBounds, PreciseUnitAssumption DEF PreciseMul

\* preciseMulCeil never charges less than the exact product, nor one more.
LEMMA PreciseMulCeilBounds ==
  ASSUME NEW a \in Nat, NEW b \in Nat
  PROVE  /\ PreciseMulCeil(a, b) \in Nat
         /\ a * b <= PreciseUnit * PreciseMulCeil(a, b)
         /\ PreciseUnit * PreciseMulCeil(a, b) < a * b + PreciseUnit
<1>1. CASE a = 0 \/ b = 0
  BY <1>1, PreciseUnitAssumption DEF PreciseMulCeil
<1>2. CASE ~(a = 0 \/ b = 0)
  <2> DEFINE n == a * b - 1
             q == n \div PreciseUnit
  <2>1. a * b \in Nat \ {0}
    BY <1>2
  <2>2. n \in Nat
    BY <2>1
  <2> HIDE DEF n
  <2>3. q \in Nat /\ PreciseUnit * q <= n /\ n < PreciseUnit * q + PreciseUnit
    BY <2>2, DivBounds, PreciseUnitAssumption
  <2>4. PreciseMulCeil(a, b) = q + 1
    BY <1>2 DEF PreciseMulCeil, n
  <2> HIDE DEF q
  <2>5. PreciseUnit * (q + 1) = PreciseUnit * q + PreciseUnit
    BY <2>3, PreciseUnitAssumption
  <2>6. a * b = n + 1
    BY <2>1 DEF n
  <2> QED BY <2>2, <2>3, <2>4, <2>5, <2>6, PreciseUnitAssumption
<1> QED BY <1>1, <1>2

\* preciseDiv rounds down.
LEMMA PreciseDivBounds ==
  ASSUME NEW a \in Nat, NEW b \in Nat \ {0}
  PROVE  /\ PreciseDiv(a, b) \in Nat
         /\ b * PreciseDiv(a, b) <= a * PreciseUnit
         /\ a * PreciseUnit < b * PreciseDiv(a, b) + b
<1>1. a * PreciseUnit \in Nat
  BY PreciseUnitAssumption
<1> QED BY <1>1, DivBounds DEF PreciseDiv

\* preciseDivCeil rounds up: what it returns, times the divisor, covers the
\* dividend.
LEMMA PreciseDivCeilBounds ==
  ASSUME NEW a \in Nat, NEW b \in Nat \ {0}
  PROVE  /\ PreciseDivCeil(a, b) \in Nat
         /\ a * PreciseUnit <= b * PreciseDivCeil(a, b)
         /\ a = 0 => PreciseDivCeil(a, b) = 0
<1>1. CASE a = 0
  BY <1>1, PreciseUnitAssumption DEF PreciseDivCeil
<1>2. CASE a > 0
  <2> DEFINE n == a * PreciseUnit - 1
             q == n \div b
  <2>1. a * PreciseUnit \in Nat \ {0}
    BY <1>2, PreciseUnitAssumption
  <2>2. n \in Nat /\ a * PreciseUnit = n + 1
    BY <2>1
  <2>3. PreciseDivCeil(a, b) = q + 1
    BY <1>2 DEF PreciseDivCeil
  <2> HIDE DEF n
  <2>4. q \in Nat /\ n < b * q + b
    BY <2>2, DivBounds
  <2> HIDE DEF q
  <2>5. b * (q + 1) = b * q + b
    BY <2>4
  <2> QED BY <1>2, <2>2, <2>3, <2>4, <2>5
<1> QED BY <1>1, <1>2

\* A real unit never exceeds its virtual unit times the multiplier.
LEMMA VirtualToRealBounds ==
  ASSUME NEW v \in Nat, NEW m \in Nat
  PROVE  /\ ConvertVirtualToRealUnit(v, m) \in Nat
         /\ PreciseUnit * ConvertVirtualToRealUnit(v, m) <= v * m
         /\ v * m < PreciseUnit * ConvertVirtualToRealUnit(v, m) + PreciseUnit
<1>1. v * m \in Nat
  OBVIOUS
<1>2. ConvertVirtualToRealUnit(v, m) = (v * m) \div PreciseUnit
  BY <1>1, DivDownByPositive, PreciseUnitAssumption
     DEF ConvertVirtualToRealUnit, ConservativePreciseMul
<1> QED BY <1>1, <1>2, DivBounds, PreciseUnitAssumption

\* The virtual unit stored for a real unit never claims more than it.
LEMMA RealToVirtualBounds ==
  ASSUME NEW r \in Nat, NEW m \in Nat \ {0}
  PROVE  /\ ConvertRealToVirtualUnit(r, m) \in Nat
         /\ ConvertRealToVirtualUnit(r, m) * m <= r * PreciseUnit
         /\ r * PreciseUnit < ConvertRealToVirtualUnit(r, m) * m + m
<1>1. r * PreciseUnit \in Nat
  BY PreciseUnitAssumption
<1>2. ConvertRealToVirtualUnit(r, m) = (r * PreciseUnit) \div m
  BY <1>1, DivDownByPositive DEF ConvertRealToVirtualUnit, ConservativePreciseDiv
<1>3. /\ (r * PreciseUnit) \div m \in Nat
      /\ m * ((r * PreciseUnit) \div m) <= r * PreciseUnit
      /\ r * PreciseUnit < m * ((r * PreciseUnit) \div m) + m
  BY <1>1, DivBounds
<1> DEFINE q == (r * PreciseUnit) \div m
<1>4. q \in Nat /\ m * q = q * m
  BY <1>3
<1> QED BY <1>2, <1>3, <1>4

\* \div by a positive number is the floor for dividends of either sign.
LEMMA FloorBounds ==
  ASSUME NEW a \in Int, NEW b \in Nat \ {0}
  PROVE  /\ a \div b \in Int
         /\ b * (a \div b) <= a
         /\ a < b * (a \div b) + b
  OBVIOUS

\* A product with a positive factor has the sign of the other factor.
LEMMA ProductSign ==
  ASSUME NEW a \in Int, NEW b \in Nat \ {0}
  PROVE  /\ a * b \in Int
         /\ a * b > 0 <=> a > 0
         /\ a * b < 0 <=> a < 0
  OBVIOUS

\* What _convertVirtualToRealUnit returns: the floor of the product.
LEMMA RealUnitIsFloor ==
  ASSUME NEW v \in Int, NEW m \in Nat
  PROVE  /\ ConvertVirtualToRealUnit(v, m) \in Int
         /\ PreciseUnit * ConvertVirtualToRealUnit(v, m) <= v * m
         /\ v * m < PreciseUnit * ConvertVirtualToRealUnit(v, m) + PreciseUnit
<1>1. v * m \in Int
  OBVIOUS
<1>2. ConvertVirtualToRealUnit(v, m) = (v * m) \div PreciseUnit
  BY <1>1, DivDownByPositive, PreciseUnitAssumption
     DEF ConvertVirtualToRealUnit, ConservativePreciseMul
<1> QED BY <1>1, <1>2, FloorBounds, PreciseUnitAssumption

\* What _convertRealToVirtualUnit returns: the floor of the quotient.
LEMMA VirtualUnitIsFloor ==
  ASSUME NEW r \in Int, NEW m \in Nat \ {0}
  PROVE  /\ ConvertRealToVirtualUnit(r, m) \in Int
         /\ m * ConvertRealToVirtualUnit(r, m) <= r * PreciseUnit
         /\ r * PreciseUnit < m * ConvertRealToVirtualUnit(r, m) + m
<1>1. r * PreciseUnit \in Int
  BY PreciseUnitAssumption
<1>2. ConvertRealToVirtualUnit(r, m) = (r * PreciseUnit) \div m
  BY <1>1, DivDownByPositive
     DEF ConvertRealToVirtualUnit, ConservativePreciseDiv
<1> QED BY <1>1, <1>2, FloorBounds

\* A floor by a positive divisor: zero for zero, never positive for a
\* negative dividend and never negative for a positive one.
LEMMA FloorSign ==
  ASSUME NEW a \in Int, NEW b \in Nat \ {0}, NEW q \in Int,
         b * q <= a, a < b * q + b
  PROVE  /\ a = 0 => q = 0
         /\ a >= 0 => q >= 0
         /\ a < 0 => q < 0
<1>1. ASSUME q >= 1 PROVE b * q >= b
  BY <1>1
<1>2. ASSUME q <= -1 PROVE b * q + b <= 0
  BY <1>2
<1>3. ASSUME q >= 0 PROVE b * q >= 0
  BY <1>3
<1> QED BY <1>1, <1>2, <1>3

\* Writing a unit and reading it back, as every position edit followed by a
\* read does, loses at most one base unit per Set and never gains: this is
\* what editDefaultPositionUnit followed by getDefaultPositionRealUnit, or
\* their external counterparts for a debt, return for every multiplier that
\* fees can leave behind.
THEOREM RoundTripLosesAtMostOne ==
  ASSUME NEW r \in Int, NEW m \in 1 .. PreciseUnit
  PROVE  LET back == ConvertVirtualToRealUnit(ConvertRealToVirtualUnit(r, m), m)
         IN  back \in Int /\ back <= r /\ r <= back + 1
<1> DEFINE v == ConvertRealToVirtualUnit(r, m)
           back == ConvertVirtualToRealUnit(v, m)
<1>0. m \in Nat \ {0} /\ m <= PreciseUnit /\ PreciseUnit \in Nat \ {0}
  BY PreciseUnitAssumption
<1>1. v \in Int /\ m * v <= r * PreciseUnit /\ r * PreciseUnit < m * v + m
  BY <1>0, VirtualUnitIsFloor
<1>2. /\ back \in Int
      /\ PreciseUnit * back <= v * m
      /\ v * m < PreciseUnit * back + PreciseUnit
  BY <1>0, <1>1, RealUnitIsFloor
<1> HIDE DEF back, v
<1>3. v * m \in Int /\ m * v = v * m
  BY <1>0, <1>1
<1>4. PreciseUnit * back <= PreciseUnit * r
  BY <1>0, <1>1, <1>2, <1>3
<1>5. PreciseUnit * r < PreciseUnit * (back + 2)
  BY <1>0, <1>1, <1>2, <1>3
<1>6. back <= r
  BY <1>0, <1>2, <1>4
<1>7. r < back + 2
  BY <1>0, <1>2, <1>5
<1> QED BY <1>2, <1>6, <1>7 DEF back, v

-----------------------------------------------------------------------------
(* AddressArrayUtils.                                                      *)

\* A push of a new address (push in addModule, addComponent, ...) adds that
\* address and keeps the array free of repetitions.
LEMMA AppendAdds ==
  ASSUME NEW S, NEW A \in Seq(S), NEW a \in S,
         ~HasDuplicate(A), a \notin Elements(A)
  PROVE  /\ Append(A, a) \in Seq(S)
         /\ Elements(Append(A, a)) = Elements(A) \cup {a}
         /\ ~HasDuplicate(Append(A, a))
<1> DEFINE B == Append(A, a)
<1>1. /\ B \in Seq(S)
      /\ DOMAIN B = 1 .. Len(A) + 1
      /\ DOMAIN A = 1 .. Len(A)
      /\ Len(A) \in Nat
      /\ \A i \in 1 .. Len(A) : B[i] = A[i]
      /\ B[Len(A) + 1] = a
  OBVIOUS
<1>2. Elements(B) = Elements(A) \cup {a}
  <2>1. ASSUME NEW x \in Elements(B) PROVE x \in Elements(A) \cup {a}
    <3>1. PICK i \in DOMAIN B : x = B[i]
      BY <2>1 DEF Elements
    <3>2. CASE i = Len(A) + 1
      BY <1>1, <3>1, <3>2
    <3>3. CASE i # Len(A) + 1
      <4>1. i \in DOMAIN A /\ x = A[i]
        BY <1>1, <3>1, <3>3
      <4> QED BY <4>1 DEF Elements
    <3> QED BY <3>2, <3>3
  <2>2. ASSUME NEW x \in Elements(A) PROVE x \in Elements(B)
    <3>1. PICK i \in DOMAIN A : x = A[i]
      BY <2>2 DEF Elements
    <3>2. i \in DOMAIN B /\ x = B[i]
      BY <1>1, <3>1
    <3> QED BY <3>2 DEF Elements
  <2>3. a \in Elements(B)
    <3>1. Len(A) + 1 \in DOMAIN B /\ a = B[Len(A) + 1]
      BY <1>1
    <3> QED BY <3>1 DEF Elements
  <2> QED BY <2>1, <2>2, <2>3
<1>3. ~HasDuplicate(B)
  <2> SUFFICES ASSUME NEW i \in DOMAIN B, NEW j \in DOMAIN B,
                      i < j, B[i] = B[j]
               PROVE  FALSE
    BY DEF HasDuplicate
  <2>1. i \in DOMAIN A /\ B[i] = A[i]
    BY <1>1
  <2>2. CASE j = Len(A) + 1
    <3>1. A[i] = a
      BY <1>1, <2>1, <2>2
    <3> QED BY <2>1, <3>1 DEF Elements
  <2>3. CASE j # Len(A) + 1
    <3>1. j \in DOMAIN A /\ B[j] = A[j]
      BY <1>1, <2>3
    <3> QED BY <2>1, <3>1 DEF HasDuplicate
  <2> QED BY <2>2, <2>3
<1> QED BY <1>1, <1>2, <1>3

\* indexOf finds the one slot of an address that is in the array.
LEMMA IndexOfFinds ==
  ASSUME NEW S, NEW A \in Seq(S), NEW a \in Elements(A), ~HasDuplicate(A)
  PROVE  /\ IndexOf(A, a) \in 1 .. Len(A)
         /\ A[IndexOf(A, a)] = a
         /\ \A i \in 1 .. Len(A) : A[i] = a => i = IndexOf(A, a)
<1>1. DOMAIN A = 1 .. Len(A) /\ Len(A) \in Nat
  OBVIOUS
<1>2. PICK k \in DOMAIN A : A[k] = a
  BY DEF Elements
<1>3. \A i \in DOMAIN A : A[i] = a => i = k
  <2> SUFFICES ASSUME NEW i \in DOMAIN A, A[i] = a, i # k PROVE FALSE
    OBVIOUS
  <2>1. CASE i < k
    BY <1>2, <2>1 DEF HasDuplicate
  <2>2. CASE k < i
    BY <1>2, <2>2 DEF HasDuplicate
  <2> QED BY <1>1, <2>1, <2>2
<1>4. k \in DOMAIN A /\ A[k] = a /\ \A j \in 1 .. k - 1 : A[j] # a
  <2>1. \A j \in 1 .. k - 1 : j \in DOMAIN A /\ j # k
    BY <1>1
  <2> QED BY <1>2, <1>3, <2>1
<1>5. IndexOf(A, a) \in DOMAIN A /\ A[IndexOf(A, a)] = a
  BY <1>4 DEF IndexOf
<1> QED BY <1>1, <1>3, <1>5

\* indexOf finds a slot of an address that is in the array, repeated or not.
LEMMA IndexOfHolds ==
  ASSUME NEW S, NEW A \in Seq(S), NEW a \in Elements(A)
  PROVE  IndexOf(A, a) \in 1 .. Len(A) /\ A[IndexOf(A, a)] = a
<1> DEFINE Slots == {i \in 1 .. Len(A) : A[i] = a}
           Less  == OpToRel(<, Nat)
<1>1. DOMAIN A = 1 .. Len(A) /\ Len(A) \in Nat
  OBVIOUS
<1>2. Slots \subseteq Nat /\ Slots # {}
  BY <1>1 DEF Elements
<1>3. IsWellFoundedOn(Less, Nat)
  BY NatLessThanWellFounded
<1>4. \A i, j \in Nat : i < j => <<i, j>> \in Less
  BY DEF OpToRel
<1> HIDE DEF Less
<1>5. PICK k \in Slots : \A i \in Slots : <<i, k>> \notin Less
  <2> HIDE DEF Slots
  <2> QED BY <1>2, <1>3, WFMin
<1>6. ASSUME NEW j \in 1 .. k - 1 PROVE A[j] # a
  <2>1. j \in Nat /\ k \in Nat /\ j < k /\ j \in 1 .. Len(A)
    BY <1>1, <1>5
  <2> QED BY <1>4, <1>5, <2>1
<1>7. k \in DOMAIN A /\ A[k] = a
  BY <1>1, <1>5
<1> QED BY <1>1, <1>6, <1>7 DEF IndexOf

\* remove, which keeps the order: every other address stays, and the slots of
\* the result are slots of the array other than the one found, in their order
\* (Controller.removeModule and its siblings).
LEMMA RemoveShifts ==
  ASSUME NEW S, NEW A \in Seq(S), NEW a \in Elements(A)
  PROVE  /\ Remove(A, a) \in Seq(S)
         /\ Elements(A) \ {a} \subseteq Elements(Remove(A, a))
         /\ \A i \in DOMAIN Remove(A, a) : \E p \in DOMAIN A \ {IndexOf(A, a)} :
              /\ Remove(A, a)[i] = A[p]
              /\ \A j \in DOMAIN Remove(A, a) :
                   i < j => \E q \in DOMAIN A : p < q /\ Remove(A, a)[j] = A[q]
<1> DEFINE n == Len(A)
           k == IndexOf(A, a)
           B == Remove(A, a)
<1>1. n \in Nat /\ DOMAIN A = 1 .. n /\ \A i \in 1 .. n : A[i] \in S
  OBVIOUS
<1>2. k \in 1 .. n /\ A[k] = a
  BY IndexOfHolds
<1>3. n - 1 \in Nat
  BY <1>1, <1>2
<1>4. B = [i \in 1 .. n - 1 |-> IF i < k THEN A[i] ELSE A[i + 1]]
  BY DEF Remove
<1> HIDE DEF k, B, n
<1>5. \A i \in 1 .. n - 1 : i \in 1 .. n /\ i + 1 \in 1 .. n
  BY <1>1, <1>3
<1>6. \A i \in 1 .. n - 1 : B[i] = IF i < k THEN A[i] ELSE A[i + 1]
  BY <1>4
<1>7. DOMAIN B = 1 .. n - 1
  BY <1>4
<1>8. B \in Seq(S)
  <2>1. B \in [1 .. n - 1 -> S]
    BY <1>4, <1>1, <1>5
  <2> QED BY <1>3, <2>1
<1>9. ASSUME NEW x \in Elements(A), x # a PROVE x \in Elements(B)
  <2>1. PICK j \in 1 .. n : x = A[j]
    BY <1>1, <1>9 DEF Elements
  <2>2. j # k
    BY <1>2, <1>9, <2>1
  <2>3. PICK i \in 1 .. n - 1 : B[i] = A[j]
    <3>1. CASE j < k
      <4>1. j \in 1 .. n - 1
        BY <1>1, <1>2, <3>1
      <4> QED BY <1>6, <3>1, <4>1
    <3>2. CASE j > k
      <4>1. j - 1 \in 1 .. n - 1 /\ ~(j - 1 < k) /\ (j - 1) + 1 = j
        BY <1>1, <1>2, <3>2
      <4> QED BY <1>6, <4>1
    <3> QED BY <1>1, <1>2, <2>2, <3>1, <3>2
  <2> QED BY <1>7, <2>1, <2>3 DEF Elements
<1>10. ASSUME NEW i \in DOMAIN B
       PROVE  \E p \in DOMAIN A \ {k} :
                /\ B[i] = A[p]
                /\ \A j \in DOMAIN B : i < j => \E q \in DOMAIN A : p < q /\ B[j] = A[q]
  <2> DEFINE at(x) == IF x < k THEN x ELSE x + 1
  <2>1. \A x \in DOMAIN B : at(x) \in DOMAIN A /\ B[x] = A[at(x)]
    BY <1>1, <1>5, <1>6, <1>7
  <2>2. at(i) # k /\ \A j \in DOMAIN B : i < j => at(i) < at(j)
    BY <1>1, <1>2, <1>3, <1>7
  <2> HIDE DEF at
  <2> QED BY <2>1, <2>2
<1>11. Elements(A) \ {a} \subseteq Elements(B)
  BY <1>9
<1> QED BY <1>8, <1>10, <1>11, Zenon DEF B, k

\* removeStorage, which moves the last element into the freed slot, has the
\* same effect on the set of elements (SetToken.removeModule, removeComponent,
\* unregisterFromIssuanceModule).
LEMMA RemoveStorageRemoves ==
  ASSUME NEW S, NEW A \in Seq(S), NEW a \in Elements(A), ~HasDuplicate(A)
  PROVE  /\ RemoveStorage(A, a) \in Seq(S)
         /\ Elements(RemoveStorage(A, a)) = Elements(A) \ {a}
         /\ ~HasDuplicate(RemoveStorage(A, a))
<1> DEFINE n == Len(A)
           k == IndexOf(A, a)
           B == RemoveStorage(A, a)
<1>1. n \in Nat /\ DOMAIN A = 1 .. n /\ \A i \in 1 .. n : A[i] \in S
  OBVIOUS
<1>2. k \in 1 .. n /\ A[k] = a /\ \A i \in 1 .. n : A[i] = a => i = k
  BY IndexOfFinds
<1>3. n - 1 \in Nat /\ n \in 1 .. n
  BY <1>1, <1>2
<1>4. B = [i \in 1 .. n - 1 |-> IF i = k THEN A[n] ELSE A[i]]
  BY DEF RemoveStorage
<1> HIDE DEF k, B, n
<1>5. \A i \in 1 .. n - 1 : i \in 1 .. n /\ i # n
  BY <1>1, <1>3
<1>6. \A i \in 1 .. n - 1 : B[i] = IF i = k THEN A[n] ELSE A[i]
  BY <1>4
<1>7. DOMAIN B = 1 .. n - 1
  BY <1>4
<1>8. B \in Seq(S)
  <2>1. B \in [1 .. n - 1 -> S]
    BY <1>4, <1>1, <1>3, <1>5
  <2> QED BY <1>3, <2>1
<1>9. Elements(B) = Elements(A) \ {a}
  <2>1. ASSUME NEW x \in Elements(B) PROVE x \in Elements(A) \ {a}
    <3>1. PICK i \in 1 .. n - 1 : x = B[i]
      BY <1>7, <2>1 DEF Elements
    <3>2. PICK j \in 1 .. n : j # k /\ x = A[j]
      <4>1. CASE i = k
        BY <1>3, <1>5, <1>6, <3>1, <4>1
      <4>2. CASE i # k
        BY <1>5, <1>6, <3>1, <4>2
      <4> QED BY <4>1, <4>2
    <3>3. x # a
      BY <1>2, <3>2
    <3> QED BY <1>1, <3>2, <3>3 DEF Elements
  <2>2. ASSUME NEW x \in Elements(A), x # a PROVE x \in Elements(B)
    <3>1. PICK j \in 1 .. n : x = A[j]
      BY <1>1, <2>2 DEF Elements
    <3>2. j # k
      BY <1>2, <2>2, <3>1
    <3>3. PICK i \in 1 .. n - 1 : B[i] = A[j]
      <4>1. CASE j = n
        <5>1. k \in 1 .. n - 1
          BY <1>1, <1>2, <3>2, <4>1
        <5> QED BY <1>6, <4>1, <5>1
      <4>2. CASE j # n
        <5>1. j \in 1 .. n - 1
          BY <1>1, <4>2
        <5> QED BY <1>6, <3>2, <5>1
      <4> QED BY <4>1, <4>2
    <3> QED BY <1>7, <3>1, <3>3 DEF Elements
  <2> QED BY <2>1, <2>2
<1>10. ~HasDuplicate(B)
  <2> SUFFICES ASSUME NEW i \in 1 .. n - 1, NEW j \in 1 .. n - 1,
                      i < j, B[i] = B[j]
               PROVE  FALSE
    BY <1>7 DEF HasDuplicate
  <2>1. \A p, q \in 1 .. n : p # q => A[p] # A[q]
    <3> SUFFICES ASSUME NEW p \in 1 .. n, NEW q \in 1 .. n, p # q, A[p] = A[q]
                 PROVE  FALSE
      OBVIOUS
    <3>1. p < q \/ q < p
      BY <1>1
    <3> QED BY <1>1, <3>1 DEF HasDuplicate
  <2>2. i # j
    BY <1>1
  <2>3. CASE i = k
    BY <1>3, <1>5, <1>6, <2>1, <2>2, <2>3
  <2>4. CASE j = k
    BY <1>3, <1>5, <1>6, <2>1, <2>2, <2>4
  <2>5. CASE i # k /\ j # k
    BY <1>5, <1>6, <2>1, <2>2, <2>5
  <2> QED BY <2>3, <2>4, <2>5
<1> QED BY <1>8, <1>9, <1>10 DEF B

-----------------------------------------------------------------------------
(* Sums over finite sets.                                                  *)

\* Induction over the subsets of a finite set, with the property given as the
\* set of subsets that have it.
LEMMA SubsetInduction ==
  ASSUME NEW S, IsFiniteSet(S), NEW Good, {} \in Good,
         \A s \in SUBSET S : s # {} /\ (\A x \in s : s \ {x} \in Good) => s \in Good
  PROVE  \A s \in SUBSET S : s \in Good
<1> SUFFICES ASSUME NEW s0 \in SUBSET S, s0 \notin Good PROVE FALSE
  OBVIOUS
<1> DEFINE Bad == {s \in SUBSET S : s \notin Good}
<1>1. Bad \subseteq FiniteSubsetsOf(S) /\ Bad # {}
  BY FS_FiniteSubsetsOfFinite
<1>2. IsWellFoundedOn(StrictSubsetOrdering(S), FiniteSubsetsOf(S))
  BY FS_StrictSubsetOrderingWellFounded
<1>3. PICK s \in Bad : \A t \in Bad : <<t, s>> \notin StrictSubsetOrdering(S)
  <2> HIDE DEF Bad
  <2> QED BY <1>1, <1>2, WFMin
<1>4. ASSUME NEW x \in s PROVE s \ {x} \in Good
  <2>1. <<s \ {x}, s>> \in StrictSubsetOrdering(S)
    BY DEF StrictSubsetOrdering
  <2> QED BY <2>1, <1>3
<1> QED BY <1>3, <1>4

\* The summand that SumFunction takes from a set, and what it adds up: g[s] is
\* the sum of f over s.
Pick(s) == CHOOSE x \in s : TRUE

IsSumTable(g, f, S) ==
  g = [s \in SUBSET S |-> IF s = {} THEN 0 ELSE f[Pick(s)] + g[s \ {Pick(s)}]]

\* The same with any function w of two integers in the place of the sum, and
\* any value e of the empty set.
IsFoldTable(g, w, e, f, S) ==
  g = [s \in SUBSET S |-> IF s = {} THEN e ELSE w[<<f[Pick(s)], g[s \ {Pick(s)}]>>]]

FoldsUpTo(g, w, e, f, S, n) ==
  \A s \in SUBSET S : Cardinality(s) <= n =>
    g[s] = IF s = {} THEN e ELSE w[<<f[Pick(s)], g[s \ {Pick(s)}]>>]

LEMMA PickIn ==
  ASSUME NEW s, s # {} PROVE Pick(s) \in s
  BY DEF Pick

\* The recursion of a fold has a solution, built up by the size of the sets.
LEMMA FoldTableExists ==
  ASSUME NEW S, IsFiniteSet(S), NEW f \in [S -> Int], NEW w \in [Int \X Int -> Int], NEW e \in Int
  PROVE  \E g \in [SUBSET S -> Int] : IsFoldTable(g, w, e, f, S)
<1> DEFINE Good == {t \in SUBSET S :
                      \E g \in [SUBSET S -> Int] : FoldsUpTo(g, w, e, f, S, Cardinality(t))}
<1>1. \A s \in SUBSET S : /\ Cardinality(s) \in Nat
                          /\ Cardinality(s) <= Cardinality(S)
                          /\ Cardinality(s) = 0 <=> s = {}
                          /\ \A x \in s : Cardinality(s \ {x}) = Cardinality(s) - 1
  BY FS_Subset, FS_CardinalityType, FS_EmptySet, FS_RemoveElement
<1>2. \A s \in SUBSET S : s # {} => /\ Pick(s) \in S /\ Pick(s) \in s
                                    /\ s \ {Pick(s)} \in SUBSET S
  BY PickIn
<1>3. {} \in Good
  <2> DEFINE g == [s \in SUBSET S |-> e]
  <2>1. FoldsUpTo(g, w, e, f, S, Cardinality({}))
    BY <1>1, FS_EmptySet DEF FoldsUpTo
  <2>2. g \in [SUBSET S -> Int] /\ {} \in SUBSET S
    OBVIOUS
  <2> HIDE DEF g
  <2> QED BY <2>1, <2>2
<1>4. ASSUME NEW t \in SUBSET S, t # {}, \A x \in t : t \ {x} \in Good
      PROVE  t \in Good
  <2> DEFINE n == Cardinality(t)
  <2>1. t \ {Pick(t)} \in Good /\ Cardinality(t \ {Pick(t)}) = n - 1 /\ n \in Nat
    BY <1>1, <1>2, <1>4
  <2>2. PICK g \in [SUBSET S -> Int] : FoldsUpTo(g, w, e, f, S, n - 1)
    <3>1. \E g \in [SUBSET S -> Int] : FoldsUpTo(g, w, e, f, S, Cardinality(t \ {Pick(t)}))
      BY <2>1
    <3> QED BY <2>1, <3>1
  <2> DEFINE h == [s \in SUBSET S |->
                     IF s = {} THEN e ELSE
                     IF Cardinality(s) <= n - 1 THEN g[s]
                                                ELSE w[<<f[Pick(s)], g[s \ {Pick(s)}]>>]]
  <2>3. h \in [SUBSET S -> Int]
    BY <1>2
  <2>4. \A s \in SUBSET S : Cardinality(s) <= n - 1 => h[s] = g[s]
    <3>1. g[{}] = e
      <4>1. {} \in SUBSET S /\ Cardinality({}) = 0 /\ n # 0 /\ n \in Nat
        BY <1>1, <1>4, FS_EmptySet
      <4>2. Cardinality({}) <= n - 1
        <5> HIDE DEF n
        <5> QED BY <4>1
      <4> QED BY <2>2, <4>1, <4>2, Zenon DEF FoldsUpTo
    <3> QED BY <3>1
  <2>5. ASSUME NEW s \in SUBSET S, Cardinality(s) <= n, s # {}
        PROVE  h[s] = w[<<f[Pick(s)], h[s \ {Pick(s)}]>>]
    <3>1. Cardinality(s \ {Pick(s)}) <= n - 1 /\ s \ {Pick(s)} \in SUBSET S
      BY <1>1, <1>2, <2>5
    <3>2. h[s \ {Pick(s)}] = g[s \ {Pick(s)}]
      BY <3>1, <2>4
    <3>3. h[s] = w[<<f[Pick(s)], g[s \ {Pick(s)}]>>]
      BY <2>2, <2>5 DEF FoldsUpTo
    <3> QED BY <3>2, <3>3
  <2>6. h[{}] = e
    OBVIOUS
  <2> HIDE DEF h
  <2>7. FoldsUpTo(h, w, e, f, S, n)
    BY <2>5, <2>6 DEF FoldsUpTo
  <2> QED BY <2>3, <2>7
<1>5. S \in Good
  <2> HIDE DEF Good
  <2>1. \A s \in SUBSET S : s # {} /\ (\A x \in s : s \ {x} \in Good) => s \in Good
    BY <1>4
  <2>2. \A s \in SUBSET S : s \in Good
    BY <1>3, <2>1, SubsetInduction, Zenon
  <2> QED BY <2>2
<1>6. PICK g \in [SUBSET S -> Int] : FoldsUpTo(g, w, e, f, S, Cardinality(S))
  BY <1>5
<1>7. IsFoldTable(g, w, e, f, S)
  BY <1>1, <1>6 DEF FoldsUpTo, IsFoldTable
<1> QED BY <1>7

\* The recursion of SumFunction has a solution.
LEMMA SumTableExists ==
  ASSUME NEW S, IsFiniteSet(S), NEW f \in [S -> Int]
  PROVE  \E g : IsSumTable(g, f, S)
<1> DEFINE w == [p \in Int \X Int |-> p[1] + p[2]]
<1>1. w \in [Int \X Int -> Int] /\ \A x, y \in Int : w[<<x, y>>] = x + y
  OBVIOUS
<1> HIDE DEF w
<1>2. PICK g \in [SUBSET S -> Int] : IsFoldTable(g, w, 0, f, S)
  <2>1. 0 \in Int
    OBVIOUS
  <2> QED BY <1>1, <2>1, FoldTableExists, Zenon
<1>3. ASSUME NEW s \in SUBSET S
      PROVE  (IF s = {} THEN 0 ELSE w[<<f[Pick(s)], g[s \ {Pick(s)}]>>])
               = IF s = {} THEN 0 ELSE f[Pick(s)] + g[s \ {Pick(s)}]
  <2>1. s # {} => f[Pick(s)] \in Int /\ g[s \ {Pick(s)}] \in Int
    BY PickIn
  <2> QED BY <1>1, <2>1
<1>4. [s \in SUBSET S |-> IF s = {} THEN 0 ELSE w[<<f[Pick(s)], g[s \ {Pick(s)}]>>]]
        = [s \in SUBSET S |-> IF s = {} THEN 0 ELSE f[Pick(s)] + g[s \ {Pick(s)}]]
  BY <1>3, Zenon
<1>5. IsSumTable(g, f, S)
  BY <1>2, <1>4, Zenon DEF IsFoldTable, IsSumTable
<1> QED BY <1>5

\* What adding up by IsSumTable gives for each set.
AddsUp(g, f, S) ==
  /\ g[{}] = 0
  /\ \A s \in SUBSET S : s # {} =>
       Pick(s) \in s /\ Pick(s) \in S /\ g[s] = f[Pick(s)] + g[s \ {Pick(s)}]

LEMMA TableAddsUp ==
  ASSUME NEW S, NEW f, NEW g, IsSumTable(g, f, S)
  PROVE  AddsUp(g, f, S)
<1>1. ASSUME NEW s \in SUBSET S
      PROVE  g[s] = IF s = {} THEN 0 ELSE f[Pick(s)] + g[s \ {Pick(s)}]
  BY Zenon DEF IsSumTable
<1> QED BY <1>1, PickIn DEF AddsUp

LEMMA SumFromTable ==
  ASSUME NEW S, IsFiniteSet(S), NEW f \in [S -> Int]
  PROVE  \E g : AddsUp(g, f, S) /\ SumFunction(f) = g[S]
<1> DEFINE G == CHOOSE g : IsSumTable(g, f, S)
<1>1. IsSumTable(G, f, S)
  BY SumTableExists, Zenon
<1>2. SumFunction(f) = G[S]
  <2>1. DOMAIN f = S
    OBVIOUS
  <2> QED BY <2>1, Zenon
          DEF SumFunction, SumFunctionOnSet, FoldFunctionOnSet, MapThenFoldSet,
              Pick, IsSumTable
<1>3. AddsUp(G, f, S)
  BY <1>1, TableAddsUp
<1> HIDE DEF G
<1> QED BY <1>2, <1>3

\* The sum of naturals is a natural, and at least each of them.
LEMMA SumOfNaturals ==
  ASSUME NEW S, IsFiniteSet(S), NEW f \in [S -> Nat]
  PROVE  /\ SumFunction(f) \in Nat
         /\ \A x \in S : f[x] <= SumFunction(f)
<1>1. PICK g : AddsUp(g, f, S) /\ SumFunction(f) = g[S]
  BY SumFromTable
<1> DEFINE Good == {s \in SUBSET S : g[s] \in Nat /\ \A x \in s : f[x] <= g[s]}
<1>2. {} \in Good
  BY <1>1 DEF AddsUp
<1>3. ASSUME NEW s \in SUBSET S, s # {}, \A x \in s : s \ {x} \in Good
      PROVE  s \in Good
  <2> DEFINE y == Pick(s)
             r == s \ {y}
  <2>1. y \in s /\ y \in S /\ g[s] = f[y] + g[r]
    BY <1>1, <1>3 DEF AddsUp
  <2>2. g[r] \in Nat /\ \A x \in r : f[x] <= g[r]
    BY <1>3, <2>1
  <2>3. \A x \in s : x = y \/ x \in r
    OBVIOUS
  <2> HIDE DEF y, r
  <2>4. g[s] \in Nat /\ \A x \in s : f[x] <= g[s]
    BY <2>1, <2>2, <2>3
  <2> QED BY <2>4
<1>4. S \in Good
  <2> HIDE DEF Good
  <2>1. \A s \in SUBSET S : s # {} /\ (\A x \in s : s \ {x} \in Good) => s \in Good
    BY <1>3
  <2> QED BY <1>2, <2>1, SubsetInduction
<1> QED BY <1>1, <1>4

\* Inequalities add up.
LEMMA SumsCompare ==
  ASSUME NEW S, IsFiniteSet(S), NEW f \in [S -> Nat], NEW h \in [S -> Nat],
         NEW p \in Nat, NEW q \in Nat, \A x \in S : p * h[x] <= f[x] * q
  PROVE  p * SumFunction(h) <= SumFunction(f) * q
<1>1. PICK g : AddsUp(g, f, S) /\ SumFunction(f) = g[S]
  BY SumFromTable
<1>2. PICK k : AddsUp(k, h, S) /\ SumFunction(h) = k[S]
  BY SumFromTable
<1> DEFINE Good == {s \in SUBSET S : g[s] \in Nat /\ k[s] \in Nat /\ p * k[s] <= g[s] * q}
<1>3. {} \in Good
  <2>1. g[{}] = 0 /\ k[{}] = 0
    BY <1>1, <1>2 DEF AddsUp
  <2> QED BY <2>1
<1>4. ASSUME NEW s \in SUBSET S, s # {}, \A x \in s : s \ {x} \in Good
      PROVE  s \in Good
  <2> DEFINE y == Pick(s)
             r == s \ {y}
  <2>1. y \in s /\ y \in S /\ g[s] = f[y] + g[r] /\ k[s] = h[y] + k[r]
    BY <1>1, <1>2, <1>4 DEF AddsUp
  <2>2. g[r] \in Nat /\ k[r] \in Nat /\ p * k[r] <= g[r] * q
    BY <1>4, <2>1
  <2> HIDE DEF y, r
  <2>3. f[y] \in Nat /\ h[y] \in Nat /\ p * h[y] <= f[y] * q
    BY <2>1
  <2>4. g[s] \in Nat /\ k[s] \in Nat /\ p * k[s] <= g[s] * q
    <3>1. ASSUME NEW a1 \in Nat, NEW a2 \in Nat, NEW b1 \in Nat, NEW b2 \in Nat,
                 p * b1 <= a1 * q, p * b2 <= a2 * q
          PROVE  p * (b1 + b2) <= (a1 + a2) * q
      BY <3>1
    <3> QED BY <2>1, <2>2, <2>3, <3>1
  <2> QED BY <2>4
<1>5. S \in Good
  <2> HIDE DEF Good
  <2>1. \A s \in SUBSET S : s # {} /\ (\A x \in s : s \ {x} \in Good) => s \in Good
    BY <1>4
  <2> QED BY <1>3, <2>1, SubsetInduction
<1> QED BY <1>1, <1>2, <1>5

\* A sum with at most one summand that is not zero.
LEMMA SumOfOne ==
  ASSUME NEW S, IsFiniteSet(S), NEW f \in [S -> Nat], NEW y \in S,
         \A x \in S : x # y => f[x] = 0
  PROVE  SumFunction(f) = f[y]
<1>1. PICK g : AddsUp(g, f, S) /\ SumFunction(f) = g[S]
  BY SumFromTable
<1> DEFINE Good == {s \in SUBSET S : g[s] = IF y \in s THEN f[y] ELSE 0}
<1>2. {} \in Good
  BY <1>1 DEF AddsUp
<1>3. ASSUME NEW s \in SUBSET S, s # {}, \A x \in s : s \ {x} \in Good
      PROVE  s \in Good
  <2> DEFINE z == Pick(s)
             r == s \ {z}
  <2>1. z \in s /\ z \in S /\ g[s] = f[z] + g[r]
    BY <1>1, <1>3 DEF AddsUp
  <2>2. g[r] = IF y \in r THEN f[y] ELSE 0
    BY <1>3, <2>1
  <2>3. /\ y \in r <=> y \in s /\ y # z
        /\ z # y => f[z] = 0
    BY <2>1
  <2> HIDE DEF z, r
  <2>4. g[s] = IF y \in s THEN f[y] ELSE 0
    BY <2>1, <2>2, <2>3
  <2> QED BY <2>4
<1>4. S \in Good
  <2> HIDE DEF Good
  <2>1. \A s \in SUBSET S : s # {} /\ (\A x \in s : s \ {x} \in Good) => s \in Good
    BY <1>3
  <2> QED BY <1>2, <2>1, SubsetInduction
<1> QED BY <1>1, <1>4

\* The domains of sequences of one and of two elements are finite.
LEMMA ShortIntervals == IsFiniteSet(1 .. 1) /\ IsFiniteSet(1 .. 2)
<1>1. 1 \in Int /\ 2 \in Int
  OBVIOUS
<1> QED BY <1>1, FS_Interval, Zenon

\* The sums over one and over two summands.
LEMMA ShortSums ==
  /\ \A f \in [1 .. 1 -> Int] : SumFunction(f) = f[1]
  /\ \A f \in [1 .. 2 -> Int] : SumFunction(f) = f[1] + f[2]
<1>0. IsFiniteSet(1 .. 1) /\ IsFiniteSet(1 .. 2)
  BY ShortIntervals
<1>1. ASSUME NEW n \in {1, 2}, NEW f \in [1 .. n -> Int], NEW g, AddsUp(g, f, 1 .. n),
             NEW x \in 1 .. n
      PROVE  g[{x}] = f[x]
  <2>1. {x} \in SUBSET (1 .. n) /\ {x} # {} /\ Pick({x}) = x /\ {x} \ {x} = {}
    BY PickIn
  <2>2. g[{x}] = f[x] + g[{}] /\ g[{}] = 0
    BY <1>1, <2>1, Zenon DEF AddsUp
  <2>3. f[x] \in Int
    OBVIOUS
  <2> QED BY <2>2, <2>3
<1>2. ASSUME NEW f \in [1 .. 1 -> Int] PROVE SumFunction(f) = f[1]
  <2>1. PICK g : AddsUp(g, f, 1 .. 1) /\ SumFunction(f) = g[1 .. 1]
    BY <1>0, SumFromTable
  <2>2. 1 .. 1 = {1} /\ 1 \in 1 .. 1
    OBVIOUS
  <2>3. g[{1}] = f[1]
    BY <1>1, <2>1, <2>2
  <2> QED BY <2>1, <2>2, <2>3
<1>3. ASSUME NEW f \in [1 .. 2 -> Int] PROVE SumFunction(f) = f[1] + f[2]
  <2> DEFINE S == 1 .. 2
             x == Pick(S)
  <2>1. PICK g : AddsUp(g, f, S) /\ SumFunction(f) = g[S]
    BY <1>0, SumFromTable
  <2>2. x \in S /\ g[S] = f[x] + g[S \ {x}]
    <3>1. S # {} /\ S \in SUBSET S
      OBVIOUS
    <3> HIDE DEF S
    <3> QED BY <2>1, <3>1, Zenon DEF AddsUp
  <2>3. g[{1}] = f[1] /\ g[{2}] = f[2]
    BY <1>1, <2>1
  <2>4. (x = 1 /\ S \ {x} = {2}) \/ (x = 2 /\ S \ {x} = {1})
    BY <2>2
  <2>5. f[1] \in Int /\ f[2] \in Int
    OBVIOUS
  <2> HIDE DEF x, S
  <2>6. CASE x = 1 /\ S \ {x} = {2}
    BY <2>1, <2>2, <2>3, <2>6
  <2>7. CASE x = 2 /\ S \ {x} = {1}
    <3>1. g[S] = f[2] + f[1]
      BY <2>2, <2>3, <2>7
    <3> QED BY <2>1, <2>5, <3>1
  <2> QED BY <2>4, <2>6, <2>7
<1> QED BY <1>2, <1>3

==============================================================================
