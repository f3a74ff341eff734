----------------------------- MODULE MathUtils -----------------------------
(***************************************************************************)
(* The off-chain copy of the fixed-point arithmetic: utils/common/         *)
(* mathUtils.ts over ethers BigNumbers.                                    *)
(* The lower-case names are the TypeScript functions, the capitalised ones *)
(* of PreciseUnitMath their Solidity counterparts.  A BigNumber has no     *)
(* width and its div truncates towards zero, so one definition serves      *)
(* amounts of both signs.                                                  *)
(***************************************************************************)
EXTENDS PreciseUnitMath

preciseMul(a, b) == TruncDiv(a * b, PreciseUnit)

preciseMulCeil(a, b) ==
  IF a = 0 \/ b = 0 THEN 0 ELSE TruncDiv(a * b - 1, PreciseUnit) + 1

preciseMulCeilInt(a, b) ==
  IF a = 0 \/ b = 0 THEN 0
  ELSE IF SignsDiffer(a, b) THEN TruncDiv(a * b + 1, PreciseUnit) - 1
  ELSE TruncDiv(a * b - 1, PreciseUnit) + 1

preciseDiv(a, b) == TruncDiv(a * PreciseUnit, b)

preciseDivCeil(a, b) ==
  IF a = 0 \/ b = 0 THEN 0 ELSE TruncDiv(a * PreciseUnit - 1, b) + 1

preciseDivCeilInt(a, b) ==
  LET result == preciseDiv(a, b)
  IN  IF result * b = a * PreciseUnit THEN result
      ELSE IF (a > 0 /\ b > 0) \/ (a < 0 /\ b < 0) THEN result + 1
      ELSE result - 1

\* The division that only looks at a negative numerator.
divDownNumeratorOnly(a, b) ==
  IF a < 0 /\ b > 0 /\ a % b # 0 THEN TruncDiv(a, b) - 1 ELSE TruncDiv(a, b)

\* BigNumber.mod is never negative and refuses a negative divisor, hence
\* the sign change of b in the second case.
divDown(a, b) ==
  IF \/ a < 0 /\ b > 0 /\ a % b # 0
     \/ a > 0 /\ b < 0 /\ a % (-b) # 0
  THEN TruncDiv(a, b) - 1
  ELSE TruncDiv(a, b)

min(valueOne, valueTwo) == IF valueOne < valueTwo THEN valueOne ELSE valueTwo
=============================================================================
