--------------------------- MODULE PreciseUnitMath ---------------------------
(***************************************************************************)
(* The fixed-point arithmetic of contracts/lib/PreciseUnitMath.sol.        *)
(*                                                                         *)
(* PreciseUnit is the scale (10^18 on chain); every definition is stated   *)
(* for an arbitrary positive scale, so that TLC can use a small one and    *)
(* the proofs cover the real one.  SafeMath turns an overflow or an        *)
(* underflow into a revert, never into a wrapped value: the integers here  *)
(* are unbounded, and a subtraction that the code does on uint256 gets a   *)
(* guard where it is used.                                                 *)
(***************************************************************************)
EXTENDS Integers

CONSTANT PreciseUnit

ASSUME PreciseUnitAssumption == PreciseUnit \in Nat \ {0}

-----------------------------------------------------------------------------
(* uint256 overloads: \div rounds down, as Solidity does on naturals. *)

PreciseMul(a, b) == (a * b) \div PreciseUnit

\* The rounding that adds one even to an exact product.
PreciseMulPlusOne(a, b) ==
  IF a = 0 \/ b = 0 THEN 0 ELSE ((a * b) \div PreciseUnit) + 1

PreciseMulCeil(a, b) ==
  IF a = 0 \/ b = 0 THEN 0 ELSE ((a * b - 1) \div PreciseUnit) + 1

PreciseDiv(a, b) == (a * PreciseUnit) \div b

PreciseDivCeil(a, b) ==
  IF a > 0 THEN ((a * PreciseUnit - 1) \div b) + 1 ELSE 0

-----------------------------------------------------------------------------
(* int256 overloads.  Solidity's signed division truncates towards zero,   *)
(* TLA+'s \div rounds towards minus infinity.                              *)

Magnitude(a) == IF a >= 0 THEN a ELSE -a

SignsDiffer(a, b) == (a < 0) # (b < 0)

TruncDiv(a, b) ==
  LET q == Magnitude(a) \div Magnitude(b)
  IN  IF SignsDiffer(a, b) THEN -q ELSE q

TruncMod(a, b) == a - b * TruncDiv(a, b)

PreciseMulInt(a, b) == TruncDiv(a * b, PreciseUnit)

PreciseDivInt(a, b) == TruncDiv(a * PreciseUnit, b)

\* The rounding that forgets that a negative quotient grows downwards.
PreciseDivUpInt(a, b) ==
  LET scaled == a * PreciseUnit
  IN  IF TruncMod(scaled, b) = 0
      THEN TruncDiv(scaled, b)
      ELSE TruncDiv(scaled, b) + 1

PreciseDivCeilInt(a, b) ==
  LET scaled == a * PreciseUnit
      c      == TruncDiv(scaled, b)
  IN  IF TruncMod(scaled, b) = 0 THEN c
      ELSE IF SignsDiffer(scaled, b) THEN c - 1
      ELSE c + 1

DivDown(a, b) ==
  IF SignsDiffer(a, b) /\ TruncMod(a, b) # 0
  THEN TruncDiv(a, b) - 1
  ELSE TruncDiv(a, b)

ConservativePreciseMul(a, b) == DivDown(a * b, PreciseUnit)

ConservativePreciseDiv(a, b) == DivDown(a * PreciseUnit, b)

-----------------------------------------------------------------------------
(* SetToken's conversions between real and virtual units (SetToken.sol).   *)
(* A virtual unit times the position multiplier is the real unit.          *)

ConvertVirtualToRealUnit(virtualUnit, multiplier) ==
  ConservativePreciseMul(virtualUnit, multiplier)

\* The conversion without its rounding towards minus infinity.
ConvertRealToVirtualTruncated(realUnit, multiplier) ==
  PreciseDivInt(realUnit, multiplier)

ConvertRealToVirtualUnit(realUnit, multiplier) ==
  ConservativePreciseDiv(realUnit, multiplier)

\* The two reverts of _convertRealToVirtualUnit: a positive real unit may
\* neither become a zero virtual unit nor come back as a zero real unit.
ConvertibleUnit(realUnit, multiplier) ==
  realUnit > 0 =>
    LET virtualUnit == ConvertRealToVirtualUnit(realUnit, multiplier)
    IN  /\ virtualUnit # 0
        /\ ConvertVirtualToRealUnit(virtualUnit, multiplier) # 0
==============================================================================
