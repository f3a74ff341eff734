----------------------------- MODULE FeeQuotes -----------------------------
(***************************************************************************)
(* The expected streaming fees of utils/common/feeModuleUtils.ts: the      *)
(* share accrued over a period, the Sets minted for it, and the position   *)
(* units that the dilution leaves.                                         *)
(***************************************************************************)
EXTENDS MathUtils, Sequences

CONSTANT OneYear   \* ONE_YEAR_IN_SECONDS

ASSUME OneYearAssumption == OneYear \in Nat \ {0}

\* An optional argument is a set with at most one member: a BigNumber is an
\* object, so a fee of zero that is passed is used and not replaced.
OptionalArgument(given, default) ==
  IF given = {} THEN default ELSE CHOOSE value \in given : TRUE

\* The share of a period charged in full years, rounded up.
getStreamingFeeRoundedUp(percentage, previous, recent, streamingFee) ==
  -((-(recent - previous) * OptionalArgument(streamingFee, percentage)) \div OneYear)

\* percentage is feeStates(setToken).streamingFeePercentage.
getStreamingFee(percentage, previous, recent, streamingFee) ==
  TruncDiv((recent - previous) * OptionalArgument(streamingFee, percentage), OneYear)

\* The fee on the supply before the fee is minted.
getUndilutedInflationAmount(inflationPercent, totalSupply) ==
  preciseMul(inflationPercent, totalSupply)

getStreamingFeeInflationAmount(inflationPercent, totalSupply) ==
  TruncDiv(inflationPercent * totalSupply, PreciseUnit - inflationPercent)

\* The units with every product truncated.
getTruncatedPositionUnits(preFeeUnits, inflationPercent) ==
  [i \in 1 .. Len(preFeeUnits) |->
     preciseMul(preFeeUnits[i], PreciseUnit - inflationPercent)]

getPostFeePositionUnits(preFeeUnits, inflationPercent) ==
  [i \in 1 .. Len(preFeeUnits) |->
     IF preFeeUnits[i] >= 0
     THEN preciseMul(preFeeUnits[i], PreciseUnit - inflationPercent)
     ELSE preciseMulCeilInt(preFeeUnits[i], PreciseUnit - inflationPercent)]
=============================================================================
