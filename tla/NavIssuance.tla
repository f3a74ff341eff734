---------------------------- MODULE NavIssuance ----------------------------
(***************************************************************************)
(* Issuance and redemption at net asset value.  The first half is the pure *)
(* part of CustomOracleNAVIssuanceModule.sol, the second half the expected *)
(* results that utils/common/navIssuanceModuleUtils.ts computes beside it. *)
(*                                                                         *)
(* fees is a record of the percentages: manager (the manager's fee),       *)
(* share (the protocol's part of it), direct (the protocol's own fee) and  *)
(* premium.  baseUnits is 10 ** decimals of the reserve asset; a valuation *)
(* and a supply are in precise units.                                      *)
(***************************************************************************)
EXTENDS MathUtils

-----------------------------------------------------------------------------
(* On chain *)

\* The protocol's and the manager's percentage of a reserve flow.
GetProtocolAndManagerFeePercentages(fees) ==
  LET revenueShare == PreciseMul(fees.share, fees.manager)
  IN  [protocol |-> revenueShare + fees.direct, manager |-> fees.manager - revenueShare]

GetFees(fees, reserveQuantity) ==
  LET percentages  == GetProtocolAndManagerFeePercentages(fees)
      protocolFees == PreciseMul(percentages.protocol, reserveQuantity)
      managerFee   == PreciseMul(percentages.manager, reserveQuantity)
  IN  [protocol |-> protocolFees, manager |-> managerFee,
       net |-> reserveQuantity - protocolFees - managerFee]

GetSetTokenMintQuantity(fees, netReserveFlow, supply, valuation, baseUnits) ==
  LET premium       == PreciseMul(netReserveFlow, fees.premium)
      netFees       == PreciseDiv(netReserveFlow, baseUnits)
      netAll        == PreciseDiv(netReserveFlow - premium, baseUnits)
      denominator   == PreciseMul(supply, valuation) + netFees - netAll
  IN  PreciseDiv(PreciseMul(netAll, supply), denominator)

GetRedeemReserveQuantity(fees, setQuantity, valuation, baseUnits) ==
  LET prePremium == PreciseMul(PreciseMul(setQuantity, valuation), baseUnits)
  IN  prePremium - PreciseMulCeil(prePremium, fees.premium)

GetIssuePositionMultiplier(multiplier, previousSupply, newSupply) ==
  TruncDiv(multiplier * previousSupply, newSupply)

GetRedeemPositionMultiplier(multiplier, previousSupply, newSupply) ==
  TruncDiv(multiplier * previousSupply, newSupply)

GetIssuePositionUnit(existingUnit, previousSupply, newSupply, netFlow) ==
  PreciseDiv(PreciseMul(existingUnit, previousSupply) + netFlow, newSupply)

\* The require of _getRedeemPositionUnit.
RedeemIsCovered(existingUnit, previousSupply, outflow) ==
  PreciseMul(existingUnit, previousSupply) >= outflow

GetRedeemPositionUnit(existingUnit, previousSupply, newSupply, outflow) ==
  PreciseDiv(PreciseMul(existingUnit, previousSupply) - outflow, newSupply)

-----------------------------------------------------------------------------
(* Off chain *)

\* The inflation rounded down, which leaves too large a multiplier.
issuePositionMultiplierRoundedUp(multiplier, previousSupply, currentSupply) ==
  preciseMul(multiplier, PreciseUnit - preciseDiv(currentSupply - previousSupply, currentSupply))

getExpectedIssuePositionMultiplier(multiplier, previousSupply, currentSupply) ==
  LET inflation == preciseDivCeil(currentSupply - previousSupply, currentSupply)
  IN  preciseMul(multiplier, PreciseUnit - inflation)

getExpectedRedeemPositionMultiplier(multiplier, previousSupply, currentSupply) ==
  LET deflation == preciseDiv(previousSupply - currentSupply, currentSupply)
  IN  preciseMul(multiplier, PreciseUnit + deflation)

\* The fees taken one after the other, the second from what the first left.
postFeeQuantityCompounded(quantity, fees) ==
  LET afterManager == quantity - preciseMul(quantity, fees.manager)
  IN  afterManager - preciseMul(afterManager, fees.direct)

getExpectedPostFeeQuantity(quantity, fees) ==
  quantity - preciseMul(quantity, fees.manager) - preciseMul(quantity, fees.direct)

getExpectedSetTokenIssueQuantity(supply, valuation, baseUnits, quantity, fees) ==
  LET subFees       == getExpectedPostFeeQuantity(quantity, fees)
      subAll        == subFees - preciseMul(subFees, fees.premium)
      normalizedFees == preciseDiv(subFees, baseUnits)
      normalizedAll  == preciseDiv(subAll, baseUnits)
      denominator    == preciseMul(supply, valuation) + normalizedFees - normalizedAll
  IN  preciseDiv(preciseMul(normalizedAll, supply), denominator)

\* The correction both unit quotes end with, for the contract's conversion
\* of a real unit to a virtual one and back.
roundedPositionUnit(newPositionUnit, multiplier) ==
  preciseDiv(preciseMul(newPositionUnit, multiplier), multiplier)

getExpectedIssuePositionUnit(units, issueQuantity, previousSupply, currentSupply, multiplier, fees) ==
  LET numerator == preciseMul(previousSupply, units)
                     + getExpectedPostFeeQuantity(issueQuantity, fees)
  IN  roundedPositionUnit(preciseDiv(numerator, currentSupply), multiplier)

\* The premium both redemption quotes take, before the amount is scaled to
\* the reserve asset's decimals.
notionalSubPremium(setQuantity, valuation, fees) ==
  LET notional == preciseMul(valuation, setQuantity)
  IN  notional - preciseMulCeil(notional, fees.premium)

getExpectedReserveRedeemQuantity(setQuantity, valuation, baseUnits, fees) ==
  LET subFees == getExpectedPostFeeQuantity(notionalSubPremium(setQuantity, valuation, fees), fees)
  IN  preciseMul(subFees, baseUnits)

\* The unit that forgets what the redeemer takes out.
redeemPositionUnitBeforeOutflow(units, setQuantity, valuation, baseUnits, previousSupply, currentSupply, multiplier, fees) ==
  roundedPositionUnit(preciseDiv(preciseMul(previousSupply, units), currentSupply), multiplier)

getExpectedRedeemPositionUnit(units, setQuantity, valuation, baseUnits, previousSupply, currentSupply, multiplier, fees) ==
  LET outflow   == preciseMul(notionalSubPremium(setQuantity, valuation, fees), baseUnits)
      numerator == preciseMul(previousSupply, units) - outflow
  IN  roundedPositionUnit(preciseDiv(numerator, currentSupply), multiplier)
=============================================================================
