----------------------------- MODULE PerpQuotes -----------------------------
(***************************************************************************)
(* The expectations of utils/common/perpV2Utils.ts for a Set that trades   *)
(* perpetual futures.                                                      *)
(*                                                                         *)
(* account: collateralBalance, owedRealizedPnl, pendingFundingPayments and *)
(* netQuoteBalance, all signed.  A position has a signed baseBalance and   *)
(* quoteBalance.  A market gives the spot price and, as the Quoter does,   *)
(* the positive amount of quote token that a swap of a positive amount of  *)
(* base token costs or yields.                                             *)
(***************************************************************************)
EXTENDS MathUtils, Sequences, Functions

CONSTANTS UsdcScale,       \* precise units in one base unit of USDC, 10^12
          LeverSlippage,   \* ether(.02)
          RatioScale,      \* 10^6, the denominator of the margin ratio
          OneDay           \* ONE_DAY_IN_SECONDS

ASSUME PerpAssumption ==
  /\ UsdcScale \in Nat \ {0} /\ RatioScale \in Nat \ {0} /\ OneDay \in Nat \ {0}
  /\ LeverSlippage \in Nat

\* fixture.getSwapQuote: a buyer pays the ask, a seller receives the bid.
SwapQuote(market, base, isLong) ==
  IF isLong THEN PreciseMulCeil(base, market.ask) ELSE PreciseMul(base, market.bid)

toUSDCDecimals(quantity) == TruncDiv(quantity, UsdcScale)

\* The quote limit on the same side for both directions.
leverUpOneSided(spotPrice, supply, collateralBalance, leverageRatio, isLong) ==
  LET baseNotional == preciseDiv(collateralBalance * leverageRatio, spotPrice)
      quote        == Magnitude(preciseMul(baseNotional, spotPrice))
  IN  [baseUnit |-> preciseDiv(baseNotional, supply) * (IF isLong THEN 1 ELSE -1),
       quoteUnit |-> preciseDiv(quote + preciseMul(quote, LeverSlippage), supply)]

\* The trade that is submitted.  The slippagePercentage argument of the
\* function is not used.
leverUp(spotPrice, supply, collateralBalance, leverageRatio, isLong) ==
  LET baseNotional == preciseDiv(collateralBalance * leverageRatio, spotPrice)
      baseUnit     == preciseDiv(baseNotional, supply)
      quote        == Magnitude(preciseMul(baseNotional, spotPrice))
      slippage     == preciseMul(quote, LeverSlippage)
  IN  [baseUnit |-> IF isLong THEN baseUnit ELSE -baseUnit,
       quoteUnit |-> preciseDiv(IF isLong THEN quote + slippage ELSE quote - slippage, supply)]

\* owedRealizedPnl and, when asked for, the pending funding.
settledCollateral(account, includeFunding) ==
  account.collateralBalance + account.owedRealizedPnl
    + (IF includeFunding THEN account.pendingFundingPayments ELSE 0)

\* The slippage of a short measured from its negative ideal quote.
usdcTransferInSignedShort(account, positions, markets, supply, setQuantity, includeFunding) ==
  LET total == settledCollateral(account, includeFunding) + account.netQuoteBalance
      tradeCost(i) ==
        LET base  == preciseMul(preciseDiv(positions[i].baseBalance, supply), setQuantity)
            ideal == preciseMul(base, markets[i].spot)
            quote == SwapQuote(markets[i], Magnitude(base), base >= 0)
        IN  ideal + (IF base >= 0 THEN quote - ideal ELSE ideal - quote)
  IN  preciseMul(preciseDiv(total, supply), setQuantity)
        + SumFunction([i \in DOMAIN positions |-> tradeCost(i)])

\* getPositionUnitInfo reports baseBalance per Set.
calculateUSDCTransferInPreciseUnits(account, positions, markets, supply, setQuantity, includeFunding) ==
  LET total == settledCollateral(account, includeFunding) + account.netQuoteBalance
      tradeCost(i) ==
        LET base  == preciseMul(preciseDiv(positions[i].baseBalance, supply), setQuantity)
            ideal == preciseMul(base, markets[i].spot)
            quote == SwapQuote(markets[i], Magnitude(base), base >= 0)
        IN  ideal + (IF base >= 0 THEN quote - ideal ELSE Magnitude(ideal) - quote)
  IN  preciseMul(preciseDiv(total, supply), setQuantity)
        + SumFunction([i \in DOMAIN positions |-> tradeCost(i)])

calculateUSDCTransferIn(account, positions, markets, supply, setQuantity) ==
  toUSDCDecimals(calculateUSDCTransferInPreciseUnits(
                   account, positions, markets, supply, setQuantity, TRUE))

\* A Set that closes at the price of the side it holds.
usdcTransferOutSameSide(account, positions, markets, supply, setQuantity, includeFunding) ==
  LET realizedPnl(i) ==
        LET held     == positions[i]
            baseUnit == preciseDiv(held.baseBalance, supply)
            base     == preciseMul(baseUnit, setQuantity)
            ratio    == preciseDiv(Magnitude(base), Magnitude(held.baseBalance))
            quote    == SwapQuote(markets[i], Magnitude(base), baseUnit >= 0)
        IN  preciseMul(held.quoteBalance, ratio) + (IF baseUnit >= 0 THEN quote ELSE -quote)
  IN  Magnitude(preciseMul(preciseDiv(settledCollateral(account, includeFunding), supply), setQuantity)
                  + SumFunction([i \in DOMAIN positions |-> realizedPnl(i)]))

\* What the Sets stand for when their positions are closed: negative when
\* their share of the loss exceeds their share of the collateral.
closedValue(account, positions, markets, supply, setQuantity, includeFunding) ==
  LET realizedPnl(i) ==
        LET held     == positions[i]
            baseUnit == preciseDiv(held.baseBalance, supply)
            base     == preciseMul(baseUnit, setQuantity)
            isLong   == baseUnit >= 0
            ratio    == preciseDiv(Magnitude(base), Magnitude(held.baseBalance))
            quote    == SwapQuote(markets[i], Magnitude(base), ~isLong)
        IN  preciseMul(held.quoteBalance, ratio) + (IF isLong THEN quote ELSE -quote)
  IN  preciseMul(preciseDiv(settledCollateral(account, includeFunding), supply), setQuantity)
        + SumFunction([i \in DOMAIN positions |-> realizedPnl(i)])

calculateUSDCTransferOutPreciseUnits(account, positions, markets, supply, setQuantity, includeFunding) ==
  Magnitude(closedValue(account, positions, markets, supply, setQuantity, includeFunding))

calculateUSDCTransferOut(account, positions, markets, supply, setQuantity) ==
  toUSDCDecimals(calculateUSDCTransferOutPreciseUnits(
                   account, positions, markets, supply, setQuantity, TRUE))

calculateExternalPositionUnit(account, supply) ==
  toUSDCDecimals(preciseDiv(account.collateralBalance, supply))

-----------------------------------------------------------------------------

\* Funding that ignores the direction of the position.
netFundingGrowthUnsigned(baseBalance, twPremium, markTwap, indexTwap) ==
  LET growth == Magnitude(preciseMul(baseBalance, TruncDiv(twPremium, OneDay)))
  IN  IF markTwap < indexTwap THEN growth ELSE -growth

\* twPremium is the exchange's value with its 96 fractional bits removed.
getNetFundingGrowth(baseBalance, twPremium, markTwap, indexTwap) ==
  LET growth == Magnitude(preciseMul(baseBalance, TruncDiv(twPremium, OneDay)))
  IN  IF (markTwap < indexTwap) = (baseBalance > 0) THEN growth ELSE -growth

getUSDCDeltaDueToFundingGrowth(supply, setQuantity, baseBalance, twPremium, markTwap, indexTwap) ==
  preciseMul(preciseDiv(getNetFundingGrowth(baseBalance, twPremium, markTwap, indexTwap), supply),
             setQuantity)

\* indexPrices: the oracle price of every position's token.
calculateLeverageRatios(account, positions, indexPrices) ==
  [i \in DOMAIN positions |->
     LET value == preciseMul(indexPrices[i], positions[i].baseBalance)
     IN  preciseDiv(value, value + settledCollateral(account, TRUE) + positions[i].quoteBalance)]

\* The debt that the margin allows, whatever has been borrowed already.
maxIssueQuantityIgnoringDebt(account, supply, slippage, imRatio, unrealizedPnl, debt, absPositionValue) ==
  LET free == TruncDiv(settledCollateral(account, TRUE) * RatioScale, imRatio)
  IN  preciseMul(preciseDiv(free, absPositionValue), supply)

\* margin: imRatio; an unrealized loss counts against the collateral, an
\* unrealized gain does not count.
calculateMaxIssueQuantity(account, supply, slippage, imRatio, unrealizedPnl, debt, absPositionValue) ==
  LET collateral == settledCollateral(account, TRUE)
                      + (IF unrealizedPnl >= 0 THEN 0 ELSE unrealizedPnl)
      available  == TruncDiv(collateral * RatioScale, imRatio) - debt
      slipped    == TruncDiv(preciseMul(available, slippage) * RatioScale, imRatio)
  IN  preciseMul(preciseDiv(available - slipped, absPositionValue), supply)
=============================================================================
