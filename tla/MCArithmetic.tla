-------------------------- MODULE MCArithmetic --------------------------
(* The arithmetic of the contracts and of the off-chain helpers over small  *)
(* operands of both signs.  The fixed-point operations are compared with    *)
(* reference definitions that name no division: a quotient is the integer   *)
(* that the two bounding products say it is.  A quote is compared with what *)
(* the contract computes, or with what the quote is for.  Two operands are  *)
(* the state; a property quantifies its other inputs over small sets.       *)
EXTENDS FeeQuotes, NavIssuance, ExchangeIssuanceQuotes, PerpQuotes

CONSTANTS Bound,     \* the largest magnitude of an operand
          Quoters    \* what the quoter of Uniswap v3 may answer for a path

ASSUME BoundAssumption == Bound \in Nat

NotDecreasing(f) == \A m, n \in DOMAIN f : m <= n => f[m] <= f[n]

\* Whatever the liquidity along the path, more of the token costs no less and
\* sells for no less, and the pools' fees keep what it sells for below what it
\* costs.
ASSUME QuotersAssumption ==
  \A quoter \in Quoters :
    /\ quoter.exactOutput \in [0 .. Bound + 1 -> Nat] /\ NotDecreasing(quoter.exactOutput)
    /\ quoter.exactInput \in [0 .. Bound + 1 -> Nat] /\ NotDecreasing(quoter.exactInput)
    /\ \A n \in 1 .. Bound + 1 : quoter.exactInput[n] < quoter.exactOutput[n]

\* Liquidity that is used up after a number of tokens, from where on they cost
\* more and sell for less.
MCQuoters ==
  { [exactOutput |-> [n \in 0 .. Bound + 1 |-> IF n <= tick THEN 3 * n ELSE 5 * n - 2 * tick],
     exactInput  |-> [n \in 0 .. Bound + 1 |-> IF n <= tick THEN 2 * n ELSE n + tick]] :
    tick \in {0, 4, Bound + 1} }

\* The tokens of the quotes below are others than WETH and USDC.
ASSUME TokensAssumption == Weth \notin {"dai", "uni", "pay"} /\ Usdc # "spot"

VARIABLES a, b

operands == <<a, b>>

Operand == -Bound .. Bound

Init == a \in Operand /\ b \in Operand

PickFirst == a' \in Operand /\ UNCHANGED b

PickSecond == b' \in Operand /\ UNCHANGED a

Next == PickFirst \/ PickSecond

Spec == Init /\ [][Next]_operands

-----------------------------------------------------------------------------
(* Reference definitions on cross products: q is num/den rounded down, or   *)
(* rounded away from zero.                                                  *)

IsFloor(q, num, den) ==
  IF den > 0
  THEN q * den <= num /\ num < (q + 1) * den
  ELSE q * den >= num /\ num > (q + 1) * den

IsAwayFromZero(q, num, den) ==
  LET magnitude == Magnitude(q)
  IN  /\ magnitude * Magnitude(den) >= Magnitude(num)
      /\ num # 0 => (magnitude - 1) * Magnitude(den) < Magnitude(num)
      /\ num * den >= 0 => q >= 0
      /\ num * den <= 0 => q <= 0

\* divDown rounds towards minus infinity for all four sign combinations,
\* although Solidity's own division truncates towards zero (divDown).
DivDownFloors == b # 0 => IsFloor(DivDown(a, b), a, b)

\* The signed preciseDivCeil rounds away from zero on both sides of zero.
DivCeilAwayFromZero ==
  b # 0 => IsAwayFromZero(PreciseDivCeilInt(a, b), a * PreciseUnit, b)

\* preciseMulCeil is the smallest number of base units that covers the
\* product: one more than preciseMul exactly when the product is inexact.
MulCeilCovers ==
  a >= 0 /\ b >= 0 =>
    /\ PreciseMulCeil(a, b) * PreciseUnit >= a * b
    /\ \A q \in 0 .. Bound * Bound :
         q * PreciseUnit >= a * b => PreciseMulCeil(a, b) <= q

\* A real unit written to a SetToken is stored so that the stored position
\* never exceeds the one asked for (an asset is not overstated, a debt not
\* understated), and reading it back loses at most one base unit while the
\* multiplier is at most one, as fees leave it (_convertRealToVirtualUnit,
\* _convertVirtualToRealUnit).
RoundTripTight ==
  b \in 1 .. PreciseUnit =>
    LET virtual == ConvertRealToVirtualUnit(a, b)
    IN  /\ virtual * b <= a * PreciseUnit
        /\ ConvertVirtualToRealUnit(virtual, b) \in {a - 1, a}

-----------------------------------------------------------------------------
(* The off-chain copies: mathUtils, feeModuleUtils *)

Percentage == 0 .. PreciseUnit - 1

\* Wherever the Solidity operation does not revert, the BigNumber copy that
\* the tests and scripts compute expectations with returns the same value,
\* for all sign combinations and although neither mod nor div of a BigNumber
\* is the Solidity one (mathUtils.ts against PreciseUnitMath.sol).
MathUtilsMirrorContract ==
  /\ a >= 0 /\ b >= 0 => /\ preciseMul(a, b) = PreciseMul(a, b)
                         /\ preciseMulCeil(a, b) = PreciseMulCeil(a, b)
  /\ a >= 0 /\ b > 0 => preciseDivCeil(a, b) = PreciseDivCeil(a, b)
  /\ preciseMul(a, b) = PreciseMulInt(a, b)
  /\ b # 0 => /\ preciseDiv(a, b) = PreciseDivInt(a, b)
              /\ preciseDivCeilInt(a, b) = PreciseDivCeilInt(a, b)
              /\ divDown(a, b) = DivDown(a, b)

\* Accruing a streaming fee in the middle of a period never mints more Sets
\* to the fee recipient than accruing it once at the end: neither the
\* rounding of the period nor the compounding of the dilution pays for
\* calling accrueFee often (getStreamingFee, getStreamingFeeInflationAmount).
SplitAccrualNeverMore ==
  \A rate \in Percentage, supply \in 0 .. Bound :
    a \in 0 .. Bound /\ b \in a .. Bound =>
      LET once   == getStreamingFee(rate, 0, b, {})
          first  == getStreamingFee(rate, 0, a, {})
          second == getStreamingFee(rate, a, b, {})
          minted == getStreamingFeeInflationAmount(first, supply)
      IN  once < PreciseUnit =>
            /\ minted + getStreamingFeeInflationAmount(second, supply + minted)
                 <= getStreamingFeeInflationAmount(once, supply)
            /\ getStreamingFee(rate, 0, b, {0}) = 0

\* The Sets minted for a fee are the most that leave the recipient with at
\* most the accrued share of the supply including them, which is what makes
\* a percentage of the supply before minting wrong
\* (getStreamingFeeInflationAmount).
FeeIsShareOfDilutedSupply ==
  \A percent \in Percentage :
    a >= 0 =>
      LET minted == getStreamingFeeInflationAmount(percent, a)
      IN  /\ minted * PreciseUnit <= percent * (a + minted)
          /\ (minted + 1) * PreciseUnit > percent * (a + minted + 1)

\* The units expected after a fee are the ones a SetToken reports after
\* editPositionMultiplier, for assets and debts alike: the off-chain code
\* rounds by sign, the contract always down (getPostFeePositionUnits,
\* SetToken._convertVirtualToRealUnit).
PostFeeUnitsMatchContract ==
  \A percent \in Percentage :
    LET multiplier == PreciseMul(PreciseUnit, PreciseUnit - percent)
    IN  getPostFeePositionUnits(<<a, b>>, percent)
          = <<ConvertVirtualToRealUnit(a, multiplier), ConvertVirtualToRealUnit(b, multiplier)>>

-----------------------------------------------------------------------------
(* Issuance at net asset value *)

\* Together the fees take no more than the whole, and no reserve asset has
\* more decimals than a Set.
NavFees ==
  { fees \in [manager : {0, 1, 2}, share : {0, 3}, direct : {0, 1}, premium : {0, 1}] :
      /\ fees.manager + fees.direct <= PreciseUnit
      /\ fees.share <= PreciseUnit /\ fees.premium <= PreciseUnit }

BaseUnits == {2, PreciseUnit} \cap 1 .. PreciseUnit

Distance(x, y) == Magnitude(x - y)

\* num / den rounded up, for positive operands.
Quotient(num, den) == (num + den - 1) \div den

\* A multiplier expected after NAV issuance (inflation rounded up) or
\* redemption (deflation rounded down) never exceeds the one the contract
\* stores, and falls short by less than one virtual step: units checked with
\* it err on the side of fewer assets (getExpected*PositionMultiplier,
\* _get*PositionMultiplier).
MultiplierQuoteConservative ==
  \A multiplier \in 1 .. 2 * PreciseUnit :
    LET tolerance == Quotient(multiplier, PreciseUnit)
        issue  == GetIssuePositionMultiplier(multiplier, a, b)
                    - getExpectedIssuePositionMultiplier(multiplier, a, b)
        redeem == GetRedeemPositionMultiplier(multiplier, a, b)
                    - getExpectedRedeemPositionMultiplier(multiplier, a, b)
    IN  /\ 0 <= a /\ a <= b /\ b > 0 => issue \in 0 .. tolerance
        /\ 0 < b /\ b <= a => redeem \in 0 .. tolerance

\* What a unit becomes when the SetToken stores it and reports it back.
ReportedUnit(unit, multiplier) ==
  ConvertVirtualToRealUnit(ConvertRealToVirtualUnit(unit, multiplier), multiplier)

\* The larger of the steps lost by the contract (divide, then multiply) and
\* by the quote (multiply, then divide): one of the two quotients is one.
UnitTolerance(multiplier) ==
  Quotient(PreciseUnit, multiplier) + Quotient(multiplier, PreciseUnit) - 1

Valuation == {2, PreciseUnit, 9}

\* The Sets an issuer of a reserve asset should expect are the ones the
\* module mints when the protocol has no share of the manager's fee.  With a
\* share the two split the same total in different parts, so the net reserve
\* is at most one base unit away, and the unit recorded for the reserve at
\* most the conversions' rounding (getExpectedSetTokenIssueQuantity,
\* getExpectedIssuePositionUnit, _getFees, _getSetTokenMintQuantity).
IssueQuoteAgrees ==
  \A fees \in NavFees, valuation \in Valuation, baseUnits \in BaseUnits :
    a >= 0 /\ b > 0 /\ PreciseMul(b, valuation) > 0 =>
      LET net    == GetFees(fees, a).net
          minted == GetSetTokenMintQuantity(fees, net, b, valuation, baseUnits)
      IN  /\ Distance(net, getExpectedPostFeeQuantity(a, fees)) <= 1
          /\ fees.share = 0 =>
               /\ net = getExpectedPostFeeQuantity(a, fees)
               /\ minted = getExpectedSetTokenIssueQuantity(b, valuation, baseUnits, a, fees)
               /\ \A unit \in {0, 3, 7}, multiplier \in {2, PreciseUnit, 13} :
                    LET expected == getExpectedIssuePositionUnit(unit, a, b, b + minted, multiplier, fees)
                        recorded == ReportedUnit(GetIssuePositionUnit(unit, b, b + minted, net), multiplier)
                    IN  Distance(expected, recorded) <= UnitTolerance(multiplier)

\* A redemption quote takes premium and fees in precise units and scales the
\* rest to the reserve asset's decimals, the module scales first and takes
\* them in base units: the two stay within three base units of each other,
\* and the unit left in the Set within that much more per Set
\* (getExpectedReserveRedeemQuantity, getExpectedRedeemPositionUnit,
\* _getRedeemReserveQuantity, _getRedeemPositionUnit).
RedeemQuoteAgrees ==
  \A fees \in NavFees, valuation \in Valuation, baseUnits \in BaseUnits :
    a >= 0 /\ b > a =>
      LET gross == GetRedeemReserveQuantity(fees, a, valuation, baseUnits)
      IN  /\ Distance(GetFees(fees, gross).net,
                      getExpectedReserveRedeemQuantity(a, valuation, baseUnits, fees)) <= 3
          /\ \A unit \in {0, 3, 7}, multiplier \in {2, PreciseUnit, 13} :
               RedeemIsCovered(unit, b, gross) =>
                 LET expected == getExpectedRedeemPositionUnit(unit, a, valuation, baseUnits,
                                                               b, b - a, multiplier, fees)
                     recorded == ReportedUnit(GetRedeemPositionUnit(unit, b, b - a, gross), multiplier)
                 IN  Distance(expected, recorded)
                       <= UnitTolerance(multiplier) + Quotient(PreciseUnit, b - a)

-----------------------------------------------------------------------------
(* Assets in a Uniswap pair *)

Pools == [totalSupply : {7, 20}, reserves : {<<4, 9>>, <<12, 30>>}]

\* The liquidity tokens expected for a deposit are the ones the pair mints,
\* the smaller of the two shares, as long as both have as many decimal
\* digits; with different lengths the helper's string comparison may return
\* the larger one, never anything else (calculateLPTokensIssued, min).
LPQuoteIsMinimum ==
  \A pool \in Pools :
    a >= 0 /\ b >= 0 =>
      LET one    == (a * pool.totalSupply) \div pool.reserves[1]
          two    == (b * pool.totalSupply) \div pool.reserves[2]
          quoted == calculateLPTokensIssued(pool, a, b)
      IN  /\ quoted \in {one, two}
          /\ Decimals(one) = Decimals(two) => quoted <= one /\ quoted <= two

\* Two digits in which a pair of addresses may differ, with their case.
Digit == [digit : {3, 11, 14}, upper : BOOLEAN]

\* The pair holds a of the first asset and b of the second; it keeps them in
\* the numeric order of the addresses.
ReservesAsAsked(one, two) ==
  getReservesSafe(one, two, IF one.digit < two.digit THEN <<a, b>> ELSE <<b, a>>)
    = <<a, b>>

\* The addresses first differ in two letters, one of them a capital.
MixedCase(one, two) == one.digit > 9 /\ two.digit > 9 /\ one.upper # two.upper

\* The reserves come back in the order of the two assets, whichever is passed
\* first, as long as the first digit in which the addresses differ does not
\* set a capital against a small letter (getReservesSafe).
ReservesFollowAssetsInOneCase ==
  \A one, two \in Digit :
    one.digit # two.digit /\ ~MixedCase(one, two) => ReservesAsAsked(one, two)

\* What a Set owns of a pair through its staked liquidity tokens is never
\* more than its share, and taking the quoted quantities of it out of the
\* pair leaves the Set with its reserve percentage of everything it owns of
\* the asset, less than one base unit off (calculateTokensInReserve,
\* calculateEngageQuantities).
EngageReachesPercentage ==
  \A percentage \in Percentage, staked \in {1, 4, 7}, balance \in {0, 5, 14} :
    a >= 0 /\ b >= 0 =>
      LET pool       == [totalSupply |-> 7, reserves |-> <<a, b>>]
          inReserve  == calculateTokensInReserve(pool, staked, [digit |-> 3, upper |-> FALSE],
                                                 [digit |-> 11, upper |-> TRUE])
          balances   == <<balance, b>>
          quantities == calculateEngageQuantities(inReserve, balances, percentage)
      IN  \A i \in 1 .. 2 :
            /\ inReserve[i] * pool.totalSupply <= pool.reserves[i] * staked
            /\ Magnitude((balances[i] + quantities[i]) * PreciseUnit
                            - percentage * (inReserve[i] + balances[i])) < PreciseUnit

\* Selling the quoted quantity at the quoted price leaves the two assets
\* with the same value up to the rounding of the price, whichever of them is
\* sold; a quantity given by the caller only replaces the amount, and the
\* pair never pays more than its own price for it (calculateRebalanceQuantity,
\* calculateRebalanceFlows).
RebalanceEqualizesValue ==
  \A price \in {2, 4, PreciseUnit, 10} :
    a >= 0 /\ b >= 0 =>
      LET sale  == calculateRebalanceQuantity(0, <<a, b>>, price)
          moved == IF sale.sell = 1
                   THEN <<a - sale.quantity, b + preciseMul(sale.quantity, price)>>
                   ELSE <<a + preciseDiv(sale.quantity, price), b - sale.quantity>>
      IN  /\ moved[1] >= 0 /\ moved[2] >= 0
          /\ Distance(moved[1], preciseDiv(moved[2], price))
               <= 1 + 2 * Quotient(PreciseUnit, price)
          /\ \A given \in {0, 3} :
               LET reserves == <<30, 5 * price>>
                   flows    == calculateRebalanceFlows(given, <<a, b>>, price, reserves)
               IN  /\ flows[1] = IF given > 0 THEN given ELSE sale.quantity
                   /\ flows[2] * reserves[sale.sell] <= flows[1] * reserves[sale.buy]

-----------------------------------------------------------------------------
(* Issuance through exchanges *)

\* Two components with a pair on either exchange or both, WETH itself, and a
\* token that the issuer pays with.
Exchanges ==
  LET Pair(weth, token) == [weth |-> weth, token |-> token]
  IN  { [dai |-> Pair(40, 60), uni |-> Pair(30, 20), pay |-> Pair(50, 50)],
        [dai |-> Pair(40, 90), pay |-> Pair(60, 45)],
        [uni |-> Pair(25, 40), dai |-> Pair(11, 35), pay |-> Pair(70, 30)] }

Sets == { <<[token |-> "dai", unit |-> 4], [token |-> "uni", unit |-> 3]>>,
          <<[token |-> Weth, unit |-> 2], [token |-> "dai", unit |-> 5]>>,
          <<[token |-> "uni", unit |-> 2]>> }

\* Every token of the Set has a pair somewhere with enough of it.
Quotable(set, amountSet, uniswap, sushiswap) ==
  /\ amountSet > 0
  /\ \A i \in DOMAIN set :
       LET token  == set[i].token
           amount == componentAmount(set[i], amountSet)
       IN  /\ amount > 0
           /\ token # Weth =>
                /\ hasPair(uniswap, token) \/ hasPair(sushiswap, token)
                /\ \A exchange \in {uniswap, sushiswap} :
                     hasPair(exchange, token) =>
                       amount < exchange[token].token /\ set[i].unit < exchange[token].token

\* The Sets quoted for an amount of ETH, or of a token sold for ETH, can be
\* issued with that amount: quoted backwards they cost no more, with either
\* exchange for each component, and the refund is never negative.  (The second
\* exchange is asked for the price of the token too, and must hold the ETH.
\* getIssueSetForExactETH, getIssueExactSetFromETH and their token forms)
ExactInputQuoteAffordable ==
  \A set \in Sets, uniswap, sushiswap \in Exchanges :
    a > 0 /\ b = 0 =>
      LET ethIn    == AmountOut("token", uniswap["pay"], 4 * a)
          fromEth  == getIssueSetForExactETH(set, 4 * a, uniswap, sushiswap)
          fromPay  == getIssueSetForExactToken(set, "pay", 4 * a, uniswap, sushiswap)
      IN  Quotable(set, PreciseUnit, uniswap, sushiswap) =>
            /\ Quotable(set, fromEth, uniswap, sushiswap) =>
                 getIssueExactSetFromETH(set, fromEth, uniswap, sushiswap) <= 4 * a
            /\ ethIn > 0 /\ Quotable(set, fromPay, uniswap, sushiswap) =>
                 /\ getIssueExactSetFromTokenRefund(set, "pay", 4 * a, fromPay, uniswap, sushiswap)
                      >= 0
                 /\ getIssueExactSetFromETH(set, fromPay, uniswap, sushiswap) < sushiswap["pay"].weth =>
                      getIssueExactSetFromToken(set, "pay", fromPay, uniswap, sushiswap) <= 4 * a

\* On one exchange a Set redeemed for ETH or for a token returns less than
\* the same Set costs to issue, so no quote promises a profit for going
\* round (getRedeemExactSetForETH, getRedeemExactSetForToken).
NoRoundTripProfit ==
  \A set \in Sets, exchange \in Exchanges :
    a > 0 /\ b = 0 /\ Quotable(set, a, exchange, exchange) =>
      LET cost == getIssueExactSetFromETH(set, a, exchange, exchange)
          paid == getIssueExactSetFromToken(set, "pay", a, exchange, exchange)
      IN  /\ getRedeemExactSetForETH(set, a, exchange, exchange) < cost
          /\ cost < exchange["pay"].weth =>
               getRedeemExactSetForToken(set, "pay", a, exchange, exchange) < paid

\* The USDC quoted for an issuance pays for what the module takes of the
\* component and for one base unit more, and the USDC quoted for a redemption
\* is no more than what it returns, or one base unit less, is sold for: both
\* hold when the module rounds by one, and the second is less than the first
\* (getUsdcAmountInForExactSet, getUsdcAmountOutForExactSet).
UsdcQuotesKeepSlack ==
  \A quoter \in Quoters :
    a >= 0 /\ b \in 1 .. Bound =>
      LET components == <<[token |-> Usdc, unit |-> a], [token |-> "spot", unit |-> b]>>
          amountIn   == getUsdcAmountInForExactSet(components, quoter)
          amountOut  == getUsdcAmountOutForExactSet(components, quoter)
      IN  /\ \A n \in {b, b + 1} : quoter.exactOutput[n] <= amountIn - a
          /\ \A n \in {b - 1, b} : amountOut - a <= quoter.exactInput[n]
          /\ amountOut < amountIn

Path1 == { <<x, y>> : x, y \in {<<0, 0>>, <<0, 10>>} }
Path2 == { p \o <<y>> : p \in Path1, y \in {<<0, 0>>, <<5, 0>>} }

\* Two different routes never have the same encoding, although an encoded
\* fee has no delimiter: every fee takes six digits (encodePath).
EncodedPathsDiffer ==
  a >= 0 /\ b >= 0 =>
    LET routes == (Path1 \X {<<fee>> : fee \in {a, b, a * 65536 + b}})
                    \cup (Path2 \X {<<a, b>>, <<b, a>>})
    IN  \A r, s \in routes : encodePath(r[1], r[2]) = encodePath(s[1], s[2]) => r = s

-----------------------------------------------------------------------------
(* Perpetual futures *)

Account(collateral, quote) ==
  [collateralBalance |-> collateral, owedRealizedPnl |-> 2, pendingFundingPayments |-> -1,
   netQuoteBalance |-> quote]

\* Nothing is owed to the account.
SettledAccount(collateral) ==
  [collateralBalance |-> collateral, owedRealizedPnl |-> 0, pendingFundingPayments |-> 0,
   netQuoteBalance |-> 0]

\* Markets whose quotes surround the spot price.
Market(spot) == [spot |-> spot, ask |-> spot + 1, bid |-> spot - 1]

\* The USDC an issuer transfers in for a Set with a long and a short does
\* not depend on the spot prices the slippage is measured from, only on the
\* swap quotes and the account, and the payment without pending funding
\* differs by the funding's share alone (calculateUSDCTransferIn).
SpotPriceCancels ==
  \A spot \in {3, PreciseUnit, 11}, includeFunding \in BOOLEAN :
    LET positions == <<[baseBalance |-> a, quoteBalance |-> -a],
                       [baseBalance |-> b, quoteBalance |-> -b]>>
        In(price) == calculateUSDCTransferInPreciseUnits(
                       Account(40, -a - b), positions,
                       <<[spot |-> price, ask |-> 8, bid |-> 5], [spot |-> price, ask |-> 3, bid |-> 2]>>,
                       2 * PreciseUnit, PreciseUnit, includeFunding)
    IN  In(spot) = In(PreciseUnit)

\* One issuance and the redemption that follows it, in precise units, in
\* USDC, and the position unit in between.
RoundTripNoGain(price, supply) ==
  LET market    == Market(price)
      base      == 8 * a
      quote     == -preciseMul(base, price)
      account   == Account(100, quote)
      before    == <<[baseBalance |-> base, quoteBalance |-> quote]>>
      traded    == preciseMul(preciseDiv(base, supply), PreciseUnit)
      paid      == SwapQuote(market, Magnitude(traded), traded >= 0)
      newQuote  == quote + (IF traded >= 0 THEN -paid ELSE paid)
      amountIn  == calculateUSDCTransferInPreciseUnits(
                     account, before, <<market>>, supply, PreciseUnit, TRUE)
      after     == <<[baseBalance |-> base + traded, quoteBalance |-> newQuote]>>
      issued    == Account(100 + amountIn, newQuote)
      newSupply == supply + PreciseUnit
      amountOut == calculateUSDCTransferOutPreciseUnits(
                     issued, after, <<market>>, newSupply, PreciseUnit, TRUE)
      spread    == SwapQuote(market, Magnitude(traded), TRUE)
                     - SwapQuote(market, Magnitude(traded), FALSE)
      rounding  == IF traded >= 0 THEN 1 + Quotient(Magnitude(newQuote), PreciseUnit) ELSE 0
  IN  /\ amountIn >= 0
      /\ closedValue(issued, after, <<market>>, newSupply, PreciseUnit, TRUE) >= 0
      =>
        /\ amountOut + spread <= amountIn + rounding
        /\ calculateUSDCTransferOut(issued, after, <<market>>, newSupply, PreciseUnit)
             <= calculateUSDCTransferIn(account, before, <<market>>, supply, PreciseUnit)
                  + Quotient(rounding, UsdcScale)
        /\ calculateExternalPositionUnit(issued, newSupply) * UsdcScale * newSupply
             <= issued.collateralBalance * PreciseUnit

\* A Set issued and redeemed at once pays back what it took less the spread
\* of the market, which it pays on the way in and on the way out, for a long
\* and for a short.  A short gains nothing from the roundings, a long at most
\* a base unit and what the rounded share of the quote balance that is closed
\* leaves behind, a precise unit's worth of it.  (A negative amount out comes
\* back positive: the helper takes its magnitude.
\* calculateUSDCTransferInPreciseUnits, calculateUSDCTransferOutPreciseUnits)
PerpRoundTripNoGain ==
  \A price \in {3, PreciseUnit, 11}, supply \in {PreciseUnit, 2 * PreciseUnit, 4 * PreciseUnit} :
    b = 0 /\ a # 0 => RoundTripNoGain(price, supply)

\* One trade: what it reports, its sign, and its quote limit.
ReachesRatio(leverageRatio, price, supply, isLong) ==
  LET collateral == 20 * a
      trade      == leverUp(price, supply, collateral, leverageRatio, isLong)
      base       == preciseMul(trade.baseUnit, supply)
      quote      == preciseMul(base, price)
      limit      == preciseMul(trade.quoteUnit, supply)
      account    == SettledAccount(collateral)
      reported   == calculateLeverageRatios(
                      account, <<[baseBalance |-> base, quoteBalance |-> -quote]>>, <<price>>)[1]
      target     == leverageRatio * PreciseUnit * (IF isLong THEN 1 ELSE -1)
      lost       == 1 + Quotient(price, PreciseUnit) * (1 + Quotient(supply, PreciseUnit))
      allowance  == preciseMul(Magnitude(quote), LeverSlippage)
  IN  /\ Magnitude(reported) <= Magnitude(target)
      /\ Distance(reported, target) * collateral <= PreciseUnit * lost + collateral
      /\ reported # 0 => ~SignsDiffer(reported, target)
      /\ allowance >= lost + Quotient(supply, PreciseUnit) =>
           IF isLong THEN limit >= quote ELSE limit <= -quote

\* A Set levered up and filled at the spot price reports the leverage it was
\* levered to, less the rounding of the trade, negative for a short; and as
\* soon as the slippage allowance covers that rounding, the quote limit
\* submitted with the trade admits the spot price from its own side
\* (leverUp, calculateLeverageRatios).
LeverUpReachesRatio ==
  \A leverageRatio \in 1 .. 3, price \in {3, PreciseUnit, 11},
     supply \in {4, PreciseUnit, 20}, isLong \in BOOLEAN :
    a > 0 /\ b = 0 => ReachesRatio(leverageRatio, price, supply, isLong)

\* What a long earns from funding the opposite short pays, whichever of the
\* two prices is above the other, for the whole position and for the part of
\* it that a number of Sets stands for (getNetFundingGrowth,
\* getUSDCDeltaDueToFundingGrowth).
FundingIsZeroSum ==
  \A twPremium \in {-30, 0, 7, 50}, mark, index \in 1 .. 3 :
    /\ getNetFundingGrowth(a, twPremium, mark, index)
         + getNetFundingGrowth(-a, twPremium, mark, index) = 0
    /\ b > 0 => getUSDCDeltaDueToFundingGrowth(20, b, a, twPremium, mark, index)
                  + getUSDCDeltaDueToFundingGrowth(20, b, -a, twPremium, mark, index) = 0

\* While the margin is not used up, the Sets that may be issued at most
\* leave the debt they add within the margin of the collateral as it is, an
\* unrealized loss taken off, and the allowance for slippage only makes them
\* fewer (calculateMaxIssueQuantity).
MaxIssueWithinMargin ==
  \A slippage \in 0 .. 2, imRatio \in {1, 3, 10}, pnl \in {-7, 0, 5}, debt \in {0, 25} :
    LET supply     == 2 * PreciseUnit
        absValue   == 12
        account    == Account(a, 0)
        collateral == settledCollateral(account, TRUE) + (IF pnl < 0 THEN pnl ELSE 0)
        quantity   == calculateMaxIssueQuantity(account, supply, slippage, imRatio, pnl, debt, absValue)
        addedDebt  == preciseMul(preciseDiv(absValue, supply), quantity)
    IN  b = 0 /\ debt * imRatio <= collateral * RatioScale /\ quantity >= 0 =>
          /\ (debt + addedDebt) * imRatio <= collateral * RatioScale
          /\ quantity <= calculateMaxIssueQuantity(account, supply, 0, imRatio, pnl, debt, absValue)

-----------------------------------------------------------------------------
(* The questions asked of the arithmetic *)

\* The roundings of PreciseUnitMath match reference definitions without
\* division for operands of both signs, and the helpers of mathUtils.ts repeat
\* them exactly.
RoundingsMatchReference ==
  /\ DivDownFloors
  /\ DivCeilAwayFromZero
  /\ MulCeilCovers
  /\ MathUtilsMirrorContract

\* The off-chain quotes of what a dilution of the supply does agree with the
\* contracts up to the stated roundings, in the direction in which a rounding
\* may differ: the Sets minted for a streaming fee, the units and the
\* multiplier left after it, and the Sets, the reserve, the units and the
\* multiplier of a NAV issuance or redemption (feeModuleUtils.ts,
\* navIssuanceModuleUtils.ts).
DilutionQuotesAgree ==
  /\ SplitAccrualNeverMore
  /\ FeeIsShareOfDilutedSupply
  /\ PostFeeUnitsMatchContract
  /\ MultiplierQuoteConservative
  /\ IssueQuoteAgrees
  /\ RedeemQuoteAgrees

\* What is quoted at the price of a market can be carried out at that price:
\* the assets of a pair are not confused when their addresses are written in
\* one case, a Set's share of a pair and the sale that rebalances it are what
\* the quote is for, an issuance through exchanges costs no more than was paid
\* in and buying and selling back gains nothing, and Sets with longs and shorts
\* reach their leverage, only pass funding on and stay within their margin
\* while it is not used up (uniswapUtils.ts, exchangeIssuanceUtils.ts,
\* perpV2Utils.ts).  With addresses of mixed case and with a margin that is
\* used up the quotes are not what they should be.
PricedQuotesSound ==
  /\ ReservesFollowAssetsInOneCase
  /\ EngageReachesPercentage
  /\ RebalanceEqualizesValue
  /\ ExactInputQuoteAffordable
  /\ NoRoundTripProfit
  /\ UsdcQuotesKeepSlack
  /\ SpotPriceCancels
  /\ PerpRoundTripNoGain
  /\ LeverUpReachesRatio
  /\ FundingIsZeroSum
  /\ MaxIssueWithinMargin

\* What is decided on strings of digits is decided as if on numbers and
\* routes: the smaller of two amounts of liquidity tokens, as long as both
\* are as long, and the path of a swap (uniswapUtils.ts,
\* exchangeIssuanceUtils.ts).
StringsStandForNumbers ==
  /\ LPQuoteIsMinimum
  /\ EncodedPathsDiffer

==============================================================================
