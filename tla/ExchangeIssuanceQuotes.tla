----------------------- MODULE ExchangeIssuanceQuotes -----------------------
(***************************************************************************)
(* The quotes of utils/common/exchangeIssuanceUtils.ts: what it costs to   *)
(* issue a Set through exchanges, how many Sets an amount buys, and what a *)
(* redemption returns.                                                     *)
(*                                                                         *)
(* A Set is a sequence of records (token, unit).  An exchange is a function*)
(* from the tokens that have a pair with WETH to the reserves of the pair. *)
(* The routers revert on an amount that is zero or empties the pair; the   *)
(* quotes then throw, so they are stated for amounts in between.           *)
(***************************************************************************)
EXTENDS UniswapQuotes, Functions

LOCAL INSTANCE SequencesExt

CONSTANTS Weth, Usdc,   \* the addresses of the two tokens
          MaxUint256

ASSUME MaxUint256Assumption == MaxUint256 \in Nat \ {0}

\* The routers' answers (getAmountsIn, getAmountsOut) for one pair with WETH,
\* in which ether or the token is paid in.
AmountIn(paid, pair, amountOut) ==
  IF paid = "ether" THEN GetAmountIn(amountOut, pair.weth, pair.token)
                    ELSE GetAmountIn(amountOut, pair.token, pair.weth)

AmountOut(paid, pair, amountIn) ==
  IF paid = "ether" THEN GetAmountOut(amountIn, pair.weth, pair.token)
                    ELSE GetAmountOut(amountIn, pair.token, pair.weth)

hasPair(exchange, token) == token \in DOMAIN exchange

\* The two ways every quote compares the exchanges: the amount of one that
\* has no pair is the worst possible.
cheapest(paid, token, amount, uniswap, sushiswap) ==
  LET cost(exchange) == IF hasPair(exchange, token)
                        THEN AmountIn(paid, exchange[token], amount) ELSE MaxUint256
  IN  min(cost(uniswap), cost(sushiswap))

best(paid, token, amount, uniswap, sushiswap) ==
  LET proceeds(exchange) == IF hasPair(exchange, token)
                            THEN AmountOut(paid, exchange[token], amount) ELSE 0
  IN  IF proceeds(uniswap) > proceeds(sushiswap)
      THEN proceeds(uniswap) ELSE proceeds(sushiswap)

-----------------------------------------------------------------------------

\* The price of the exchange that is asked first.
getInputAmountFirstPrice(token, amount, uniswap, sushiswap) ==
  IF token = Weth THEN amount
  ELSE IF hasPair(uniswap, token) THEN AmountIn("ether", uniswap[token], amount)
  ELSE AmountIn("ether", sushiswap[token], amount)

getInputAmountBestPrice(token, amount, uniswap, sushiswap) ==
  IF token = Weth THEN amount ELSE cheapest("ether", token, amount, uniswap, sushiswap)

\* ethInput is split over the components by what one Set costs of each; the
\* component that got least of its units decides how many Sets that makes.
getIssueSetForExactETH(set, ethInput, uniswap, sushiswap) ==
  LET ethFor == [i \in DOMAIN set |->
                   getInputAmountBestPrice(set[i].token, set[i].unit, uniswap, sushiswap)]
      scaled == [i \in DOMAIN set |-> (ethFor[i] * ethInput) \div SumFunction(ethFor)]
      out    == [i \in DOMAIN set |->
                   IF set[i].token = Weth THEN scaled[i]
                   ELSE best("ether", set[i].token, scaled[i], uniswap, sushiswap)]
      sets   == [i \in DOMAIN set |-> (out[i] * PreciseUnit) \div set[i].unit]
  IN  FoldFunction(min, MaxUint256, sets)

\* The input token is always sold on the first exchange.
getIssueSetForExactToken(set, inputToken, inputAmount, uniswap, sushiswap) ==
  LET ethInput == IF inputToken = Weth THEN inputAmount
                  ELSE AmountOut("token", uniswap[inputToken], inputAmount)
  IN  getIssueSetForExactETH(set, ethInput, uniswap, sushiswap)

componentAmount(component, amountSet) == (amountSet * component.unit) \div PreciseUnit

getIssueExactSetFromETH(set, amountSet, uniswap, sushiswap) ==
  SumFunction([i \in DOMAIN set |->
           getInputAmountBestPrice(set[i].token, componentAmount(set[i], amountSet),
                                   uniswap, sushiswap)])

getIssueExactSetFromToken(set, inputToken, amountSet, uniswap, sushiswap) ==
  LET ethCost == getIssueExactSetFromETH(set, amountSet, uniswap, sushiswap)
  IN  IF inputToken = Weth THEN ethCost
      ELSE cheapest("token", inputToken, ethCost, uniswap, sushiswap)

getIssueExactSetFromTokenRefund(set, inputToken, inputAmount, amountSet, uniswap, sushiswap) ==
  LET inputEthValue == IF inputToken = Weth THEN inputAmount
                       ELSE AmountOut("token", uniswap[inputToken], inputAmount)
  IN  inputEthValue - getIssueExactSetFromETH(set, amountSet, uniswap, sushiswap)

\* A redemption quoted at the price of a purchase.
redeemQuotedAsPurchase(set, amountSet, uniswap, sushiswap) ==
  getIssueExactSetFromETH(set, amountSet, uniswap, sushiswap)

getRedeemExactSetForETH(set, amountSet, uniswap, sushiswap) ==
  SumFunction([i \in DOMAIN set |->
           LET amount == componentAmount(set[i], amountSet)
           IN  IF set[i].token = Weth THEN amount
               ELSE best("token", set[i].token, amount, uniswap, sushiswap)])

getRedeemExactSetForToken(set, outputToken, amountSet, uniswap, sushiswap) ==
  LET ethOut == getRedeemExactSetForETH(set, amountSet, uniswap, sushiswap)
  IN  IF outputToken = Weth THEN ethOut ELSE AmountOut("ether", uniswap[outputToken], ethOut)

-----------------------------------------------------------------------------
(* USDC quotes for SlippageIssuanceModule: components are the records       *)
(* (token, unit) that the module requires or returns.  quoter answers for   *)
(* the one path that every other token is swapped along: exactOutput[n] is  *)
(* the USDC that n of the token cost, exactInput[n] the USDC that n of it   *)
(* are sold for.                                                            *)

\* The purchase of one base unit too few.
usdcAmountInWithoutSlack(components, quoter) ==
  SumFunction([i \in DOMAIN components |->
           IF components[i].token = Usdc THEN components[i].unit
           ELSE quoter.exactOutput[components[i].unit - 1]])

getUsdcAmountInForExactSet(components, quoter) ==
  SumFunction([i \in DOMAIN components |->
           IF components[i].token = Usdc THEN components[i].unit
           ELSE quoter.exactOutput[components[i].unit + 1]])

getUsdcAmountOutForExactSet(components, quoter) ==
  SumFunction([i \in DOMAIN components |->
           IF components[i].token = Usdc THEN components[i].unit
           ELSE quoter.exactInput[components[i].unit - 1]])

-----------------------------------------------------------------------------
(* Uniswap v3 paths as sequences of hexadecimal digits.  Addresses are such *)
(* sequences of one length; lower-casing leaves their digits alone.         *)

FeeSize == 6

\* The digits of n, padded with zeros to a number of digits.
HexDigits(n, count) == [i \in 1 .. count |-> (n \div 16 ^ (count - i)) % 16]

\* hexlify writes whole bytes: an even number of digits.  A fee is a uint24.
HexlifiedSize(n) == CHOOSE size \in {2, 4, 6} : n < 16 ^ size /\ (size = 2 \/ n >= 16 ^ (size - 2))

\* The path with every fee as short as hexlify makes it.
encodePathUnpadded(path, fees) ==
  FlattenSeq([i \in DOMAIN fees |-> path[i] \o HexDigits(fees[i], HexlifiedSize(fees[i]))])
    \o path[Len(path)]

\* Stated for Len(path) = Len(fees) + 1, which the code requires.
encodePath(path, fees) ==
  FlattenSeq([i \in DOMAIN fees |-> path[i] \o HexDigits(fees[i], FeeSize)]) \o path[Len(path)]

=============================================================================
