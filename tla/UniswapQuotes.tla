--------------------------- MODULE UniswapQuotes ---------------------------
(***************************************************************************)
(* The expectations that utils/common/uniswapUtils.ts computes for a Set   *)
(* that keeps assets in a Uniswap pair.                                    *)
(*                                                                         *)
(* The helpers compare BigNumbers with the JavaScript operators, which     *)
(* compare the decimal strings of two objects, and their identity for ==.  *)
(* So the branch for an empty pool is never taken (totalSupply == ZERO is  *)
(* false for the object that a call returns), which leaves its square root *)
(* unused, and a "minimum" is the one of two decimal strings.              *)
(*                                                                         *)
(* GetAmountOut and GetAmountIn are what the routers answer for one pair.  *)
(* UniswapV2Router02 hands the question to the library of Uniswap's        *)
(* periphery package, whose constant product formula with a fee of 0.3% is *)
(* not part of the repository (its own UniswapV2Library only sorts tokens  *)
(* and finds pairs and reserves).                                          *)
(***************************************************************************)
EXTENDS MathUtils, Sequences

GetAmountOut(amountIn, reserveIn, reserveOut) ==
  (amountIn * 997 * reserveOut) \div (reserveIn * 1000 + amountIn * 997)

GetAmountIn(amountOut, reserveIn, reserveOut) ==
  ((reserveIn * amountOut * 1000) \div ((reserveOut - amountOut) * 997)) + 1

-----------------------------------------------------------------------------
(* JavaScript comparisons *)

Decimals(n) == CHOOSE d \in 1 .. 9 : n < 10 ^ d /\ (d = 1 \/ n >= 10 ^ (d - 1))

\* x < y on the decimal strings of two naturals below 10 ^ 6: the first
\* different digit decides, then the length.
DecimalStringLess(x, y) ==
  LET padded(n) == n * 10 ^ (6 - Decimals(n))
  IN  \/ padded(x) < padded(y)
      \/ padded(x) = padded(y) /\ Decimals(x) < Decimals(y)

\* The two strings in the wrong order.
uniswapMinSwapped(valueOne, valueTwo) ==
  IF DecimalStringLess(valueOne, valueTwo) THEN valueTwo ELSE valueOne

\* min of uniswapUtils.ts, which is not the one of mathUtils.ts.
uniswapMin(valueOne, valueTwo) ==
  IF DecimalStringLess(valueOne, valueTwo) THEN valueOne ELSE valueTwo

\* An address is the first hexadecimal digit in which two addresses differ,
\* with the case its checksum gives it; '0'-'9' < 'A'-'F' < 'a'-'f'.
CharCode(address) ==
  IF address.digit < 10 THEN 48 + address.digit
  ELSE IF address.upper THEN 55 + address.digit
  ELSE 87 + address.digit

\* The reserves in the order of the pair, whatever the assets.
reservesUnordered(assetOne, assetTwo, reserves) == reserves

\* reserves are in the numeric order of the two addresses.
getReservesSafe(assetOne, assetTwo, reserves) ==
  IF CharCode(assetOne) < CharCode(assetTwo)
  THEN reserves
  ELSE <<reserves[2], reserves[1]>>

-----------------------------------------------------------------------------
(* Quotes *)

\* pool: totalSupply and the reserves of the pair, neither of them zero.
calculateLPTokensIssued(pool, amountOne, amountTwo) ==
  uniswapMin(TruncDiv(amountOne * pool.totalSupply, pool.reserves[1]),
             TruncDiv(amountTwo * pool.totalSupply, pool.reserves[2]))

calculateTokensInReserve(pool, lpTokenBalance, assetOne, assetTwo) ==
  LET reserves == getReservesSafe(assetOne, assetTwo, pool.reserves)
  IN  [i \in 1 .. 2 |-> preciseMul(preciseDiv(reserves[i], pool.totalSupply), lpTokenBalance)]

\* The share of the balance alone, without what the reserve already has.
engageQuantitiesOfBalance(inReserve, balances, reservePercentage) ==
  [i \in 1 .. 2 |-> preciseMul(inReserve[i], reservePercentage)
                      - preciseMul(balances[i], reservePercentage)]

\* inReserve is calculateTokensInReserve, balances what the Set holds with
\* the extra amounts added.
calculateEngageQuantities(inReserve, balances, reservePercentage) ==
  [i \in 1 .. 2 |-> preciseMul(inReserve[i], reservePercentage)
                      - preciseMul(balances[i], PreciseUnit - reservePercentage)]

\* The sale of the whole difference.
rebalanceQuantityInFull(sellTokenQuantity, balances, price) ==
  LET valueTwo == preciseDiv(balances[2], price)
  IN  IF balances[1] > valueTwo
      THEN [quantity |-> balances[1] - valueTwo, sell |-> 1, buy |-> 2]
      ELSE [quantity |-> preciseMul(valueTwo - balances[1], price), sell |-> 2, buy |-> 1]

\* A positive sellTokenQuantity replaces the quantity and not the direction.
calculateRebalanceQuantity(sellTokenQuantity, balances, price) ==
  LET valueTwo == preciseDiv(balances[2], price)
      excess   == TruncDiv(balances[1] - valueTwo, 2)
      oneIsMore == balances[1] > valueTwo
      quantity == IF sellTokenQuantity > 0 THEN sellTokenQuantity
                  ELSE IF oneIsMore THEN excess
                  ELSE preciseMul(-excess, price)
  IN  [quantity |-> quantity,
       sell |-> IF oneIsMore THEN 1 ELSE 2, buy |-> IF oneIsMore THEN 2 ELSE 1]

\* The amounts of the router's path: sold and bought.
calculateRebalanceFlows(sellTokenQuantity, balances, price, reserves) ==
  LET sale == calculateRebalanceQuantity(sellTokenQuantity, balances, price)
  IN  <<sale.quantity,
        GetAmountOut(sale.quantity, reserves[sale.sell], reserves[sale.buy])>>
=============================================================================
