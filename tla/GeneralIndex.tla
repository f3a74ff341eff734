---------------------------- MODULE GeneralIndex ----------------------------
(***************************************************************************)
(* GeneralIndexModule: a SetToken is rebalanced to target units by many    *)
(* trades against WETH, sent by traders the manager allows, while Sets are *)
(* issued and redeemed and the streaming fee lowers the multiplier.  The   *)
(* positions, issuance and the fee are those of SetAccounting.             *)
(*                                                                         *)
(* A Set of default positions has no external ones, which the module       *)
(* refuses.  Which exchange a component trades on is left out: an exchange *)
(* moves exactly the fixed quantity, refuses to move nothing, and moves    *)
(* any floating quantity that the trader's limit allows; a trader may pass *)
(* any limit.                                                              *)
(***************************************************************************)
EXTENDS SetAccounting, AddressArrayUtils

CONSTANTS
  Weth,             \* the quote asset of all trades
  Trader,           \* addresses that call the module
  EOA,              \* the ones that are no contracts
  Targets,          \* target units of a rebalance
  Multipliers,      \* multipliers the manager computed targets with
  TradeMaximums,    \* values of maxSize
  CoolOffPeriods,   \* values of coolOffPeriod
  RaisePercentages, \* values of raiseTargetPercentage
  TradeFees,        \* protocol fees on index trades
  Floating          \* WETH spent or received, component bought with the rest

ASSUME IndexAssumption ==
  /\ Weth \in Component
  /\ EOA \subseteq Trader
  /\ Targets \cup Multipliers \cup TradeMaximums \cup CoolOffPeriods
       \cup TradeFees \cup Floating \subseteq Nat
  /\ RaisePercentages \subseteq Nat \ {0}

VARIABLES
  targetUnit,            \* executionInfo.targetUnit
  maxSize,               \* executionInfo.maxSize
  coolOffPeriod,         \* executionInfo.coolOffPeriod
  sinceTrade,            \* block.timestamp - executionInfo.lastTradeTimestamp
  rebalanceComponents,   \* rebalanceInfo.rebalanceComponents (without duplicates)
  rebalanceMultiplier,   \* rebalanceInfo.positionMultiplier
  raiseTargetPercentage, \* rebalanceInfo.raiseTargetPercentage
  anyoneTrade,           \* permissionInfo.anyoneTrade
  tradersHistory,        \* permissionInfo.tradersHistory
  tradeAllowList,        \* permissionInfo.tradeAllowList
  indexOn                \* the module is initialized on the SetToken

executionVars  == <<targetUnit, maxSize, coolOffPeriod, sinceTrade>>
rebalanceVars  == <<rebalanceComponents, rebalanceMultiplier,
                    raiseTargetPercentage>>
permissionVars == <<anyoneTrade, tradersHistory, tradeAllowList>>
moduleVars == <<executionVars, rebalanceVars, permissionVars, indexOn>>
indexVars == <<vars, moduleVars>>

\* Longer waits are not told apart; no trade yet is the longest.
LongAgo == CHOOSE t \in CoolOffPeriods : \A u \in CoolOffPeriods : u <= t

IndexInit ==
  /\ Init
  /\ targetUnit = [c \in Component |-> 0]
  /\ maxSize = [c \in Component |-> 0]
  /\ coolOffPeriod = [c \in Component |-> 0]
  /\ sinceTrade = [c \in Component |-> LongAgo]
  /\ rebalanceComponents = {}
  /\ rebalanceMultiplier = 0
  /\ raiseTargetPercentage = 0
  /\ anyoneTrade = FALSE
  /\ tradersHistory = <<>>
  /\ tradeAllowList = {}
  /\ indexOn = FALSE

-----------------------------------------------------------------------------
(* The manager: initialize, startRebalance and the settings.               *)

\* Every target is the present unit.
InitializeIndex ==
  /\ ~indexOn
  /\ indexOn' = TRUE
  /\ targetUnit' = [c \in Component |-> IF c \in components
                                        THEN DefaultRealUnit(c)
                                        ELSE targetUnit[c]]
  /\ sinceTrade' = [c \in Component |-> IF c \in components THEN LongAgo
                                                            ELSE sinceTrade[c]]
  /\ rebalanceMultiplier' = positionMultiplier
  /\ UNCHANGED <<vars, maxSize, coolOffPeriod, rebalanceComponents,
                 raiseTargetPercentage, permissionVars>>

\* Deleting the struct deletes the history but not the mapping in it.
RemoveIndexByDelete ==
  /\ indexOn
  /\ indexOn' = FALSE
  /\ rebalanceComponents' = {}
  /\ rebalanceMultiplier' = 0
  /\ raiseTargetPercentage' = 0
  /\ anyoneTrade' = FALSE
  /\ tradersHistory' = <<>>
  /\ UNCHANGED <<vars, executionVars, tradeAllowList>>

\* The execution settings, targets included, are kept.
RemoveIndex ==
  /\ indexOn
  /\ indexOn' = FALSE
  /\ rebalanceComponents' = {}
  /\ rebalanceMultiplier' = 0
  /\ raiseTargetPercentage' = 0
  /\ anyoneTrade' = FALSE
  /\ tradersHistory' = <<>>
  /\ tradeAllowList' = tradeAllowList \ Elements(tradersHistory)
  /\ UNCHANGED <<vars, executionVars>>

StartRebalance(newComponents, targets, multiplier) ==
  /\ indexOn
  /\ newComponents \cap components = {}
  /\ rebalanceComponents' = components \cup newComponents
  /\ targetUnit' = [c \in Component |-> IF c \in rebalanceComponents'
                                        THEN targets[c] ELSE targetUnit[c]]
  /\ rebalanceMultiplier' = multiplier
  /\ UNCHANGED <<vars, maxSize, coolOffPeriod, sinceTrade,
                 raiseTargetPercentage, permissionVars, indexOn>>

SetTradeMaximum(c, size) ==
  /\ indexOn
  /\ maxSize' = [maxSize EXCEPT ![c] = size]
  /\ UNCHANGED <<vars, targetUnit, coolOffPeriod, sinceTrade, rebalanceVars,
                 permissionVars, indexOn>>

SetCoolOffPeriod(c, period) ==
  /\ indexOn
  /\ coolOffPeriod' = [coolOffPeriod EXCEPT ![c] = period]
  /\ UNCHANGED <<vars, targetUnit, maxSize, sinceTrade, rebalanceVars,
                 permissionVars, indexOn>>

SetRaiseTargetPercentage(percentage) ==
  /\ indexOn
  /\ percentage > 0
  /\ raiseTargetPercentage' = percentage
  /\ UNCHANGED <<vars, executionVars, rebalanceComponents,
                 rebalanceMultiplier, permissionVars, indexOn>>

\* _updateTradersHistory
UpdatedHistory(trader, status) ==
  IF status /\ trader \notin Elements(tradersHistory)
    THEN Append(tradersHistory, trader)
  ELSE IF ~status /\ trader \in Elements(tradersHistory)
    THEN RemoveStorage(tradersHistory, trader)
  ELSE tradersHistory

SetTraderStatus(trader, status) ==
  /\ indexOn
  /\ tradersHistory' = UpdatedHistory(trader, status)
  /\ tradeAllowList' = IF status THEN tradeAllowList \cup {trader}
                                 ELSE tradeAllowList \ {trader}
  /\ UNCHANGED <<vars, executionVars, rebalanceVars, anyoneTrade, indexOn>>

SetAnyoneTrade(status) ==
  /\ indexOn
  /\ anyoneTrade' = status
  /\ UNCHANGED <<vars, executionVars, rebalanceVars, tradersHistory,
                 tradeAllowList, indexOn>>

-----------------------------------------------------------------------------
(* Units and notional amounts.                                             *)

GetNormalizedTargetUnit(c) ==
  (targetUnit[c] * positionMultiplier) \div rebalanceMultiplier

CurrentNotional(c) == PreciseMul(DefaultRealUnit(c), totalSupply)

TargetNotional(c) == PreciseMulCeil(totalSupply, GetNormalizedTargetUnit(c))

\* Met up to one base unit; a target of zero exactly.  WETH is not checked.
TargetUnmet(c) ==
  /\ c # Weth
  /\ IF GetNormalizedTargetUnit(c) > 0
     THEN DefaultRealUnit(c) \notin
            (GetNormalizedTargetUnit(c) - 1) .. (GetNormalizedTargetUnit(c) + 1)
     ELSE DefaultRealUnit(c) # 0

AllTargetsMet == \A c \in rebalanceComponents : ~TargetUnmet(c)

CanSell(c) == c # Weth /\ GetNormalizedTargetUnit(c) < DefaultRealUnit(c)

NoTokensToSell == \A c \in rebalanceComponents : ~CanSell(c)

IsAllowedTrader(trader) == anyoneTrade \/ trader \in tradeAllowList

MayTrade(trader) == IsAllowedTrader(trader) /\ (anyoneTrade => trader \in EOA)

\* Also: the SetToken obeys initialized modules only, and a logged multiplier
\* of zero (deleted, passed in, or raised away) makes every division revert.
ValidTradeParameters(c) ==
  /\ indexOn
  /\ rebalanceMultiplier > 0
  /\ c # Weth
  /\ c \in rebalanceComponents
  /\ coolOffPeriod[c] <= sinceTrade[c]

Lesser(a, b) == IF a <= b THEN a ELSE b

IsSendTokenFixed(c) == TargetNotional(c) < CurrentNotional(c)

WithoutFee(amount, fee) == amount

\* What must be bought so that the amount after the protocol fee meets the
\* target.
GrossOfFee(amount, fee) == PreciseDiv(amount, PreciseUnit - fee)

MaximumQuantity(c, fee) == maxSize[c]

\* _calculateTradeSizeAndDirection; the fee is subtracted from one on buys.
TotalFixedQuantity(c, fee) ==
  Lesser(maxSize[c],
         IF IsSendTokenFixed(c)
         THEN CurrentNotional(c) - TargetNotional(c)
         ELSE GrossOfFee(TargetNotional(c) - CurrentNotional(c), fee))

-----------------------------------------------------------------------------
(* Trades.                                                                 *)

BalancesBeforeFee(sendToken, taken, receiveToken, delivered, fee) ==
  AfterExchange(sendToken, taken, receiveToken, delivered)

\* The balances positions are computed from: after exchange and fee.
BalancesAfterFee(sendToken, taken, receiveToken, delivered, fee) ==
  [AfterExchange(sendToken, taken, receiveToken, delivered)
     EXCEPT ![receiveToken] = @ - fee]

\* _executeTrade, _accrueProtocolFee and _updatePositionStateAndTimestamp.
Execute(c, sendToken, taken, receiveToken, delivered, feeRate) ==
  LET fee   == PreciseMul(delivered, feeRate)
      seen  == BalancesAfterFee(sendToken, taken, receiveToken, delivered, fee)
  IN
  /\ taken <= balance[sendToken]
  /\ fee <= balance[receiveToken] + delivered
  /\ balance[receiveToken] + delivered - fee <= MaxBalance
  /\ UpdateAccepted(sendToken, receiveToken, seen)
  /\ SetPositions(TradedPositions(sendToken, receiveToken, seen))
  /\ balance' = [AfterExchange(sendToken, taken, receiveToken, delivered)
                   EXCEPT ![receiveToken] = @ - fee]
  /\ sinceTrade' = [sinceTrade EXCEPT ![c] = 0]
  /\ UNCHANGED <<positionMultiplier, totalSupply, paused, streamingVars, issued,
                 unaccrued, targetUnit, maxSize, coolOffPeriod, rebalanceVars,
                 permissionVars, indexOn>>

SellComponent(trader, c, received, feeRate) ==
  /\ MayTrade(trader)
  /\ ValidTradeParameters(c)
  /\ DefaultRealUnit(c) # GetNormalizedTargetUnit(c)
  /\ IsSendTokenFixed(c)
  /\ TotalFixedQuantity(c, feeRate) > 0
  /\ Execute(c, c, TotalFixedQuantity(c, feeRate), Weth, received, feeRate)

BuyComponent(trader, c, spent, feeRate) ==
  /\ MayTrade(trader)
  /\ ValidTradeParameters(c)
  /\ DefaultRealUnit(c) # GetNormalizedTargetUnit(c)
  /\ ~IsSendTokenFixed(c)
  /\ feeRate < PreciseUnit
  /\ TotalFixedQuantity(c, feeRate) > 0
  /\ Execute(c, Weth, spent, c, TotalFixedQuantity(c, feeRate), feeRate)

LoggedWethToKeep == PreciseMulCeil(totalSupply, targetUnit[Weth])

\* The notional WETH target that _createTradeRemainingInfo leaves behind.
WethToKeep == TargetNotional(Weth)

TradeRemainingWETH(trader, c, received, feeRate) ==
  /\ MayTrade(trader)
  /\ ValidTradeParameters(c)
  /\ NoTokensToSell
  /\ targetUnit[Weth] < DefaultRealUnit(Weth)
  /\ CurrentNotional(Weth) > WethToKeep
  /\ Execute(c, Weth, CurrentNotional(Weth) - WethToKeep, c, received, feeRate)
  /\ received < maxSize[c]
  /\ DefaultRealUnit(c)' <= GetNormalizedTargetUnit(c)

\* Callable by contracts too, even under anyoneTrade.
RaiseAssetTargets(trader) ==
  /\ IsAllowedTrader(trader)
  /\ rebalanceMultiplier > 0
  /\ AllTargetsMet
  /\ DefaultRealUnit(Weth) > GetNormalizedTargetUnit(Weth)
  /\ rebalanceMultiplier' =
       PreciseDiv(rebalanceMultiplier, PreciseUnit + raiseTargetPercentage)
  /\ UNCHANGED <<vars, executionVars, rebalanceComponents,
                 raiseTargetPercentage, permissionVars, indexOn>>

-----------------------------------------------------------------------------
(* Issuance, redemption, fees and time, as in SetAccounting.               *)

TimePasses ==
  /\ \/ Tick
     \/ ~streamingOn /\ UNCHANGED vars
  /\ sinceTrade' = [c \in Component |-> Lesser(sinceTrade[c] + 1, LongAgo)]
  /\ UNCHANGED <<targetUnit, maxSize, coolOffPeriod, rebalanceVars,
                 permissionVars, indexOn>>

Others ==
  /\ \/ \E q \in Quantities : Issue(q)
     \/ \E q \in Quantities, f \in FeeRates : Redeem(q, f)
     \/ \E mf, f \in StreamingRates : InitializeStreaming(mf, f)
     \/ \E pf \in FeeRates : AccrueFee(pf)
  /\ UNCHANGED moduleVars

\* The settings of WETH itself are never read.
Traded == Component \ {Weth}

IndexNext ==
  \/ InitializeIndex
  \/ RemoveIndex
  \/ \E new \in SUBSET Component, t \in [Component -> Targets],
        m \in Multipliers : StartRebalance(new, t, m)
  \/ \E c \in Traded, s \in TradeMaximums : SetTradeMaximum(c, s)
  \/ \E c \in Traded, p \in CoolOffPeriods : SetCoolOffPeriod(c, p)
  \/ \E p \in RaisePercentages : SetRaiseTargetPercentage(p)
  \/ \E t \in Trader, s \in BOOLEAN : SetTraderStatus(t, s)
  \/ \E s \in BOOLEAN : SetAnyoneTrade(s)
  \/ \E t \in Trader, c \in Traded, r \in Floating, f \in TradeFees :
       SellComponent(t, c, r, f)
  \/ \E t \in Trader, c \in Traded, s \in Floating, f \in TradeFees :
       BuyComponent(t, c, s, f)
  \/ \E t \in Trader, c \in Traded, r \in Floating, f \in TradeFees :
       TradeRemainingWETH(t, c, r, f)
  \/ \E t \in Trader : RaiseAssetTargets(t)
  \/ TimePasses
  \/ Others

IndexSpec == IndexInit /\ [][IndexNext]_indexVars

-----------------------------------------------------------------------------
(* Properties.                                                             *)

\* The allow list that trade and raiseAssetTargets consult, and the history
\* that removeModule clears it by, name the same traders; a SetToken without
\* the module has left nobody a permission.
PermissionsTracked ==
  /\ ~HasDuplicate(tradersHistory)
  /\ Elements(tradersHistory) = tradeAllowList
  /\ ~indexOn => tradeAllowList = {} /\ ~anyoneTrade

\* The SetToken holds the notional amount that the trade sizes are computed
\* from.  Fees can leave it short by one base unit for every Set ever issued,
\* and a trade that then sells the whole balance ends the position wherever
\* its target is.
HeldInFull(c) == CurrentNotional(c) <= balance[c]

\* Once a whole Set exists, a trade moves a component towards its normalized
\* target without passing it, whatever the fee, the maximum and the rounding
\* of notional amounts and virtual units: bought, it does not end above the
\* target; sold, not more than the one base unit below that _targetUnmet
\* tolerates.
TargetNotCrossed ==
  [][totalSupply >= PreciseUnit =>
       \A c \in Traded :
         /\ HeldInFull(c)
         /\ virtualUnit'[c] # virtualUnit[c]
         /\ balance'[c] # balance[c]
         =>
           LET target == GetNormalizedTargetUnit(c) IN
           IF DefaultRealUnit(c) <= target
           THEN DefaultRealUnit(c)' \in (DefaultRealUnit(c) - 1) .. target
           ELSE DefaultRealUnit(c)' \in (target - 1) .. DefaultRealUnit(c)]_indexVars

\* tradeRemainingWETH spends the "remaining WETH amount (above WETH target)":
\* afterwards WETH is not more than one base unit below its target, also when
\* fees or raised targets have moved the target since the rebalance began.
WethTargetKept ==
  [][totalSupply >= PreciseUnit /\ HeldInFull(Weth) =>
       \A t \in Trader, c \in Traded, r \in Floating, f \in TradeFees :
         TradeRemainingWETH(t, c, r, f) =>
           DefaultRealUnit(Weth)' >= GetNormalizedTargetUnit(Weth) - 1]_indexVars

\* A trade that the maximum does not cut short meets its target, up to the one
\* base unit of _targetUnmet, although a protocol fee is taken from what is
\* bought: the size is divided by one minus the fee, for "Failure to do so would
\* lead to never being able to meet target of components that need to be
\* bought".
UncappedTradeMeetsTarget ==
  [][totalSupply >= PreciseUnit =>
       \A t \in Trader, c \in Traded, a \in Floating, f \in TradeFees :
         /\ HeldInFull(c)
         /\ SellComponent(t, c, a, f) \/ BuyComponent(t, c, a, f)
         /\ TotalFixedQuantity(c, f) < maxSize[c]
         => ~TargetUnmet(c)']_indexVars
==============================================================================
