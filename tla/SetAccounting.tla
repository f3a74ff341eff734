---------------------------- MODULE SetAccounting ----------------------------
(***************************************************************************)
(* The value accounting of one SetToken whose positions are all default    *)
(* positions, together with the modules that move its value:               *)
(* BasicIssuanceModule, StreamingFeeModule, AirdropModule, TradeModule and *)
(* PositionUnitAdjusterModule.                                             *)
(*                                                                         *)
(* Each contract call is one atomic step: a transaction runs alone and a   *)
(* revert undoes it.  What interleaves is the order of transactions sent   *)
(* by issuers, redeemers, the manager, fee callers and donors.  The amount *)
(* a user owns individually is abstracted to the total supply; a protocol  *)
(* fee rate, which the controller's owner can edit at any time and without *)
(* an upper bound, is chosen afresh at every use.                          *)
(***************************************************************************)
EXTENDS PreciseUnitMath

CONSTANTS
  Component,       \* token addresses that can become components
  OneYear,         \* ONE_YEAR_IN_SECONDS, in ticks
  InitialUnits,    \* units a SetToken may be created with
  Quantities,      \* Set quantities issued or redeemed in one call
  TradeUnits,      \* _sendQuantity and _minReceiveQuantity of a trade
  Receivable,      \* amounts an exchange may deliver
  Donations,       \* amounts transferred to the SetToken from outside
  RequestedUnits,  \* _requestedUnits of an adjustment
  FeeRates,        \* protocol and airdrop fee rates that may be configured
  StreamingRates,  \* streaming fee rates a manager may ask for
  MaxSupply,       \* bound on totalSupply
  MaxBalance,      \* bound on a component balance
  MaxElapsed,      \* bound on the time between two accruals
  MaxIssued        \* bound on the quantity issued over a behaviour

ASSUME AccountingAssumption ==
  /\ OneYear \in Nat \ {0}
  /\ InitialUnits \subseteq Nat \ {0}
  /\ Quantities \subseteq Nat \ {0}
  /\ TradeUnits \subseteq Nat
  /\ Receivable \subseteq Nat
  /\ Donations \subseteq Nat \ {0}
  /\ RequestedUnits \subseteq Nat
  /\ FeeRates \subseteq Nat
  /\ StreamingRates \subseteq Nat
  /\ {MaxSupply, MaxBalance, MaxElapsed, MaxIssued} \subseteq Nat

VARIABLES
  components,          \* SetToken.components (no order is relied upon here)
  virtualUnit,         \* componentPositions[c].virtualUnit
  positionMultiplier,  \* SetToken.positionMultiplier
  totalSupply,         \* ERC20 supply of the SetToken
  balance,             \* component.balanceOf(setToken)
  paused,              \* Pausable state of the BasicIssuanceModule
  streamingOn,         \* StreamingFeeModule initialized on the SetToken
  maxStreamingFee,     \* feeStates.maxStreamingFeePercentage
  streamingFee,        \* feeStates.streamingFeePercentage
  elapsed,             \* block.timestamp - lastStreamingFeeTimestamp
  issued,              \* history: Sets ever issued against components
  unaccrued            \* history: rate x time not yet charged for

positionVars  == <<components, virtualUnit, positionMultiplier>>
streamingVars == <<streamingOn, maxStreamingFee, streamingFee, elapsed>>
vars == <<positionVars, totalSupply, balance, paused, streamingVars,
          issued, unaccrued>>

-----------------------------------------------------------------------------
(* Positions.  A position record [components, units] lets one transaction  *)
(* edit several positions in sequence, as the code does.                   *)

Positions == [components |-> components, units |-> virtualUnit]

RealUnit(p, c) == ConvertVirtualToRealUnit(p.units[c], positionMultiplier)

DefaultRealUnit(c) == RealUnit(Positions, c)

\* Position.editDefaultPosition is accepted: addComponent and removeComponent
\* find the component list as they require it, and the unit can be converted.
EditAccepted(p, c, newUnit) ==
  /\ RealUnit(p, c) = 0 /\ newUnit > 0 => c \notin p.components
  /\ RealUnit(p, c) > 0 /\ newUnit = 0 => c \in p.components
  /\ ConvertibleUnit(newUnit, positionMultiplier)

EditDefaultPosition(p, c, newUnit) ==
  [components |-> IF RealUnit(p, c) = 0 /\ newUnit > 0
                    THEN p.components \cup {c}
                  ELSE IF RealUnit(p, c) > 0 /\ newUnit = 0
                    THEN p.components \ {c}
                  ELSE p.components,
   units |-> [p.units EXCEPT
               ![c] = ConvertRealToVirtualUnit(newUnit, positionMultiplier)]]

\* What the SetToken holds of c beyond its tracked position.
AirdroppedAmount(p, c, preBalance) ==
  preBalance - PreciseMul(RealUnit(p, c), totalSupply)

\* Position.calculateDefaultEditPositionUnit, and 0 when nothing is left.
CalculateDefaultEditPositionUnit(p, c, preBalance, currentBalance) ==
  IF currentBalance = 0 THEN 0
  ELSE PreciseDiv(currentBalance - AirdroppedAmount(p, c, preBalance),
                  totalSupply)

CalculateAndEditAccepted(p, c, preBalance, currentBalance) ==
  /\ currentBalance > 0 =>
       /\ AirdroppedAmount(p, c, preBalance) >= 0
       /\ currentBalance >= AirdroppedAmount(p, c, preBalance)
       /\ totalSupply > 0
  /\ EditAccepted(p, c, CalculateDefaultEditPositionUnit(
                          p, c, preBalance, currentBalance))

CalculateAndEditDefaultPosition(p, c, preBalance, currentBalance) ==
  EditDefaultPosition(p, c, CalculateDefaultEditPositionUnit(
                              p, c, preBalance, currentBalance))

SetPositions(p) ==
  /\ components' = p.components
  /\ virtualUnit' = p.units

-----------------------------------------------------------------------------
(* SetTokenCreator.create and the SetToken constructor: distinct           *)
(* components with positive units, multiplier one, nothing issued.         *)

Init ==
  /\ components \in (SUBSET Component) \ {{}}
  /\ \E units \in [Component -> InitialUnits] :
       virtualUnit = [c \in Component |->
                        IF c \in components THEN units[c] ELSE 0]
  /\ positionMultiplier = PreciseUnit
  /\ totalSupply = 0
  /\ balance = [c \in Component |-> 0]
  /\ paused = FALSE
  /\ streamingOn = FALSE
  /\ maxStreamingFee = 0
  /\ streamingFee = 0
  /\ elapsed = 0
  /\ issued = 0
  /\ unaccrued = 0

-----------------------------------------------------------------------------
(* BasicIssuanceModule.  The optional pre-issue hook runs before any unit  *)
(* is read, so whatever it does to the Set is a step before Issue.         *)

RequiredForIssue(c, quantity) == PreciseMulCeil(DefaultRealUnit(c), quantity)

RedeemedFor(c, quantity) == PreciseMul(DefaultRealUnit(c), quantity)

Issue(quantity) ==
  /\ ~paused
  /\ quantity > 0
  /\ totalSupply + quantity <= MaxSupply
  /\ issued + quantity <= MaxIssued
  /\ \A c \in components :
       balance[c] + RequiredForIssue(c, quantity) <= MaxBalance
  /\ balance' = [c \in Component |->
                   IF c \in components
                   THEN balance[c] + RequiredForIssue(c, quantity)
                   ELSE balance[c]]
  /\ totalSupply' = totalSupply + quantity
  /\ issued' = issued + quantity
  /\ UNCHANGED <<positionVars, paused, streamingVars, unaccrued>>

\* The protocol fee and the redeemer's share both leave the SetToken.
Redeem(quantity, feeRate) ==
  /\ quantity > 0
  /\ quantity <= totalSupply
  /\ \A c \in components :
       /\ PreciseMul(RedeemedFor(c, quantity), feeRate)
            <= RedeemedFor(c, quantity)
       /\ RedeemedFor(c, quantity) <= balance[c]
  /\ balance' = [c \in Component |->
                   IF c \in components
                   THEN balance[c] - RedeemedFor(c, quantity)
                   ELSE balance[c]]
  /\ totalSupply' = totalSupply - quantity
  /\ UNCHANGED <<positionVars, paused, streamingVars, issued, unaccrued>>

Pause ==
  /\ ~paused
  /\ paused' = TRUE
  /\ UNCHANGED <<positionVars, totalSupply, balance, streamingVars, issued,
                 unaccrued>>

Unpause ==
  /\ paused
  /\ paused' = FALSE
  /\ UNCHANGED <<positionVars, totalSupply, balance, streamingVars, issued,
                 unaccrued>>

-----------------------------------------------------------------------------
(* AirdropModule.absorb, and the token transfer that precedes it.          *)

Donate(c, amount) ==
  /\ balance[c] + amount <= MaxBalance
  /\ balance' = [balance EXCEPT ![c] = @ + amount]
  /\ UNCHANGED <<positionVars, totalSupply, paused, streamingVars, issued,
                 unaccrued>>

AirdropFees(c, airdropFee) ==
  PreciseMul(AirdroppedAmount(Positions, c, balance[c]), airdropFee)

PostAirdropUnitBeforeFees(c, airdropFee) == PreciseDiv(balance[c], totalSupply)

PostAirdropUnit(c, airdropFee) ==
  PreciseDiv(balance[c] - AirdropFees(c, airdropFee), totalSupply)

Absorb(c, airdropFee, protocolFee) ==
  /\ airdropFee <= PreciseUnit
  /\ AirdroppedAmount(Positions, c, balance[c]) > 0
  /\ PreciseMul(AirdropFees(c, airdropFee), protocolFee)
       <= AirdropFees(c, airdropFee)
  /\ totalSupply > 0
  /\ EditAccepted(Positions, c, PostAirdropUnit(c, airdropFee))
  /\ SetPositions(EditDefaultPosition(Positions, c,
                                      PostAirdropUnit(c, airdropFee)))
  /\ balance' = [balance EXCEPT ![c] = @ - AirdropFees(c, airdropFee)]
  /\ UNCHANGED <<positionMultiplier, totalSupply, paused, streamingVars,
                 issued, unaccrued>>

-----------------------------------------------------------------------------
(* TradeModule.trade.  The exchange is external: it takes at most the      *)
(* approved amount of the send token and delivers any amount of the        *)
(* receive token.  Nothing in the code keeps the two tokens different.     *)

AfterExchange(sendToken, taken, receiveToken, delivered) ==
  [[balance EXCEPT ![sendToken] = @ - taken]
      EXCEPT ![receiveToken] = @ + delivered]

Exchanged(post, receiveToken) == post[receiveToken] - balance[receiveToken]

TradedPositions(sendToken, receiveToken, final) ==
  CalculateAndEditDefaultPosition(
    CalculateAndEditDefaultPosition(
      Positions, sendToken, balance[sendToken], final[sendToken]),
    receiveToken, balance[receiveToken], final[receiveToken])

UpdateAccepted(sendToken, receiveToken, final) ==
  /\ CalculateAndEditAccepted(
       Positions, sendToken, balance[sendToken], final[sendToken])
  /\ CalculateAndEditAccepted(
       CalculateAndEditDefaultPosition(
         Positions, sendToken, balance[sendToken], final[sendToken]),
       receiveToken, balance[receiveToken], final[receiveToken])
  /\ balance[sendToken] >= final[sendToken]
  /\ final[receiveToken] >= balance[receiveToken]

Trade(sendToken, sendUnit, receiveToken, minUnit, taken, delivered, feeRate) ==
  LET totalSend == PreciseMul(totalSupply, sendUnit)
      post  == AfterExchange(sendToken, taken, receiveToken, delivered)
      fee   == PreciseMul(Exchanged(post, receiveToken), feeRate)
      final == [post EXCEPT ![receiveToken] = @ - fee]
  IN
  /\ totalSend > 0
  /\ DefaultRealUnit(sendToken) >= sendUnit
  /\ taken <= totalSend /\ taken <= balance[sendToken]
  /\ Exchanged(post, receiveToken) >= PreciseMul(totalSupply, minUnit)
  /\ fee <= post[receiveToken]
  /\ post[receiveToken] <= MaxBalance
  /\ UpdateAccepted(sendToken, receiveToken, final)
  /\ balance' = final
  /\ SetPositions(TradedPositions(sendToken, receiveToken, final))
  /\ UNCHANGED <<positionMultiplier, totalSupply, paused, streamingVars,
                 issued, unaccrued>>

-----------------------------------------------------------------------------
(* PositionUnitAdjusterModule.adjustDefaultPositionUnits for one component *)
(* of the array: balances and supply do not change between two elements,   *)
(* so a batch is a sequence of these steps.                                *)

CalculatedUnit(c) == PreciseDiv(balance[c], totalSupply)

AdjustmentAccepted(c, requested) ==
  requested # 0 => /\ requested > DefaultRealUnit(c)
                   /\ requested <= CalculatedUnit(c)

AdjustedUnit(c, requested) ==
  IF requested = 0 THEN CalculatedUnit(c) ELSE requested

AdjustDefaultPositionUnit(c, requested) ==
  /\ totalSupply > 0
  /\ DefaultRealUnit(c) # CalculatedUnit(c)
  /\ AdjustmentAccepted(c, requested)
  /\ EditAccepted(Positions, c, AdjustedUnit(c, requested))
  /\ SetPositions(EditDefaultPosition(Positions, c,
                                      AdjustedUnit(c, requested)))
  /\ UNCHANGED <<positionMultiplier, totalSupply, balance, paused,
                 streamingVars, issued, unaccrued>>

-----------------------------------------------------------------------------
(* StreamingFeeModule.                                                     *)

InitializeStreaming(maxFee, fee) ==
  /\ ~streamingOn
  /\ maxFee < PreciseUnit
  /\ fee <= maxFee
  /\ streamingOn' = TRUE
  /\ maxStreamingFee' = maxFee
  /\ streamingFee' = fee
  /\ elapsed' = 0
  /\ unaccrued' = 0
  /\ UNCHANGED <<positionVars, totalSupply, balance, paused, issued>>

\* removeModule deletes the fee state without accruing.
RemoveStreaming ==
  /\ streamingOn
  /\ streamingOn' = FALSE
  /\ maxStreamingFee' = 0
  /\ streamingFee' = 0
  /\ elapsed' = 0
  /\ unaccrued' = 0
  /\ UNCHANGED <<positionVars, totalSupply, balance, paused, issued>>

\* Time passes; it only matters to the accounting while a fee state exists.
Tick ==
  /\ streamingOn
  /\ elapsed < MaxElapsed
  /\ elapsed' = elapsed + 1
  /\ unaccrued' = unaccrued + streamingFee
  /\ UNCHANGED <<positionVars, totalSupply, balance, paused, streamingOn,
                 maxStreamingFee, streamingFee, issued>>

CalculateStreamingFee == (elapsed * streamingFee) \div OneYear

FeeQuantityRoundedUp(inflationFee) ==
  ((inflationFee * totalSupply) \div (PreciseUnit - inflationFee)) + 1

\* _calculateStreamingFeeInflation
FeeQuantity(inflationFee) ==
  (inflationFee * totalSupply) \div (PreciseUnit - inflationFee)

\* _editPositionMultiplier
ReducedMultiplier(inflationFee) ==
  PreciseMul(positionMultiplier, PreciseUnit - inflationFee)

MultiplierNotNegative(newMultiplier) == newMultiplier >= 0

SomePositionRemains(newMultiplier) ==
  \E c \in components :
    ConvertVirtualToRealUnit(virtualUnit[c], newMultiplier) > 0

\* _validateNewMultiplier: the smallest virtual unit keeps a positive real
\* unit.  A Set without positions has no smallest unit and reverts.
ValidNewMultiplier(newMultiplier) ==
  /\ \E c \in components : virtualUnit[c] > 0
  /\ \A c \in components :
       virtualUnit[c] > 0 =>
         ConvertVirtualToRealUnit(virtualUnit[c], newMultiplier) > 0

\* The body of accrueFee up to the timestamp.
ChargeStreamingFee(protocolFee) ==
  IF streamingFee > 0
  THEN /\ CalculateStreamingFee < PreciseUnit
       /\ PreciseMul(FeeQuantity(CalculateStreamingFee), protocolFee)
            <= FeeQuantity(CalculateStreamingFee)
       /\ totalSupply + FeeQuantity(CalculateStreamingFee) <= MaxSupply
       /\ ValidNewMultiplier(ReducedMultiplier(CalculateStreamingFee))
       /\ totalSupply' = totalSupply + FeeQuantity(CalculateStreamingFee)
       /\ positionMultiplier' = ReducedMultiplier(CalculateStreamingFee)
  ELSE UNCHANGED <<totalSupply, positionMultiplier>>

AccrueFee(protocolFee) ==
  /\ streamingOn
  /\ ChargeStreamingFee(protocolFee)
  /\ elapsed' = 0
  /\ unaccrued' = 0
  /\ UNCHANGED <<components, virtualUnit, balance, paused, streamingOn,
                 maxStreamingFee, streamingFee, issued>>

UpdateStreamingFeeWithoutAccrual(newFee, protocolFee) ==
  /\ streamingOn
  /\ newFee < maxStreamingFee
  /\ streamingFee' = newFee
  /\ UNCHANGED <<positionVars, totalSupply, balance, paused, streamingOn,
                 maxStreamingFee, elapsed, issued, unaccrued>>

UpdateStreamingFee(newFee, protocolFee) ==
  /\ streamingOn
  /\ newFee < maxStreamingFee
  /\ ChargeStreamingFee(protocolFee)
  /\ elapsed' = 0
  /\ unaccrued' = 0
  /\ streamingFee' = newFee
  /\ UNCHANGED <<components, virtualUnit, balance, paused, streamingOn,
                 maxStreamingFee, issued>>

-----------------------------------------------------------------------------
Next ==
  \/ \E q \in Quantities : Issue(q)
  \/ \E q \in Quantities, f \in FeeRates : Redeem(q, f)
  \/ Pause
  \/ Unpause
  \/ \E c \in Component, a \in Donations : Donate(c, a)
  \/ \E c \in Component, f, pf \in FeeRates : Absorb(c, f, pf)
  \/ \E c, d \in Component, u, m \in TradeUnits, t, r \in Receivable,
        f \in FeeRates : Trade(c, u, d, m, t, r, f)
  \/ \E c \in Component, u \in RequestedUnits : AdjustDefaultPositionUnit(c, u)
  \/ \E mf, f \in StreamingRates : InitializeStreaming(mf, f)
  \/ RemoveStreaming
  \/ Tick
  \/ \E pf \in FeeRates : AccrueFee(pf)
  \/ \E f \in StreamingRates, pf \in FeeRates : UpdateStreamingFee(f, pf)

Spec == Init /\ [][Next]_vars

-----------------------------------------------------------------------------
(* Properties.                                                             *)

\* Every variable has its type; the multiplier stays positive and never
\* rises above one (SetToken.positionMultiplier, only lowered by fees).
TypeOK ==
  /\ components \in SUBSET Component
  /\ virtualUnit \in [Component -> Nat]
  /\ positionMultiplier \in 1 .. PreciseUnit
  /\ totalSupply \in Nat
  /\ balance \in [Component -> Nat]
  /\ paused \in BOOLEAN
  /\ streamingOn \in BOOLEAN
  /\ maxStreamingFee \in Nat
  /\ streamingFee \in Nat
  /\ elapsed \in Nat
  /\ issued \in Nat
  /\ unaccrued \in Nat

\* The component list, the virtual units and the real units agree after any
\* sequence of edits and fee accruals: hasDefaultPosition tests the real unit,
\* getComponents the list, and issuance and redemption loop over the list, so
\* a position that one of them misses is value nobody can redeem.
ComponentsTracked ==
  \A c \in Component :
    /\ c \in components <=> virtualUnit[c] > 0
    /\ c \in components <=> DefaultRealUnit(c) > 0

\* The SetToken holds what its positions claim for the whole supply.
Collateralized ==
  \A c \in Component :
    DefaultRealUnit(c) * totalSupply <= balance[c] * PreciseUnit

\* No issuance, redemption, trade, absorption or adjustment makes a fully
\* collateralized Set under-collateralized: every rounding of the modules is
\* in the Set's favour as long as the multiplier stands still.
CollateralPreserved ==
  [][positionMultiplier' = positionMultiplier /\ Collateralized
       => Collateralized']_vars

\* With the multiplier moving, what redemption of the whole supply asks for
\* exceeds the balance by at most one base unit for every Set ever issued.
LossBounded ==
  \A c \in Component :
    DefaultRealUnit(c) * totalSupply <= balance[c] * PreciseUnit + issued

\* What accrueFee would charge now is exactly the sum of the rates in force
\* over the time since the last accrual: a change of rate is never applied
\* retroactively, and no period is charged twice, whatever the order of
\* ticks, accruals, rate changes and re-initializations.
FeeMatchesHistory == elapsed * streamingFee = unaccrued

\* The comment on accrueFee: "Position units are then adjusted down (in
\* magnitude) in order to ensure full collateralization".
FullyCollateralized == Collateralized
==============================================================================
