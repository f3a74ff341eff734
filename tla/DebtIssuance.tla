---------------------------- MODULE DebtIssuance ----------------------------
(***************************************************************************)
(* The amounts behind a leveraged SetToken: DebtIssuanceModule (and        *)
(* DebtIssuanceModuleV2) issue and redeem it with manager and protocol     *)
(* fees, AaveLeverageModule and CompoundLeverageModule borrow and repay on *)
(* its behalf and keep its recorded debt in step with the lending          *)
(* protocol.                                                               *)
(*                                                                         *)
(* The collateral a leverage module deposits is a component of the Set (an *)
(* aToken or cToken, a default position); what it borrows is an external   *)
(* position with a negative unit, kept here by its magnitude.  Which hooks *)
(* are registered is the subject of IssuanceHooks: here all of them are.   *)
(* No streaming fee is charged, so the position multiplier is one and      *)
(* virtual units are real units (SetAccounting models its changes).  The   *)
(* lending protocols and exchanges are external: debt and collateral grow  *)
(* with interest, liquidation shrinks both, an exchange delivers anything. *)
(* A Compound debt is the stored one (borrowBalanceStored): where the code *)
(* asks for the current one, an accrual (InterestOnDebt) precedes the step. *)
(***************************************************************************)
EXTENDS PreciseUnitMath, FiniteSets, Functions

CONSTANTS
  Component,       \* tokens that can be components
  Leverage,        \* leverage modules initialized on the SetToken
  Aave,            \* the ones that are AaveLeverageModules; others: Compound
  Collateral,      \* module -> the aTokens/cTokens of its collateral assets
  BorrowAsset,     \* module -> its enabled borrow assets
  Versions,        \* issuance modules: TRUE DebtIssuanceModuleV2, FALSE the first
  InitialUnit,     \* component -> unit at creation
  Quantities,      \* Set quantities issued or redeemed
  ManagerFees,     \* issue and redeem fees the manager may set
  FeeSplits,       \* protocol's share of the manager fee
  TradeFees,       \* protocol fee on leverage trades
  LeverUnits,      \* units borrowed or withdrawn by lever and delever
  Receivable,      \* amounts an exchange delivers
  Shortfall,       \* what a transfer may cost the SetToken in addition (V2 only)
  MaxSupply,       \* bound on totalSupply
  MaxAmount        \* bound on each balance and debt

ASSUME DebtAssumption ==
  /\ IsFiniteSet(Leverage)
  /\ Aave \subseteq Leverage
  /\ Collateral \in [Leverage -> SUBSET Component]
  /\ BorrowAsset \in [Leverage -> SUBSET Component]
  /\ \A l, m \in Leverage : Collateral[l] \cap BorrowAsset[m] = {}
  /\ Versions \subseteq BOOLEAN
  /\ InitialUnit \in [Component -> Nat]
  /\ Quantities \subseteq Nat \ {0}
  /\ ManagerFees \subseteq Nat /\ 0 \in ManagerFees
  /\ FeeSplits \subseteq Nat
  /\ TradeFees \subseteq Nat
  /\ LeverUnits \subseteq Nat
  /\ Receivable \subseteq Nat
  /\ Shortfall \subseteq Nat /\ 0 \in Shortfall
  /\ {MaxSupply, MaxAmount} \subseteq Nat

VARIABLES
  totalSupply,    \* ERC20 supply of the SetToken
  defaultUnit,    \* getDefaultPositionRealUnit
  borrowUnit,     \* component -> module -> -getExternalPositionRealUnit
  balance,        \* component.balanceOf(setToken)
  debt,           \* component -> module -> debt at the lending protocol
  issueFee,       \* issuanceSettings.managerIssueFee
  redeemFee,      \* issuanceSettings.managerRedeemFee
  validated,      \* the issuance module of the SetToken is DebtIssuanceModuleV2
  drifted         \* history: <<c, m>> whose debt has grown since it was recorded

positionVars == <<defaultUnit, borrowUnit>>
holdingVars  == <<balance, debt>>
feeVars      == <<issueFee, redeemFee, validated>>
vars == <<totalSupply, positionVars, holdingVars, feeVars, drifted>>

Init ==
  /\ totalSupply = 0
  /\ defaultUnit = InitialUnit
  /\ borrowUnit = [c \in Component |-> [m \in Leverage |-> 0]]
  /\ balance = [c \in Component |-> 0]
  /\ debt = [c \in Component |-> [m \in Leverage |-> 0]]
  /\ issueFee \in ManagerFees
  /\ redeemFee \in ManagerFees
  /\ validated \in Versions
  /\ drifted = {}

InBounds ==
  /\ totalSupply' <= MaxSupply
  /\ \A c \in Component : balance'[c] <= MaxAmount
  /\ \A c \in Component, m \in Leverage : debt'[c][m] <= MaxAmount

-----------------------------------------------------------------------------
(* Positions as the leverage modules compute them.                         *)

GetCollateralPosition(held) == PreciseDiv(held, totalSupply)

GetBorrowPositionRoundedDown(owed) == PreciseDiv(owed, totalSupply)

\* Rounded up: redeemers of the whole supply must repay the whole debt.
GetBorrowPosition(owed) == PreciseDivCeil(owed, totalSupply)

\* The units after sync by the modules in ms.  Nothing is synced while the
\* supply is zero, which preserves the positions for the next issuance.
SyncedUnit(ms, c) ==
  IF totalSupply > 0 /\ \E m \in ms : c \in Collateral[m]
  THEN GetCollateralPosition(balance[c])
  ELSE defaultUnit[c]

SyncedBorrow(ms, c, m) ==
  IF totalSupply > 0 /\ m \in ms /\ c \in BorrowAsset[m]
  THEN GetBorrowPosition(debt[c][m])
  ELSE borrowUnit[c][m]

WriteSynced(ms) ==
  /\ defaultUnit' = [c \in Component |-> SyncedUnit(ms, c)]
  /\ borrowUnit' = [c \in Component |->
                      [m \in Leverage |-> SyncedBorrow(ms, c, m)]]

\* The pairs a sync by ms brings up to date.
Refreshed(ms) ==
  {p \in Component \X Leverage :
     totalSupply > 0 /\ p[2] \in ms /\ p[1] \in BorrowAsset[p[2]]}

Sync(m) ==
  /\ WriteSynced({m})
  /\ drifted' = drifted \ Refreshed({m})
  /\ UNCHANGED <<totalSupply, holdingVars, feeVars>>

-----------------------------------------------------------------------------
(* lever, delever and deleverToZeroBorrowBalance.                          *)

\* Units of the collateral and borrow positions after a leverage trade, and
\* of the repaid asset's default position.
UpdatePositions(m, c, b, unitOfB) ==
  /\ defaultUnit' = [defaultUnit EXCEPT ![c] = GetCollateralPosition(balance'[c]),
                                        ![b] = unitOfB]
  /\ borrowUnit' = [borrowUnit EXCEPT ![b][m] = GetBorrowPosition(debt'[b][m])]
  /\ drifted' = drifted \ {<<b, m>>}

\* Position.calculateAndEditDefaultPosition for the repaid asset.
Untracked(b) == balance[b] - PreciseMul(defaultUnit[b], totalSupply)

CalculatedUnit(b, held) ==
  IF held = 0 THEN 0 ELSE PreciseDiv(held - Untracked(b), totalSupply)

CalculationAccepted(b, held) ==
  held > 0 => Untracked(b) >= 0 /\ held >= Untracked(b)

\* Both assets are enabled and something is traded.
ActionAccepted(m, c, b, notional) ==
  /\ c \in Collateral[m]
  /\ b \in BorrowAsset[m]
  /\ notional > 0

\* The trade delivers the minimum and the protocol fee can be paid from it.
TradeAccepted(received, minUnits, fee) ==
  /\ received >= PreciseMul(minUnits, totalSupply)
  /\ fee <= received

\* What the exchange leaves of the borrowed asset stays, untracked.  Aave
\* refuses a deposit of nothing.
Lever(m, b, c, units, minUnits, left, received, feeRate) ==
  LET notional == PreciseMul(units, totalSupply)
      fee == PreciseMul(received, feeRate)
  IN
  /\ ActionAccepted(m, c, b, notional)
  /\ left <= notional
  /\ TradeAccepted(received, minUnits, fee)
  /\ m \in Aave => received > fee
  /\ debt' = [debt EXCEPT ![b][m] = @ + notional]
  /\ balance' = [balance EXCEPT ![b] = @ + left, ![c] = @ + (received - fee)]
  /\ UpdatePositions(m, c, b, defaultUnit[b])
  /\ UNCHANGED <<totalSupply, feeVars>>
  /\ InBounds

\* Aave takes at most the debt and refuses a repayment of nothing; Compound
\* refuses more than the debt.
RepayAccepted(m, amount, owed) ==
  IF m \in Aave THEN amount > 0 /\ owed > 0 ELSE amount <= owed

RepaidUncapped(amount, owed) == amount

Repaid(amount, owed) == IF amount <= owed THEN amount ELSE owed

\* The default position of the repaid asset: AaveLeverageModule recomputes
\* it when the balance changed, CompoundLeverageModule's delever never does.
UnitAfterRepay(m, b, held) ==
  IF m \in Aave /\ held # balance[b] THEN CalculatedUnit(b, held)
                                     ELSE defaultUnit[b]

Delever(m, c, b, units, minUnits, received, feeRate) ==
  LET notional == PreciseMul(units, totalSupply)
      fee    == PreciseMul(received, feeRate)
      repay  == received - fee
      paid   == Repaid(repay, debt[b][m])
      held   == balance[b] + repay - paid
  IN
  /\ ActionAccepted(m, c, b, notional)
  /\ notional <= balance[c]
  /\ TradeAccepted(received, minUnits, fee)
  /\ RepayAccepted(m, repay, debt[b][m])
  /\ m \in Aave /\ held # balance[b] => CalculationAccepted(b, held)
  /\ debt' = [debt EXCEPT ![b][m] = @ - paid]
  /\ balance' = [balance EXCEPT ![b] = held, ![c] = @ - notional]
  /\ UpdatePositions(m, c, b, UnitAfterRepay(m, b, held))
  /\ UNCHANGED <<totalSupply, feeVars>>
  /\ InBounds

\* No protocol fee is charged; what exceeds the debt becomes a default
\* position.  CompoundLeverageModule recomputes it in any case.
DeleverToZeroBorrowBalance(m, c, b, units, received) ==
  LET notional == PreciseMul(units, totalSupply)
      held == balance[b] + received - debt[b][m]
      edits == m \notin Aave \/ held # balance[b]
  IN
  /\ ActionAccepted(m, c, b, notional)
  /\ m \in Aave => debt[b][m] > 0
  /\ notional <= balance[c]
  /\ received >= debt[b][m]
  /\ edits => CalculationAccepted(b, held)
  /\ debt' = [debt EXCEPT ![b][m] = 0]
  /\ balance' = [balance EXCEPT ![b] = held, ![c] = @ - notional]
  /\ UpdatePositions(m, c, b,
       IF edits THEN CalculatedUnit(b, held) ELSE defaultUnit[b])
  /\ UNCHANGED <<totalSupply, feeVars>>
  /\ InBounds

-----------------------------------------------------------------------------
(* Fees.                                                                   *)

TotalFee(rate, quantity) == PreciseMul(rate, quantity)

ProtocolFee(rate, quantity, split) == PreciseMul(TotalFee(rate, quantity), split)

\* managerFee = totalFee - protocolFee is a SafeMath subtraction.
FeesAccepted(rate, quantity, split) ==
  ProtocolFee(rate, quantity, split) <= TotalFee(rate, quantity)

\* _resolveFees: the protocol fee is minted only beside a manager fee.
MintedFees(rate, quantity, split) ==
  IF TotalFee(rate, quantity) - ProtocolFee(rate, quantity, split) > 0
  THEN TotalFee(rate, quantity)
  ELSE 0

UpdateIssueFee(newFee) ==
  /\ newFee # issueFee
  /\ issueFee' = newFee
  /\ UNCHANGED <<totalSupply, positionVars, holdingVars, redeemFee,
                 validated, drifted>>

UpdateRedeemFee(newFee) ==
  /\ newFee # redeemFee
  /\ redeemFee' = newFee
  /\ UNCHANGED <<totalSupply, positionVars, holdingVars, issueFee,
                 validated, drifted>>

-----------------------------------------------------------------------------
(* Issuance.  All hooks have synced; u and d below are the synced units.   *)

Unit(c) == SyncedUnit(Leverage, c)

Owes(c, m) == SyncedBorrow(Leverage, c, m)

TotalOwes(c) == SumFunction([m \in Leverage |-> Owes(c, m)])

EquityInRoundedDown(c, quantity) == PreciseMul(Unit(c), quantity)

EquityIn(c, quantity) == PreciseMulCeil(Unit(c), quantity)

DebtOut(c, quantity) == PreciseMul(TotalOwes(c), quantity)

\* How often m's componentIssueHook or componentRedeemHook acts on c: in the
\* debt pass, and in the equity pass unless it looks at _isEquity.
ActsInPass(m, isEquity) == ~isEquity \/ m \notin Aave

HookCalls(m, equityPass, debtPass) ==
  {isEquity \in BOOLEAN :
     /\ IF isEquity THEN equityPass ELSE debtPass
     /\ ActsInPass(m, isEquity)}

IssueHookCalls(c, m, quantity) ==
  Cardinality(HookCalls(m, EquityIn(c, quantity) > 0, DebtOut(c, quantity) > 0))

BorrowedForRoundedUp(c, m, quantity) ==
  IssueHookCalls(c, m, quantity) * PreciseMulCeil(Owes(c, m), quantity)

BorrowedFor(c, m, quantity) ==
  IssueHookCalls(c, m, quantity) * PreciseMul(Owes(c, m), quantity)

\* Aave refuses to lend nothing.
BorrowAccepted(c, m, quantity) ==
  m \in Aave /\ Owes(c, m) > 0 /\ DebtOut(c, quantity) > 0
    => PreciseMul(Owes(c, m), quantity) > 0

TotalBorrowed(c, quantity) ==
  SumFunction([m \in Leverage |-> BorrowedFor(c, m, quantity)])

\* The balance after the transfer in, all borrowing and the transfer out.
IssuedBalance(c, quantity, lost) ==
  balance[c] + EquityIn(c, quantity) - lost + TotalBorrowed(c, quantity)
    - DebtOut(c, quantity)

\* IssuanceValidationUtils: after a transfer in, before the hooks, and after
\* a transfer out.
CoveredByBalanceOnly(c, held, amount, initialSupply) ==
  held >= PreciseMulCeil(initialSupply, Unit(c))

CoveredAfterTransferIn(c, held, amount, initialSupply) ==
  held >= PreciseMulCeil(initialSupply, Unit(c)) + amount

CoveredAfterTransferOut(c, held, finalSupply) ==
  held >= PreciseMulCeil(finalSupply, Unit(c))

\* What the transfers of each component may cost the SetToken in addition: V1
\* demands exact transfers, V2 that they leave the Set covered.
Losses == [Component -> IF validated THEN Shortfall ELSE {0}]

IssueTransfersAccepted(c, quantity, lostIn, lostOut) ==
  LET equity == EquityIn(c, quantity)
      owed   == DebtOut(c, quantity)
      held   == IssuedBalance(c, quantity, lostIn + lostOut)
  IN
  /\ lostIn <= equity /\ lostOut <= owed
  /\ held >= 0
  /\ \A m \in Leverage : BorrowAccepted(c, m, quantity)
  /\ validated /\ equity > 0 =>
       CoveredAfterTransferIn(c, balance[c] + equity - lostIn, equity, totalSupply)
  /\ validated /\ owed > 0 =>
       CoveredAfterTransferOut(c, held, totalSupply + quantity)

Issue(quantity, split, lostIn, lostOut) ==
  LET withFees == quantity + TotalFee(issueFee, quantity)
  IN
  /\ FeesAccepted(issueFee, quantity, split)
  /\ \A c \in Component : IssueTransfersAccepted(c, withFees, lostIn[c], lostOut[c])
  /\ WriteSynced(Leverage)
  /\ balance' = [c \in Component |->
                   IssuedBalance(c, withFees, lostIn[c] + lostOut[c])]
  /\ debt' = [c \in Component |->
                [m \in Leverage |-> debt[c][m] + BorrowedFor(c, m, withFees)]]
  /\ totalSupply' = totalSupply + quantity + MintedFees(issueFee, quantity, split)
  /\ drifted' = drifted \ Refreshed(Leverage)
  /\ UNCHANGED feeVars
  /\ InBounds

-----------------------------------------------------------------------------
(* Redemption: debts are repaid before the collateral leaves.              *)

EquityOut(c, quantity) == PreciseMul(Unit(c), quantity)

DebtIn(c, quantity) == PreciseMulCeil(TotalOwes(c), quantity)

\* DebtIn rounds up: it is positive as soon as one module owes anything.
SomeDebtIn(c, quantity) == quantity > 0 /\ \E m \in Leverage : Owes(c, m) > 0

RedeemHookCalls(c, m, quantity) ==
  Cardinality(HookCalls(m, EquityOut(c, quantity) > 0, SomeDebtIn(c, quantity)))

RepayFor(c, m, quantity) ==
  RedeemHookCalls(c, m, quantity) * PreciseMulCeil(Owes(c, m), quantity)

\* Aave takes at most the debt.
RepaidFor(c, m, quantity) == Repaid(RepayFor(c, m, quantity), debt[c][m])

TotalRepaid(c, quantity) ==
  SumFunction([m \in Leverage |-> RepaidFor(c, m, quantity)])

RedeemedBalance(c, quantity, lost) ==
  balance[c] + DebtIn(c, quantity) - lost - TotalRepaid(c, quantity)
    - EquityOut(c, quantity)

RedeemTransfersAccepted(c, quantity, lostIn, lostOut) ==
  LET equity == EquityOut(c, quantity)
      owed   == DebtIn(c, quantity)
      held   == RedeemedBalance(c, quantity, lostIn + lostOut)
  IN
  /\ lostIn <= owed /\ lostOut <= equity
  /\ held >= 0
  /\ \A m \in Leverage \ Aave : RepayFor(c, m, quantity) <= debt[c][m]
  /\ validated /\ owed > 0 =>
       CoveredAfterTransferIn(c, balance[c] + owed - lostIn, owed, totalSupply)
  /\ validated /\ equity > 0 =>
       CoveredAfterTransferOut(c, held, totalSupply - quantity)

Redeem(quantity, split, lostIn, lostOut) ==
  LET netFees == quantity - TotalFee(redeemFee, quantity)
  IN
  /\ quantity <= totalSupply
  /\ FeesAccepted(redeemFee, quantity, split)
  /\ netFees >= 0
  /\ \A c \in Component : RedeemTransfersAccepted(c, netFees, lostIn[c], lostOut[c])
  /\ WriteSynced(Leverage)
  /\ balance' = [c \in Component |->
                   RedeemedBalance(c, netFees, lostIn[c] + lostOut[c])]
  /\ debt' = [c \in Component |->
                [m \in Leverage |-> debt[c][m] - RepaidFor(c, m, netFees)]]
  /\ totalSupply' = totalSupply - quantity + MintedFees(redeemFee, quantity, split)
  /\ drifted' = drifted \ Refreshed(Leverage)
  /\ UNCHANGED feeVars

-----------------------------------------------------------------------------
(* The lending protocols.                                                  *)

InterestOnDebt(c, m) ==
  /\ debt[c][m] > 0
  /\ debt' = [debt EXCEPT ![c][m] = @ + 1]
  /\ drifted' = drifted \cup {<<c, m>>}
  /\ UNCHANGED <<totalSupply, positionVars, balance, feeVars>>
  /\ InBounds

\* Interest on aTokens, and any transfer to the SetToken from outside.
BalanceGrows(c) ==
  /\ balance' = [balance EXCEPT ![c] = @ + 1]
  /\ UNCHANGED <<totalSupply, positionVars, debt, feeVars, drifted>>
  /\ InBounds

\* A liquidator repays part of a debt and takes collateral.
Liquidation(m, b, c) ==
  /\ b \in BorrowAsset[m] /\ c \in Collateral[m]
  /\ debt[b][m] > 0 /\ balance[c] > 0
  /\ debt' = [debt EXCEPT ![b][m] = @ - 1]
  /\ balance' = [balance EXCEPT ![c] = @ - 1]
  /\ UNCHANGED <<totalSupply, positionVars, feeVars, drifted>>

-----------------------------------------------------------------------------
Next ==
  \/ \E m \in Leverage : Sync(m)
  \/ \E m \in Leverage, b, c \in Component, u, min \in LeverUnits,
        left, r \in Receivable, f \in TradeFees : Lever(m, b, c, u, min, left, r, f)
  \/ \E m \in Leverage, b, c \in Component, u, min \in LeverUnits,
        r \in Receivable, f \in TradeFees : Delever(m, c, b, u, min, r, f)
  \/ \E m \in Leverage, b, c \in Component, u \in LeverUnits,
        r \in Receivable : DeleverToZeroBorrowBalance(m, c, b, u, r)
  \/ \E f \in ManagerFees : UpdateIssueFee(f)
  \/ \E f \in ManagerFees : UpdateRedeemFee(f)
  \/ \E q \in Quantities, s \in FeeSplits, in, out \in Losses : Issue(q, s, in, out)
  \/ \E q \in Quantities, s \in FeeSplits, in, out \in Losses : Redeem(q, s, in, out)
  \/ \E c \in Component, m \in Leverage : InterestOnDebt(c, m)
  \/ \E c \in Component : BalanceGrows(c)
  \/ \E m \in Leverage, b, c \in Component : Liquidation(m, b, c)

Spec == Init /\ [][Next]_vars

-----------------------------------------------------------------------------
(* Properties.                                                             *)

\* Types; the SafeMath subtractions of issue, redeem and delever never leave
\* a negative balance or debt.
TypeOK ==
  /\ totalSupply \in Nat
  /\ defaultUnit \in [Component -> Nat]
  /\ borrowUnit \in [Component -> [Leverage -> Nat]]
  /\ balance \in [Component -> Nat]
  /\ debt \in [Component -> [Leverage -> Nat]]
  /\ issueFee \in ManagerFees
  /\ redeemFee \in ManagerFees
  /\ validated \in Versions
  /\ drifted \in SUBSET (Component \X Leverage)

\* The recorded debt of the whole supply covers the debt at the lending
\* protocol, except for interest that accrued since the last sync: whoever
\* redeems, the last Set still repays the last of the debt.
DebtRecorded ==
  \A c \in Component, m \in Leverage :
    <<c, m>> \notin drifted =>
      debt[c][m] * PreciseUnit <= borrowUnit[c][m] * totalSupply

\* The SetToken holds what its default positions claim for the whole supply.
Covered(c) == defaultUnit[c] * totalSupply <= balance[c] * PreciseUnit

\* At most one leverage module borrows c.  With two, what a redeemer pays in is
\* the sum of their debts rounded up once, and each repays its own rounded up.
OwedToOne(c) ==
  \A m, n \in Leverage : c \in BorrowAsset[m] \cap BorrowAsset[n] => m = n

\* Neither issuance nor redemption leaves a default position uncovered that
\* was covered before, although every component's transfers, borrowings and
\* repayments are rounded separately and fees are paid in newly minted Sets.
IssuancePreservesCover ==
  [][totalSupply' # totalSupply =>
       \A c \in Component : Covered(c) /\ OwedToOne(c) => Covered(c)']_vars

\* Issuing Sets in any reachable state, for whatever quantity and fees, borrows
\* no more of any component than is handed to the issuer: componentIssueHook "Invokes borrow
\* in order for module to return debt to issuer".
BorrowingGoesToIssuer ==
  \A q \in Quantities, c \in Component :
    LET withFees == q + TotalFee(issueFee, q)
    IN  TotalBorrowed(c, withFees) <= DebtOut(c, withFees)

\* The comment on calculateTotalFees: "1% fee on 100 Sets means 101 Sets are
\* minted by caller, the _to address receives 100 and the feeRecipient
\* receives 1".
FeesAreMinted ==
  [][\A q \in Quantities, s \in FeeSplits, in, out \in Losses :
       Issue(q, s, in, out) =>
         totalSupply' = totalSupply + q + TotalFee(issueFee, q)]_vars
==============================================================================
