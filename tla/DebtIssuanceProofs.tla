------------------------- MODULE DebtIssuanceProofs -------------------------
(***************************************************************************)
(* The debt recorded on a leveraged SetToken covers its debt at the        *)
(* lending protocols, an issuance borrows no more than it hands over, and  *)
(* issuing and redeeming keep default positions covered, for every scale,  *)
(* set of tokens and modules, fee and outcome of a trade.                  *)
(*                                                                         *)
(* The recorded debt needs no sums over modules: each module's debt        *)
(* follows from its own recorded unit and the supply.  The two other       *)
(* results compare such sums, with the facts that LibraryProofs has of     *)
(* them.                                                                   *)
(***************************************************************************)
EXTENDS DebtIssuance, LibraryProofs

\* What the argument needs of the deployment: every leverage module looks at
\* _isEquity, and the protocol takes less than the whole manager fee.
SoundSettings ==
  /\ Aave = Leverage
  /\ \A split \in FeeSplits : split < PreciseUnit

\* Types of the variables that the recorded debt depends on.
DebtTypeOK ==
  /\ totalSupply \in Nat
  /\ borrowUnit \in [Component -> [Leverage -> Nat]]
  /\ debt \in [Component -> [Leverage -> Nat]]
  /\ issueFee \in ManagerFees
  /\ redeemFee \in ManagerFees

DebtInv == DebtTypeOK /\ DebtRecorded

-----------------------------------------------------------------------------
(* Fees and hook calls.                                                    *)

\* All fees are minted when the protocol leaves the manager a share.
LEMMA FeesMinted ==
  ASSUME NEW rate \in Nat, NEW quantity \in Nat, NEW split \in Nat,
         split < PreciseUnit
  PROVE  /\ TotalFee(rate, quantity) \in Nat
         /\ MintedFees(rate, quantity, split) = TotalFee(rate, quantity)
<1> DEFINE t == TotalFee(rate, quantity)
           p == ProtocolFee(rate, quantity, split)
<1>1. t \in Nat
  BY PreciseMulBounds DEF TotalFee
<1>2. p \in Nat /\ PreciseUnit * p <= t * split
  BY <1>1, PreciseMulBounds DEF ProtocolFee
<1>3. MintedFees(rate, quantity, split) = IF t - p > 0 THEN t ELSE 0
  BY DEF MintedFees
<1> HIDE DEF t, p
<1>4. CASE t = 0
  BY <1>1, <1>3, <1>4 DEF t
<1>5. CASE t > 0
  <2>1. t * split < t * PreciseUnit
    BY <1>1, <1>5, PreciseUnitAssumption
  <2>2. PreciseUnit * p < PreciseUnit * t
    BY <2>1, <1>1, <1>2, PreciseUnitAssumption
  <2>3. p < t
    BY <2>2, <1>1, <1>2, PreciseUnitAssumption
  <2> QED BY <2>3, <1>1, <1>2, <1>3 DEF t
<1> QED BY <1>1, <1>4, <1>5 DEF t

\* A hook that looks at _isEquity acts once, in the debt pass.
LEMMA CallsOnce ==
  ASSUME NEW m \in Aave, NEW equityPass, NEW debtPass
  PROVE  Cardinality(HookCalls(m, equityPass, debtPass))
           = IF debtPass THEN 1 ELSE 0
<1>1. CASE debtPass
  <2>1. HookCalls(m, equityPass, debtPass) = {FALSE}
    BY <1>1 DEF HookCalls, ActsInPass
  <2> QED BY <1>1, <2>1, FS_Singleton
<1>2. CASE ~debtPass
  <2>1. HookCalls(m, equityPass, debtPass) = {}
    BY <1>2 DEF HookCalls, ActsInPass
  <2> QED BY <1>2, <2>1, FS_EmptySet
<1> QED BY <1>1, <1>2

-----------------------------------------------------------------------------
(* What a sync records.                                                    *)

\* A synced unit is a natural, and covers the debt of every pair that the
\* sync refreshes or that was recorded before.
LEMMA SyncRecords ==
  ASSUME DebtInv, NEW ms \in SUBSET Leverage,
         NEW c \in Component, NEW m \in Leverage
  PROVE  /\ SyncedBorrow(ms, c, m) \in Nat
         /\ <<c, m>> \notin drifted \ Refreshed(ms) =>
              debt[c][m] * PreciseUnit <= SyncedBorrow(ms, c, m) * totalSupply
<1>0. /\ totalSupply \in Nat /\ debt[c][m] \in Nat /\ borrowUnit[c][m] \in Nat
      /\ PreciseUnit \in Nat
  BY PreciseUnitAssumption DEF DebtInv, DebtTypeOK
<1>1. CASE totalSupply > 0 /\ m \in ms /\ c \in BorrowAsset[m]
  <2>1. SyncedBorrow(ms, c, m) = PreciseDivCeil(debt[c][m], totalSupply)
    BY <1>1 DEF SyncedBorrow, GetBorrowPosition
  <2>2. /\ SyncedBorrow(ms, c, m) \in Nat
        /\ debt[c][m] * PreciseUnit <= totalSupply * SyncedBorrow(ms, c, m)
    BY <2>1, <1>0, <1>1, PreciseDivCeilBounds
  <2> QED BY <2>2, <1>0
<1>2. CASE ~(totalSupply > 0 /\ m \in ms /\ c \in BorrowAsset[m])
  <2>1. SyncedBorrow(ms, c, m) = borrowUnit[c][m]
    BY <1>2 DEF SyncedBorrow
  <2>2. <<c, m>> \notin Refreshed(ms)
    BY <1>2 DEF Refreshed
  <2> QED BY <2>1, <2>2, <1>0 DEF DebtInv, DebtRecorded
<1> QED BY <1>1, <1>2

LEMMA OwesRecorded ==
  ASSUME DebtInv, NEW c \in Component, NEW m \in Leverage
  PROVE  /\ Owes(c, m) \in Nat
         /\ <<c, m>> \notin drifted \ Refreshed(Leverage) =>
              debt[c][m] * PreciseUnit <= Owes(c, m) * totalSupply
  BY SyncRecords DEF Owes

-----------------------------------------------------------------------------
(* Every step keeps the invariant.                                         *)

LEMMA InitRecorded == Init => DebtInv
<1> SUFFICES ASSUME Init PROVE DebtInv
  OBVIOUS
<1>1. DebtTypeOK
  BY DEF Init, DebtTypeOK
<1>2. DebtRecorded
  BY PreciseUnitAssumption DEF Init, DebtRecorded
<1> QED BY <1>1, <1>2 DEF DebtInv

\* A leverage trade records the debt it leaves in the asset it trades and
\* touches no other debt; it needs a positive supply.
LEMMA TradeRecords ==
  ASSUME DebtInv, NEW m \in Leverage, NEW b \in Component, NEW owed \in Nat,
         totalSupply > 0,
         debt' = [debt EXCEPT ![b][m] = owed],
         borrowUnit' = [borrowUnit EXCEPT
                          ![b][m] = PreciseDivCeil(debt'[b][m], totalSupply)],
         drifted' = drifted \ {<<b, m>>},
         UNCHANGED <<totalSupply, issueFee, redeemFee>>
  PROVE  DebtInv'
<1>0. /\ totalSupply \in Nat \ {0} /\ PreciseUnit \in Nat
      /\ debt \in [Component -> [Leverage -> Nat]]
      /\ borrowUnit \in [Component -> [Leverage -> Nat]]
  BY PreciseUnitAssumption DEF DebtInv, DebtTypeOK
<1>1. /\ debt'[b][m] = owed
      /\ borrowUnit'[b][m] = PreciseDivCeil(owed, totalSupply)
  BY <1>0
<1>2. /\ PreciseDivCeil(owed, totalSupply) \in Nat
      /\ owed * PreciseUnit <= totalSupply * PreciseDivCeil(owed, totalSupply)
  BY <1>0, PreciseDivCeilBounds
<1>3. DebtTypeOK'
  BY <1>0, <1>1, <1>2 DEF DebtInv, DebtTypeOK
<1>4. DebtRecorded'
  <2> SUFFICES ASSUME NEW c \in Component, NEW l \in Leverage,
                      <<c, l>> \notin drifted'
               PROVE  debt'[c][l] * PreciseUnit <= borrowUnit'[c][l] * totalSupply'
    BY DEF DebtRecorded
  <2>1. CASE c = b /\ l = m
    BY <2>1, <1>0, <1>1, <1>2
  <2>2. CASE ~(c = b /\ l = m)
    <3>1. /\ debt'[c][l] = debt[c][l]
          /\ borrowUnit'[c][l] = borrowUnit[c][l]
      BY <2>2, <1>0
    <3>2. <<c, l>> \notin drifted
      BY <2>2
    <3> QED BY <3>1, <3>2 DEF DebtInv, DebtRecorded
  <2> QED BY <2>1, <2>2
<1> QED BY <1>3, <1>4 DEF DebtInv

\* A positive notional amount needs a positive supply.
LEMMA NotionalNeedsSupply ==
  ASSUME totalSupply \in Nat, NEW units \in Nat, PreciseMul(units, totalSupply) > 0
  PROVE  totalSupply > 0 /\ PreciseMul(units, totalSupply) \in Nat
<1>1. CASE totalSupply = 0
  <2>1. units * totalSupply = 0
    BY <1>1
  <2>2. PreciseMul(units, totalSupply) \in Nat
        /\ PreciseUnit * PreciseMul(units, totalSupply) <= 0
    BY <2>1, PreciseMulBounds
  <2> QED BY <2>2, PreciseUnitAssumption
<1> QED BY <1>1, PreciseMulBounds

LEMMA LeverRecords ==
  ASSUME DebtInv, NEW m \in Leverage, NEW b \in Component, NEW c \in Component,
         NEW u \in LeverUnits, NEW min \in LeverUnits, NEW left \in Receivable,
         NEW r \in Receivable, NEW f \in TradeFees,
         Lever(m, b, c, u, min, left, r, f)
  PROVE  DebtInv'
<1> DEFINE notional == PreciseMul(u, totalSupply)
<1>1. u \in Nat
  BY DebtAssumption
<1>2. notional \in Nat /\ totalSupply > 0
  BY <1>1, NotionalNeedsSupply DEF Lever, ActionAccepted, DebtInv, DebtTypeOK
<1>3. debt[b][m] + notional \in Nat
  BY <1>2 DEF DebtInv, DebtTypeOK
<1>4. debt' = [debt EXCEPT ![b][m] = debt[b][m] + notional]
  BY DEF Lever, DebtInv, DebtTypeOK
<1> QED BY <1>2, <1>3, <1>4, TradeRecords
        DEF Lever, UpdatePositions, GetBorrowPosition, feeVars

LEMMA DeleverRecords ==
  ASSUME DebtInv, NEW m \in Leverage, NEW b \in Component, NEW c \in Component,
         NEW u \in LeverUnits, NEW min \in LeverUnits,
         NEW r \in Receivable, NEW f \in TradeFees,
         Delever(m, c, b, u, min, r, f)
  PROVE  DebtInv'
<1> DEFINE fee  == PreciseMul(r, f)
           paid == Repaid(r - fee, debt[b][m])
<1>1. u \in Nat /\ r \in Nat /\ f \in Nat
  BY DebtAssumption
<1>2. totalSupply > 0
  BY <1>1, NotionalNeedsSupply DEF Delever, ActionAccepted, DebtInv, DebtTypeOK
<1>3. fee \in Nat /\ fee <= r
  BY <1>1, PreciseMulBounds DEF Delever, TradeAccepted
<1>4. debt[b][m] - paid \in Nat
  BY <1>1, <1>3 DEF DebtInv, DebtTypeOK, Repaid
<1>5. debt' = [debt EXCEPT ![b][m] = debt[b][m] - paid]
  BY DEF Delever, DebtInv, DebtTypeOK
<1> QED BY <1>2, <1>4, <1>5, TradeRecords
        DEF Delever, UpdatePositions, GetBorrowPosition, feeVars

LEMMA DeleverToZeroRecords ==
  ASSUME DebtInv, NEW m \in Leverage, NEW b \in Component, NEW c \in Component,
         NEW u \in LeverUnits, NEW r \in Receivable,
         DeleverToZeroBorrowBalance(m, c, b, u, r)
  PROVE  DebtInv'
<1>1. u \in Nat
  BY DebtAssumption
<1>2. totalSupply > 0
  BY <1>1, NotionalNeedsSupply DEF DeleverToZeroBorrowBalance, ActionAccepted, DebtInv, DebtTypeOK
<1>3. debt' = [debt EXCEPT ![b][m] = 0]
  BY DEF DeleverToZeroBorrowBalance
<1> QED BY <1>2, <1>3, TradeRecords
        DEF DeleverToZeroBorrowBalance, UpdatePositions, GetBorrowPosition, feeVars

\* After the hooks have synced, a step that changes each debt by what its
\* recorded unit and the change of supply call for keeps the invariant.
LEMMA IssuanceRecords ==
  ASSUME DebtInv, WriteSynced(Leverage), drifted' = drifted \ Refreshed(Leverage),
         totalSupply' \in Nat, UNCHANGED <<issueFee, redeemFee>>,
         debt' \in [Component -> [Leverage -> Nat]],
         \A c \in Component, m \in Leverage :
           debt[c][m] * PreciseUnit <= Owes(c, m) * totalSupply
             => debt'[c][m] * PreciseUnit <= Owes(c, m) * totalSupply'
  PROVE  DebtInv'
<1>1. \A c \in Component, m \in Leverage : borrowUnit'[c][m] = Owes(c, m)
  BY DEF WriteSynced, Owes
<1>2. borrowUnit' \in [Component -> [Leverage -> Nat]]
  <2>1. \A c \in Component, m \in Leverage : SyncedBorrow(Leverage, c, m) \in Nat
    BY SyncRecords
  <2> QED BY <2>1 DEF WriteSynced
<1>3. DebtTypeOK'
  BY <1>2 DEF DebtInv, DebtTypeOK
<1>4. DebtRecorded'
  <2> SUFFICES ASSUME NEW c \in Component, NEW m \in Leverage,
                      <<c, m>> \notin drifted'
               PROVE  debt'[c][m] * PreciseUnit <= borrowUnit'[c][m] * totalSupply'
    BY DEF DebtRecorded
  <2>1. debt[c][m] * PreciseUnit <= Owes(c, m) * totalSupply
    BY OwesRecorded
  <2> QED BY <2>1, <1>1
<1> QED BY <1>3, <1>4 DEF DebtInv

LEMMA IssueRecords ==
  ASSUME DebtInv, SoundSettings, NEW q \in Quantities, NEW s \in FeeSplits,
         NEW in \in Losses, NEW out \in Losses, Issue(q, s, in, out)
  PROVE  DebtInv'
<1> DEFINE n == q + TotalFee(issueFee, q)
<1>1. q \in Nat /\ s \in Nat /\ s < PreciseUnit /\ issueFee \in Nat
  BY DebtAssumption DEF DebtInv, DebtTypeOK, SoundSettings
<1>2. n \in Nat /\ totalSupply' = totalSupply + n
  <2>1. /\ TotalFee(issueFee, q) \in Nat
        /\ MintedFees(issueFee, q, s) = TotalFee(issueFee, q)
    BY <1>1, FeesMinted
  <2>2. totalSupply' = totalSupply + q + TotalFee(issueFee, q)
    BY <2>1 DEF Issue
  <2> QED BY <2>1, <2>2, <1>1 DEF DebtInv, DebtTypeOK
<1>3. totalSupply \in Nat /\ debt \in [Component -> [Leverage -> Nat]]
      /\ PreciseUnit \in Nat \ {0}
  BY PreciseUnitAssumption DEF DebtInv, DebtTypeOK
<1>4. debt' = [c \in Component |->
                 [m \in Leverage |-> debt[c][m] + BorrowedFor(c, m, n)]]
  BY DEF Issue
<1> HIDE DEF n
<1>5. ASSUME NEW c \in Component, NEW m \in Leverage
      PROVE  /\ BorrowedFor(c, m, n) \in Nat
             /\ BorrowedFor(c, m, n) * PreciseUnit <= Owes(c, m) * n
  <2>1. Owes(c, m) \in Nat
    BY OwesRecorded
  <2> DEFINE b == PreciseMul(Owes(c, m), n)
  <2>2. b \in Nat /\ PreciseUnit * b <= Owes(c, m) * n
    BY <2>1, <1>2, PreciseMulBounds
  <2>3. IssueHookCalls(c, m, n) \in {0, 1}
    BY CallsOnce DEF IssueHookCalls, SoundSettings
  <2>4. BorrowedFor(c, m, n) \in {0, b}
    <3>1. BorrowedFor(c, m, n) = IssueHookCalls(c, m, n) * b
      BY DEF BorrowedFor
    <3> HIDE DEF b
    <3> QED BY <3>1, <2>2, <2>3
  <2>5. Owes(c, m) * n \in Nat
    BY <2>1, <1>2
  <2> HIDE DEF b
  <2> QED BY <2>2, <2>4, <2>5, <1>3
<1>6. debt' \in [Component -> [Leverage -> Nat]]
  BY <1>3, <1>4, <1>5
<1>7. ASSUME NEW c \in Component, NEW m \in Leverage,
             debt[c][m] * PreciseUnit <= Owes(c, m) * totalSupply
      PROVE  debt'[c][m] * PreciseUnit <= Owes(c, m) * totalSupply'
  <2> DEFINE o == Owes(c, m)
             b == BorrowedFor(c, m, n)
             d == debt[c][m]
  <2>1. o \in Nat /\ b \in Nat /\ d \in Nat /\ b * PreciseUnit <= o * n
    BY <1>3, <1>5, OwesRecorded
  <2>2. debt'[c][m] = d + b
    BY <1>4
  <2>3. d * PreciseUnit <= o * totalSupply
    BY <1>7
  <2> HIDE DEF o, b, d
  <2>4. /\ (d + b) * PreciseUnit = d * PreciseUnit + b * PreciseUnit
        /\ o * (totalSupply + n) = o * totalSupply + o * n
    BY <2>1, <1>2, <1>3
  <2>5. /\ d * PreciseUnit \in Nat /\ b * PreciseUnit \in Nat
        /\ o * totalSupply \in Nat /\ o * n \in Nat
    BY <2>1, <1>2, <1>3
  <2>6. (d + b) * PreciseUnit <= o * (totalSupply + n)
    BY <2>1, <2>3, <2>4, <2>5
  <2> QED BY <2>2, <2>6, <1>2 DEF o
<1> QED BY <1>2, <1>3, <1>6, <1>7, IssuanceRecords DEF Issue, feeVars

LEMMA RedeemRecords ==
  ASSUME DebtInv, SoundSettings, NEW q \in Quantities, NEW s \in FeeSplits,
         NEW in \in Losses, NEW out \in Losses, Redeem(q, s, in, out)
  PROVE  DebtInv'
<1> DEFINE n == q - TotalFee(redeemFee, q)
<1>1. q \in Nat /\ s \in Nat /\ s < PreciseUnit /\ redeemFee \in Nat
  BY DebtAssumption DEF DebtInv, DebtTypeOK, SoundSettings
<1>2. n \in Nat /\ n <= totalSupply /\ totalSupply' = totalSupply - n
  <2>1. /\ TotalFee(redeemFee, q) \in Nat
        /\ MintedFees(redeemFee, q, s) = TotalFee(redeemFee, q)
    BY <1>1, FeesMinted
  <2>2. /\ totalSupply' = totalSupply - q + TotalFee(redeemFee, q)
        /\ q <= totalSupply /\ n >= 0
    BY <2>1 DEF Redeem
  <2> QED BY <2>1, <2>2, <1>1 DEF DebtInv, DebtTypeOK
<1>3. totalSupply \in Nat /\ debt \in [Component -> [Leverage -> Nat]]
      /\ PreciseUnit \in Nat \ {0}
  BY PreciseUnitAssumption DEF DebtInv, DebtTypeOK
<1>4. debt' = [c \in Component |->
                 [m \in Leverage |-> debt[c][m] - RepaidFor(c, m, n)]]
  BY DEF Redeem
<1> HIDE DEF n
<1>5. ASSUME NEW c \in Component, NEW m \in Leverage
      PROVE  /\ RepaidFor(c, m, n) \in Nat
             /\ RepaidFor(c, m, n) <= debt[c][m]
             /\ \/ RepaidFor(c, m, n) = debt[c][m]
                \/ Owes(c, m) * n <= RepaidFor(c, m, n) * PreciseUnit
  <2> DEFINE o == Owes(c, m)
             r == PreciseMulCeil(o, n)
             a == RepayFor(c, m, n)
  <2>1. o \in Nat
    BY OwesRecorded
  <2>2. r \in Nat /\ o * n <= PreciseUnit * r
    BY <2>1, <1>2, PreciseMulCeilBounds
  <2>3. a = RedeemHookCalls(c, m, n) * r
    BY DEF RepayFor
  <2>4. RedeemHookCalls(c, m, n) = IF SomeDebtIn(c, n) THEN 1 ELSE 0
    BY CallsOnce DEF RedeemHookCalls, SoundSettings
  <2>5. SomeDebtIn(c, n) \/ o = 0 \/ n = 0
    BY <2>1, <1>2 DEF SomeDebtIn
  <2> HIDE DEF o, r, a
  <2>6. a \in Nat /\ o * n <= a * PreciseUnit
    <3>1. CASE SomeDebtIn(c, n)
      BY <3>1, <2>1, <2>2, <2>3, <2>4, <1>3
    <3>2. CASE ~SomeDebtIn(c, n)
      <4>1. a = 0
        BY <3>2, <2>2, <2>3, <2>4
      <4>2. o * n = 0
        BY <3>2, <2>1, <2>5, <1>2
      <4> QED BY <4>1, <4>2, <1>3
    <3> QED BY <3>1, <3>2
  <2>7. RepaidFor(c, m, n) = IF a <= debt[c][m] THEN a ELSE debt[c][m]
    BY DEF RepaidFor, Repaid, a
  <2> QED BY <2>6, <2>7, <1>3 DEF o
<1>6. debt' \in [Component -> [Leverage -> Nat]]
  BY <1>3, <1>4, <1>5
<1>7. ASSUME NEW c \in Component, NEW m \in Leverage,
             debt[c][m] * PreciseUnit <= Owes(c, m) * totalSupply
      PROVE  debt'[c][m] * PreciseUnit <= Owes(c, m) * totalSupply'
  <2> DEFINE o == Owes(c, m)
             r == RepaidFor(c, m, n)
             d == debt[c][m]
  <2>1. o \in Nat /\ r \in Nat /\ d \in Nat /\ r <= d
    BY <1>3, <1>5, OwesRecorded
  <2>2. debt'[c][m] = d - r /\ (r = d \/ o * n <= r * PreciseUnit)
    BY <1>4, <1>5
  <2>3. d * PreciseUnit <= o * totalSupply
    BY <1>7
  <2> HIDE DEF o, r, d
  <2>4. CASE r = d
    <3>1. (d - r) * PreciseUnit = 0 /\ o * (totalSupply - n) >= 0
      BY <2>1, <2>4, <1>2, <1>3
    <3> QED BY <3>1, <2>2, <1>2 DEF o
  <2>5. CASE o * n <= r * PreciseUnit
    <3>1. /\ (d - r) * PreciseUnit = d * PreciseUnit - r * PreciseUnit
          /\ o * (totalSupply - n) = o * totalSupply - o * n
      BY <2>1, <1>2, <1>3
    <3>2. /\ d * PreciseUnit \in Nat /\ r * PreciseUnit \in Nat
          /\ o * totalSupply \in Nat /\ o * n \in Nat
      BY <2>1, <1>2, <1>3
    <3>3. (d - r) * PreciseUnit <= o * (totalSupply - n)
      BY <3>1, <3>2, <2>3, <2>5
    <3> QED BY <3>3, <2>2, <1>2 DEF o
  <2> QED BY <2>2, <2>4, <2>5
<1> QED BY <1>2, <1>3, <1>6, <1>7, IssuanceRecords DEF Redeem, feeVars

LEMMA SyncStepRecords ==
  ASSUME DebtInv, NEW m \in Leverage, Sync(m)
  PROVE  DebtInv'
<1>1. \A c \in Component, l \in Leverage :
        /\ SyncedBorrow({m}, c, l) \in Nat
        /\ <<c, l>> \notin drifted \ Refreshed({m}) =>
             debt[c][l] * PreciseUnit <= SyncedBorrow({m}, c, l) * totalSupply
  BY SyncRecords
<1>2. /\ borrowUnit' = [c \in Component |->
                          [l \in Leverage |-> SyncedBorrow({m}, c, l)]]
      /\ drifted' = drifted \ Refreshed({m})
      /\ UNCHANGED <<totalSupply, debt, issueFee, redeemFee>>
  BY DEF Sync, WriteSynced, holdingVars, feeVars
<1>3. DebtTypeOK'
  BY <1>1, <1>2 DEF DebtInv, DebtTypeOK
<1>4. DebtRecorded'
  BY <1>1, <1>2 DEF DebtRecorded
<1> QED BY <1>3, <1>4 DEF DebtInv

\* Accrued interest is in drifted until the next sync.
LEMMA InterestRecords ==
  ASSUME DebtInv, NEW c \in Component, NEW m \in Leverage, InterestOnDebt(c, m)
  PROVE  DebtInv'
<1>1. /\ debt \in [Component -> [Leverage -> Nat]]
      /\ debt' = [debt EXCEPT ![c][m] = debt[c][m] + 1]
      /\ drifted' = drifted \cup {<<c, m>>}
      /\ UNCHANGED <<totalSupply, borrowUnit, issueFee, redeemFee>>
  BY DEF InterestOnDebt, DebtInv, DebtTypeOK, positionVars, feeVars
<1>2. DebtTypeOK'
  BY <1>1 DEF DebtInv, DebtTypeOK
<1>3. DebtRecorded'
  <2> SUFFICES ASSUME NEW d \in Component, NEW l \in Leverage,
                      <<d, l>> \notin drifted'
               PROVE  debt'[d][l] * PreciseUnit <= borrowUnit'[d][l] * totalSupply'
    BY DEF DebtRecorded
  <2>1. ~(d = c /\ l = m) /\ <<d, l>> \notin drifted
    BY <1>1
  <2>2. debt'[d][l] = debt[d][l]
    BY <1>1, <2>1
  <2> QED BY <1>1, <2>1, <2>2 DEF DebtInv, DebtRecorded
<1> QED BY <1>2, <1>3 DEF DebtInv

LEMMA LiquidationRecords ==
  ASSUME DebtInv, NEW m \in Leverage, NEW b \in Component, NEW c \in Component,
         Liquidation(m, b, c)
  PROVE  DebtInv'
<1>1. /\ debt \in [Component -> [Leverage -> Nat]]
      /\ debt[b][m] > 0
      /\ debt' = [debt EXCEPT ![b][m] = debt[b][m] - 1]
      /\ UNCHANGED <<totalSupply, borrowUnit, issueFee, redeemFee, drifted>>
  BY DEF Liquidation, DebtInv, DebtTypeOK, positionVars, feeVars
<1>2. DebtTypeOK'
  BY <1>1 DEF DebtInv, DebtTypeOK
<1>3. DebtRecorded'
  <2> SUFFICES ASSUME NEW d \in Component, NEW l \in Leverage,
                      <<d, l>> \notin drifted'
               PROVE  debt'[d][l] * PreciseUnit <= borrowUnit'[d][l] * totalSupply'
    BY DEF DebtRecorded
  <2> DEFINE x == debt[d][l]
             y == debt'[d][l]
             z == borrowUnit[d][l] * totalSupply
  <2>1. x \in Nat /\ y \in Nat /\ y <= x /\ z \in Nat
    BY <1>1 DEF DebtInv, DebtTypeOK
  <2>2. x * PreciseUnit <= z
    BY <1>1 DEF DebtInv, DebtRecorded
  <2> HIDE DEF x, y, z
  <2>3. y * PreciseUnit <= x * PreciseUnit
    BY <2>1, PreciseUnitAssumption
  <2>4. y * PreciseUnit <= z
    BY <2>1, <2>2, <2>3, PreciseUnitAssumption
  <2> QED BY <2>4, <1>1 DEF y, z
<1> QED BY <1>2, <1>3 DEF DebtInv

\* No step disturbs the recorded debt.
LEMMA StepRecords ==
  ASSUME SoundSettings, DebtInv, [Next]_vars
  PROVE  DebtInv'
<1>1. CASE \E m \in Leverage : Sync(m)
  BY <1>1, SyncStepRecords
<1>2. CASE \E m \in Leverage, b, c \in Component, u, min \in LeverUnits,
              left, r \in Receivable, f \in TradeFees :
                Lever(m, b, c, u, min, left, r, f)
  BY <1>2, LeverRecords
<1>3. CASE \E m \in Leverage, b, c \in Component, u, min \in LeverUnits,
              r \in Receivable, f \in TradeFees : Delever(m, c, b, u, min, r, f)
  BY <1>3, DeleverRecords
<1>4. CASE \E m \in Leverage, b, c \in Component, u \in LeverUnits,
              r \in Receivable : DeleverToZeroBorrowBalance(m, c, b, u, r)
  BY <1>4, DeleverToZeroRecords
<1>5. CASE \E f \in ManagerFees : UpdateIssueFee(f) \/ UpdateRedeemFee(f)
  BY <1>5 DEF UpdateIssueFee, UpdateRedeemFee, DebtInv, DebtTypeOK, DebtRecorded,
              positionVars, holdingVars
<1>6. CASE \E q \in Quantities, s \in FeeSplits, in, out \in Losses :
             Issue(q, s, in, out)
  BY <1>6, IssueRecords
<1>7. CASE \E q \in Quantities, s \in FeeSplits, in, out \in Losses :
             Redeem(q, s, in, out)
  BY <1>7, RedeemRecords
<1>8. CASE \E c \in Component, m \in Leverage : InterestOnDebt(c, m)
  BY <1>8, InterestRecords
<1>9. CASE \E c \in Component : BalanceGrows(c)
  BY <1>9 DEF BalanceGrows, DebtInv, DebtTypeOK, DebtRecorded, positionVars, feeVars
<1>10. CASE \E m \in Leverage, b, c \in Component : Liquidation(m, b, c)
  BY <1>10, LiquidationRecords
<1>11. CASE UNCHANGED vars
  BY <1>11 DEF vars, DebtInv, DebtTypeOK, DebtRecorded, positionVars,
               holdingVars, feeVars
<1> QED BY <1>1, <1>2, <1>3, <1>4, <1>5, <1>6, <1>7, <1>8, <1>9, <1>10, <1>11
        DEF Next

\* The recorded debt of the whole supply covers the debt at the lending
\* protocols except for interest since the last sync, however issuance,
\* redemption, leverage, liquidation and fees interleave, if every leverage
\* module looks at _isEquity and the protocol's split is below 100%.
THEOREM DebtIsRecorded ==
  ASSUME SoundSettings
  PROVE  Spec => []DebtRecorded
<1>1. Init => DebtInv
  BY InitRecorded
<1>2. DebtInv /\ [Next]_vars => DebtInv'
  BY StepRecords
<1>3. DebtInv => DebtRecorded
  BY DEF DebtInv
<1> QED BY <1>1, <1>2, <1>3, PTL DEF Spec

-----------------------------------------------------------------------------
(* Types, and what the amounts of an issuance or a redemption are.         *)

\* A module owes nothing in a token it does not borrow.
OwesOnlyBorrowed ==
  \A c \in Component, m \in Leverage : c \notin BorrowAsset[m] => borrowUnit[c][m] = 0

CoverInv == TypeOK /\ OwesOnlyBorrowed

LEMMA HooksAct ==
  ASSUME NEW m, NEW equityPass, NEW debtPass
  PROVE  /\ Cardinality(HookCalls(m, equityPass, debtPass)) \in Nat
         /\ debtPass => Cardinality(HookCalls(m, equityPass, debtPass)) >= 1
<1> DEFINE H == HookCalls(m, equityPass, debtPass)
<1>1. IsFiniteSet(BOOLEAN)
  <2>1. IsFiniteSet({FALSE} \cup {TRUE})
    <3>1. IsFiniteSet({FALSE})
      BY FS_Singleton
    <3> QED BY <3>1, FS_AddElement, Zenon
  <2>2. BOOLEAN = {FALSE} \cup {TRUE}
    OBVIOUS
  <2> QED BY <2>1, <2>2
<1>2. IsFiniteSet(H) /\ Cardinality(H) \in Nat
  BY <1>1, FS_Subset, FS_CardinalityType DEF HookCalls
<1>3. debtPass => H # {}
  <2>1. debtPass => FALSE \in H
    BY DEF HookCalls, ActsInPass
  <2> QED BY <2>1
<1>4. H # {} => Cardinality(H) # 0
  BY <1>2, FS_EmptySet
<1> HIDE DEF H
<1> QED BY <1>2, <1>3, <1>4 DEF H

LEMMA SyncTypes ==
  ASSUME CoverInv, NEW ms \in SUBSET Leverage, NEW c \in Component
  PROVE  /\ SyncedUnit(ms, c) \in Nat
         /\ \A m \in Leverage :
              /\ SyncedBorrow(ms, c, m) \in Nat
              /\ c \notin BorrowAsset[m] => SyncedBorrow(ms, c, m) = 0
<1>1. /\ totalSupply \in Nat /\ balance[c] \in Nat /\ defaultUnit[c] \in Nat
      /\ \A m \in Leverage : debt[c][m] \in Nat /\ borrowUnit[c][m] \in Nat
  BY DEF CoverInv, TypeOK
<1>2. SyncedUnit(ms, c) \in Nat
  BY <1>1, PreciseDivBounds DEF SyncedUnit, GetCollateralPosition
<1>3. ASSUME NEW m \in Leverage
      PROVE  SyncedBorrow(ms, c, m) \in Nat
  BY <1>1, PreciseDivCeilBounds DEF SyncedBorrow, GetBorrowPosition
<1>4. ASSUME NEW m \in Leverage, c \notin BorrowAsset[m]
      PROVE  SyncedBorrow(ms, c, m) = 0
  BY <1>4 DEF SyncedBorrow, CoverInv, OwesOnlyBorrowed
<1> QED BY <1>2, <1>3, <1>4

\* All amounts are naturals, and nobody repays more than is owed.
LEMMA AmountTypes ==
  ASSUME CoverInv, NEW c \in Component, NEW n \in Nat
  PROVE  /\ Unit(c) \in Nat
         /\ EquityIn(c, n) \in Nat /\ EquityOut(c, n) \in Nat
         /\ \A m \in Leverage :
              /\ Owes(c, m) \in Nat
              /\ BorrowedFor(c, m, n) \in Nat
              /\ RepayFor(c, m, n) \in Nat
              /\ RepaidFor(c, m, n) \in 0 .. debt[c][m]
         /\ TotalOwes(c) \in Nat
         /\ TotalBorrowed(c, n) \in Nat /\ TotalRepaid(c, n) \in Nat
         /\ DebtOut(c, n) \in Nat /\ DebtIn(c, n) \in Nat
<1>1. Unit(c) \in Nat /\ EquityIn(c, n) \in Nat /\ EquityOut(c, n) \in Nat
  BY SyncTypes, PreciseMulBounds, PreciseMulCeilBounds DEF Unit, EquityIn, EquityOut
<1>2. \A m \in Leverage : Owes(c, m) \in Nat
  BY SyncTypes DEF Owes
<1>3. ASSUME NEW m \in Leverage
      PROVE  /\ BorrowedFor(c, m, n) \in Nat
             /\ RepayFor(c, m, n) \in Nat
             /\ RepaidFor(c, m, n) \in 0 .. debt[c][m]
  <2>1. PreciseMul(Owes(c, m), n) \in Nat /\ PreciseMulCeil(Owes(c, m), n) \in Nat
    BY <1>2, PreciseMulBounds, PreciseMulCeilBounds
  <2>2. IssueHookCalls(c, m, n) \in Nat /\ RedeemHookCalls(c, m, n) \in Nat
    BY HooksAct DEF IssueHookCalls, RedeemHookCalls
  <2>3. BorrowedFor(c, m, n) \in Nat /\ RepayFor(c, m, n) \in Nat
    BY <2>1, <2>2 DEF BorrowedFor, RepayFor
  <2>4. debt[c][m] \in Nat
    BY DEF CoverInv, TypeOK
  <2>5. RepaidFor(c, m, n) \in 0 .. debt[c][m]
    BY <2>3, <2>4 DEF RepaidFor, Repaid
  <2> QED BY <2>3, <2>5
<1>4. TotalOwes(c) \in Nat
  <2>1. [m \in Leverage |-> Owes(c, m)] \in [Leverage -> Nat]
    BY <1>2
  <2> QED BY <2>1, DebtAssumption, SumOfNaturals DEF TotalOwes
<1>5. TotalBorrowed(c, n) \in Nat
  <2>1. [m \in Leverage |-> BorrowedFor(c, m, n)] \in [Leverage -> Nat]
    BY <1>3
  <2> QED BY <2>1, DebtAssumption, SumOfNaturals DEF TotalBorrowed
<1>6. TotalRepaid(c, n) \in Nat
  <2>1. [m \in Leverage |-> RepaidFor(c, m, n)] \in [Leverage -> Nat]
    BY <1>3
  <2> QED BY <2>1, DebtAssumption, SumOfNaturals DEF TotalRepaid
<1>7. DebtOut(c, n) \in Nat /\ DebtIn(c, n) \in Nat
  BY <1>4, PreciseMulBounds, PreciseMulCeilBounds DEF DebtOut, DebtIn
<1> QED BY <1>1, <1>2, <1>3, <1>4, <1>5, <1>6, <1>7

\* The quantities that fees leave to transfer, and the supply afterwards.
LEMMA IssueQuantities ==
  ASSUME CoverInv, NEW q \in Quantities, NEW s \in FeeSplits
  PROVE  /\ TotalFee(issueFee, q) \in Nat /\ TotalFee(redeemFee, q) \in Nat
         /\ MintedFees(issueFee, q, s) \in 0 .. TotalFee(issueFee, q)
         /\ MintedFees(redeemFee, q, s) \in 0 .. TotalFee(redeemFee, q)
         /\ q \in Nat
<1>1. q \in Nat /\ issueFee \in Nat /\ redeemFee \in Nat
  BY DebtAssumption DEF CoverInv, TypeOK
<1>2. TotalFee(issueFee, q) \in Nat /\ TotalFee(redeemFee, q) \in Nat
  BY <1>1, PreciseMulBounds DEF TotalFee
<1> QED BY <1>1, <1>2 DEF MintedFees

LEMMA LossTypes ==
  ASSUME NEW in \in Losses, NEW c \in Component
  PROVE  in[c] \in Nat /\ (~validated => in[c] = 0)
  BY DebtAssumption DEF Losses

-----------------------------------------------------------------------------
(* Every step keeps the types.                                             *)

LEMMA InitCoverInv == Init => CoverInv
<1> SUFFICES ASSUME Init PROVE CoverInv
  OBVIOUS
<1>1. TypeOK
  BY DebtAssumption DEF Init, TypeOK
<1>2. OwesOnlyBorrowed
  BY DEF Init, OwesOnlyBorrowed
<1> QED BY <1>1, <1>2 DEF CoverInv

\* A leverage trade.
LEMMA TradeTypes ==
  ASSUME CoverInv, NEW m \in Leverage, NEW b \in Component, NEW c \in Component,
         NEW owed \in Nat, NEW heldB \in Nat, NEW heldC \in Nat, NEW unitOfB \in Nat,
         totalSupply > 0, b \in BorrowAsset[m],
         debt' = [debt EXCEPT ![b][m] = owed],
         balance' = [balance EXCEPT ![b] = heldB, ![c] = heldC],
         UpdatePositions(m, c, b, unitOfB),
         UNCHANGED <<totalSupply, feeVars>>
  PROVE  CoverInv'
<1>1. /\ totalSupply \in Nat \ {0}
      /\ debt \in [Component -> [Leverage -> Nat]]
      /\ borrowUnit \in [Component -> [Leverage -> Nat]]
      /\ balance \in [Component -> Nat]
      /\ defaultUnit \in [Component -> Nat]
      /\ drifted \in SUBSET (Component \X Leverage)
  BY DEF CoverInv, TypeOK
<1>2. /\ debt' \in [Component -> [Leverage -> Nat]] /\ debt'[b][m] = owed
      /\ balance' \in [Component -> Nat]
  BY <1>1
<1> DEFINE unitOfC == GetCollateralPosition(balance'[c])
           recorded == GetBorrowPosition(debt'[b][m])
<1>3. unitOfC \in Nat /\ recorded \in Nat
  BY <1>1, <1>2, PreciseDivBounds, PreciseDivCeilBounds
     DEF GetCollateralPosition, GetBorrowPosition
<1>4. /\ defaultUnit' = [defaultUnit EXCEPT ![c] = unitOfC, ![b] = unitOfB]
      /\ borrowUnit' = [borrowUnit EXCEPT ![b][m] = recorded]
      /\ drifted' = drifted \ {<<b, m>>}
  BY DEF UpdatePositions
<1> HIDE DEF unitOfC, recorded
<1>5. /\ defaultUnit' \in [Component -> Nat]
      /\ borrowUnit' \in [Component -> [Leverage -> Nat]]
      /\ drifted' \in SUBSET (Component \X Leverage)
  BY <1>1, <1>3, <1>4
<1>6. TypeOK'
  BY <1>1, <1>2, <1>5 DEF CoverInv, TypeOK, feeVars
<1>7. OwesOnlyBorrowed'
  <2> SUFFICES ASSUME NEW d \in Component, NEW l \in Leverage, d \notin BorrowAsset[l]
               PROVE  borrowUnit'[d][l] = 0
    BY DEF OwesOnlyBorrowed
  <2>1. borrowUnit'[d][l] = borrowUnit[d][l]
    BY <1>1, <1>4
  <2> QED BY <2>1 DEF CoverInv, OwesOnlyBorrowed
<1> QED BY <1>6, <1>7 DEF CoverInv

LEMMA CollateralIsNotBorrowed ==
  ASSUME NEW m \in Leverage, NEW b \in Component, NEW c \in Component,
         NEW notional, ActionAccepted(m, c, b, notional)
  PROVE  b # c
  BY DebtAssumption DEF ActionAccepted

LEMMA LeverTypes ==
  ASSUME CoverInv, NEW m \in Leverage, NEW b \in Component, NEW c \in Component,
         NEW u \in LeverUnits, NEW min \in LeverUnits, NEW left \in Receivable,
         NEW r \in Receivable, NEW f \in TradeFees,
         Lever(m, b, c, u, min, left, r, f)
  PROVE  CoverInv'
<1> DEFINE notional == PreciseMul(u, totalSupply)
           fee == PreciseMul(r, f)
<1>1. u \in Nat /\ r \in Nat /\ f \in Nat /\ left \in Nat
  BY DebtAssumption
<1>2. /\ totalSupply \in Nat /\ debt \in [Component -> [Leverage -> Nat]]
      /\ balance \in [Component -> Nat] /\ defaultUnit[b] \in Nat
  BY DEF CoverInv, TypeOK
<1>3. notional \in Nat /\ totalSupply > 0 /\ b \in BorrowAsset[m] /\ b # c
  BY <1>1, <1>2, NotionalNeedsSupply, CollateralIsNotBorrowed DEF Lever, ActionAccepted
<1>4. fee \in Nat /\ fee <= r
  BY <1>1, PreciseMulBounds DEF Lever, TradeAccepted
<1>5. /\ debt' = [debt EXCEPT ![b][m] = @ + notional]
      /\ balance' = [balance EXCEPT ![b] = @ + left, ![c] = @ + (r - fee)]
      /\ UpdatePositions(m, c, b, defaultUnit[b])
      /\ UNCHANGED <<totalSupply, feeVars>>
  BY DEF Lever
<1> HIDE DEF notional, fee
<1>6. /\ debt' = [debt EXCEPT ![b][m] = debt[b][m] + notional]
      /\ balance' = [balance EXCEPT ![b] = balance[b] + left, ![c] = balance[c] + (r - fee)]
  BY <1>2, <1>3, <1>5
<1>7. debt[b][m] + notional \in Nat /\ balance[b] + left \in Nat
      /\ balance[c] + (r - fee) \in Nat
  BY <1>1, <1>2, <1>3, <1>4
<1> QED BY <1>2, <1>3, <1>5, <1>6, <1>7, TradeTypes

\* The unit calculated for the repaid asset.
LEMMA CalculatedUnitType ==
  ASSUME CoverInv, NEW b \in Component, NEW held \in Nat, totalSupply > 0,
         CalculationAccepted(b, held)
  PROVE  CalculatedUnit(b, held) \in Nat
<1>1. totalSupply \in Nat \ {0} /\ balance[b] \in Nat /\ defaultUnit[b] \in Nat
  BY DEF CoverInv, TypeOK
<1>2. CASE held = 0
  BY <1>2 DEF CalculatedUnit
<1>3. CASE held > 0
  <2>1. Untracked(b) \in Int
    <3>1. PreciseMul(defaultUnit[b], totalSupply) \in Nat
      BY <1>1, PreciseMulBounds
    <3> QED BY <1>1, <3>1 DEF Untracked
  <2>2. held - Untracked(b) \in Nat
    BY <1>3, <2>1 DEF CalculationAccepted
  <2>3. CalculatedUnit(b, held) = PreciseDiv(held - Untracked(b), totalSupply)
    BY <1>3 DEF CalculatedUnit
  <2> QED BY <1>1, <2>2, <2>3, PreciseDivBounds
<1> QED BY <1>2, <1>3

LEMMA DeleverTypes ==
  ASSUME CoverInv, NEW m \in Leverage, NEW b \in Component, NEW c \in Component,
         NEW u \in LeverUnits, NEW min \in LeverUnits,
         NEW r \in Receivable, NEW f \in TradeFees,
         Delever(m, c, b, u, min, r, f)
  PROVE  CoverInv'
<1> DEFINE notional == PreciseMul(u, totalSupply)
           fee  == PreciseMul(r, f)
           paid == Repaid(r - fee, debt[b][m])
           held == balance[b] + (r - fee) - paid
           unit == UnitAfterRepay(m, b, held)
<1>1. u \in Nat /\ r \in Nat /\ f \in Nat
  BY DebtAssumption
<1>2. /\ totalSupply \in Nat /\ debt \in [Component -> [Leverage -> Nat]]
      /\ balance \in [Component -> Nat] /\ defaultUnit[b] \in Nat
  BY DEF CoverInv, TypeOK
<1>3. /\ notional \in Nat /\ notional <= balance[c]
      /\ totalSupply > 0 /\ b \in BorrowAsset[m] /\ b # c
  BY <1>1, <1>2, NotionalNeedsSupply, CollateralIsNotBorrowed DEF Delever, ActionAccepted
<1>4. fee \in Nat /\ fee <= r
  BY <1>1, PreciseMulBounds DEF Delever, TradeAccepted
<1>5. paid \in Nat /\ debt[b][m] - paid \in Nat /\ r - fee - paid \in Nat
  BY <1>1, <1>2, <1>4 DEF Repaid
<1>6. held \in Nat
  BY <1>1, <1>2, <1>4, <1>5
<1>7. unit \in Nat
  <2>1. m \in Aave /\ held # balance[b] => CalculationAccepted(b, held)
    <3>1. held = balance[b] + (r - PreciseMul(r, f))
                   - Repaid(r - PreciseMul(r, f), debt[b][m])
      OBVIOUS
    <3> HIDE DEF held
    <3> QED BY <3>1 DEF Delever
  <2> HIDE DEF held
  <2> QED BY <1>2, <1>3, <1>6, <2>1, CalculatedUnitType DEF UnitAfterRepay
<1>8. /\ debt' = [debt EXCEPT ![b][m] = @ - paid]
      /\ balance' = [balance EXCEPT ![b] = held, ![c] = @ - notional]
      /\ UpdatePositions(m, c, b, unit)
      /\ UNCHANGED <<totalSupply, feeVars>>
  BY DEF Delever
<1> HIDE DEF notional, fee, paid, held, unit
<1>9. /\ debt' = [debt EXCEPT ![b][m] = debt[b][m] - paid]
      /\ balance' = [balance EXCEPT ![b] = held, ![c] = balance[c] - notional]
      /\ balance[c] - notional \in Nat
  BY <1>2, <1>3, <1>8
<1> QED BY <1>3, <1>5, <1>6, <1>7, <1>8, <1>9, TradeTypes

LEMMA DeleverToZeroTypes ==
  ASSUME CoverInv, NEW m \in Leverage, NEW b \in Component, NEW c \in Component,
         NEW u \in LeverUnits, NEW r \in Receivable,
         DeleverToZeroBorrowBalance(m, c, b, u, r)
  PROVE  CoverInv'
<1> DEFINE notional == PreciseMul(u, totalSupply)
           held == balance[b] + r - debt[b][m]
           edits == m \notin Aave \/ held # balance[b]
           unit == IF edits THEN CalculatedUnit(b, held) ELSE defaultUnit[b]
<1>1. u \in Nat /\ r \in Nat
  BY DebtAssumption
<1>2. /\ totalSupply \in Nat /\ debt \in [Component -> [Leverage -> Nat]]
      /\ balance \in [Component -> Nat] /\ defaultUnit[b] \in Nat
  BY DEF CoverInv, TypeOK
<1>3. /\ notional \in Nat /\ notional <= balance[c]
      /\ totalSupply > 0 /\ b \in BorrowAsset[m] /\ b # c
  BY <1>1, <1>2, NotionalNeedsSupply, CollateralIsNotBorrowed
     DEF DeleverToZeroBorrowBalance, ActionAccepted
<1>4. held \in Nat
  BY <1>1, <1>2 DEF DeleverToZeroBorrowBalance
<1>5. unit \in Nat
  <2>1. edits => CalculationAccepted(b, held)
    BY DEF DeleverToZeroBorrowBalance
  <2> HIDE DEF held, edits
  <2> QED BY <1>2, <1>3, <1>4, <2>1, CalculatedUnitType
<1>6. /\ debt' = [debt EXCEPT ![b][m] = 0]
      /\ balance' = [balance EXCEPT ![b] = held, ![c] = @ - notional]
      /\ UpdatePositions(m, c, b, unit)
      /\ UNCHANGED <<totalSupply, feeVars>>
  BY DEF DeleverToZeroBorrowBalance
<1> HIDE DEF notional, held, unit
<1>7. /\ balance' = [balance EXCEPT ![b] = held, ![c] = balance[c] - notional]
      /\ balance[c] - notional \in Nat
  BY <1>2, <1>3, <1>6
<1> QED BY <1>3, <1>4, <1>5, <1>6, <1>7, TradeTypes

\* Whatever writes synced units keeps the types if balances, debts and the
\* supply stay naturals.
LEMMA SyncedTypes ==
  ASSUME CoverInv, NEW ms \in SUBSET Leverage, WriteSynced(ms),
         drifted' \in SUBSET drifted,
         totalSupply' \in Nat, balance' \in [Component -> Nat],
         debt' \in [Component -> [Leverage -> Nat]], UNCHANGED feeVars
  PROVE  CoverInv'
<1>1. \A c \in Component :
        /\ SyncedUnit(ms, c) \in Nat
        /\ \A m \in Leverage :
             /\ SyncedBorrow(ms, c, m) \in Nat
             /\ c \notin BorrowAsset[m] => SyncedBorrow(ms, c, m) = 0
  BY SyncTypes
<1>2. TypeOK'
  BY <1>1 DEF WriteSynced, CoverInv, TypeOK, feeVars
<1>3. OwesOnlyBorrowed'
  BY <1>1 DEF WriteSynced, OwesOnlyBorrowed
<1> QED BY <1>2, <1>3 DEF CoverInv

LEMMA IssueTypes ==
  ASSUME CoverInv, NEW q \in Quantities, NEW s \in FeeSplits,
         NEW in \in Losses, NEW out \in Losses, Issue(q, s, in, out)
  PROVE  CoverInv'
<1> DEFINE n == q + TotalFee(issueFee, q)
<1>1. n \in Nat /\ totalSupply' \in Nat
  BY IssueQuantities DEF Issue, CoverInv, TypeOK
<1>2. /\ \A c \in Component : IssueTransfersAccepted(c, n, in[c], out[c])
      /\ balance' = [c \in Component |-> IssuedBalance(c, n, in[c] + out[c])]
      /\ debt' = [c \in Component |->
                    [m \in Leverage |-> debt[c][m] + BorrowedFor(c, m, n)]]
      /\ WriteSynced(Leverage) /\ drifted' = drifted \ Refreshed(Leverage)
      /\ UNCHANGED feeVars
  BY DEF Issue
<1> HIDE DEF n
<1>3. ASSUME NEW c \in Component
      PROVE  IssuedBalance(c, n, in[c] + out[c]) \in Nat
  <2>1. /\ balance[c] \in Nat /\ EquityIn(c, n) \in Nat /\ in[c] + out[c] \in Nat
        /\ TotalBorrowed(c, n) \in Nat /\ DebtOut(c, n) \in Nat
    <3>1. EquityIn(c, n) \in Nat /\ TotalBorrowed(c, n) \in Nat /\ DebtOut(c, n) \in Nat
      BY <1>1, AmountTypes
    <3>2. in[c] \in Nat /\ out[c] \in Nat
      BY LossTypes
    <3> QED BY <3>1, <3>2 DEF CoverInv, TypeOK
  <2>2. IssuedBalance(c, n, in[c] + out[c]) >= 0
    BY <1>2 DEF IssueTransfersAccepted
  <2> QED BY <2>1, <2>2 DEF IssuedBalance
<1>4. balance' \in [Component -> Nat]
  BY <1>2, <1>3
<1>5. debt' \in [Component -> [Leverage -> Nat]]
  <2>1. \A c \in Component, m \in Leverage : debt[c][m] + BorrowedFor(c, m, n) \in Nat
    <3>1. \A c \in Component, m \in Leverage : BorrowedFor(c, m, n) \in Nat
      BY <1>1, AmountTypes
    <3> QED BY <3>1 DEF CoverInv, TypeOK
  <2> QED BY <1>2, <2>1
<1> QED BY <1>1, <1>2, <1>4, <1>5, SyncedTypes

LEMMA RedeemTypes ==
  ASSUME CoverInv, NEW q \in Quantities, NEW s \in FeeSplits,
         NEW in \in Losses, NEW out \in Losses, Redeem(q, s, in, out)
  PROVE  CoverInv'
<1> DEFINE n == q - TotalFee(redeemFee, q)
<1>1. n \in Nat /\ totalSupply' \in Nat
  BY IssueQuantities DEF Redeem, CoverInv, TypeOK
<1>2. /\ \A c \in Component : RedeemTransfersAccepted(c, n, in[c], out[c])
      /\ balance' = [c \in Component |-> RedeemedBalance(c, n, in[c] + out[c])]
      /\ debt' = [c \in Component |->
                    [m \in Leverage |-> debt[c][m] - RepaidFor(c, m, n)]]
      /\ WriteSynced(Leverage) /\ drifted' = drifted \ Refreshed(Leverage)
      /\ UNCHANGED feeVars
  BY DEF Redeem
<1> HIDE DEF n
<1>3. ASSUME NEW c \in Component
      PROVE  RedeemedBalance(c, n, in[c] + out[c]) \in Nat
  <2>1. /\ balance[c] \in Nat /\ EquityOut(c, n) \in Nat /\ in[c] + out[c] \in Nat
        /\ TotalRepaid(c, n) \in Nat /\ DebtIn(c, n) \in Nat
    <3>1. EquityOut(c, n) \in Nat /\ TotalRepaid(c, n) \in Nat /\ DebtIn(c, n) \in Nat
      BY <1>1, AmountTypes
    <3>2. in[c] \in Nat /\ out[c] \in Nat
      BY LossTypes
    <3> QED BY <3>1, <3>2 DEF CoverInv, TypeOK
  <2>2. RedeemedBalance(c, n, in[c] + out[c]) >= 0
    BY <1>2 DEF RedeemTransfersAccepted
  <2> QED BY <2>1, <2>2 DEF RedeemedBalance
<1>4. balance' \in [Component -> Nat]
  BY <1>2, <1>3
<1>5. debt' \in [Component -> [Leverage -> Nat]]
  <2>1. ASSUME NEW c \in Component, NEW m \in Leverage
        PROVE  debt[c][m] - RepaidFor(c, m, n) \in Nat
    <3>1. debt[c][m] \in Nat /\ RepaidFor(c, m, n) \in 0 .. debt[c][m]
      BY <1>1, AmountTypes DEF CoverInv, TypeOK
    <3> QED BY <3>1
  <2> QED BY <1>2, <2>1
<1> QED BY <1>1, <1>2, <1>4, <1>5, SyncedTypes

LEMMA StepTypes ==
  ASSUME CoverInv, [Next]_vars
  PROVE  CoverInv'
<1>1. CASE \E m \in Leverage : Sync(m)
  <2>1. PICK m \in Leverage : Sync(m)
    BY <1>1
  <2> QED BY <2>1, SyncedTypes DEF Sync, holdingVars, CoverInv, TypeOK
<1>2. CASE \E m \in Leverage, b, c \in Component, u, min \in LeverUnits,
              left, r \in Receivable, f \in TradeFees :
                Lever(m, b, c, u, min, left, r, f)
  BY <1>2, LeverTypes
<1>3. CASE \E m \in Leverage, b, c \in Component, u, min \in LeverUnits,
              r \in Receivable, f \in TradeFees : Delever(m, c, b, u, min, r, f)
  BY <1>3, DeleverTypes
<1>4. CASE \E m \in Leverage, b, c \in Component, u \in LeverUnits,
              r \in Receivable : DeleverToZeroBorrowBalance(m, c, b, u, r)
  BY <1>4, DeleverToZeroTypes
<1>5. CASE \E f \in ManagerFees : UpdateIssueFee(f) \/ UpdateRedeemFee(f)
  BY <1>5 DEF UpdateIssueFee, UpdateRedeemFee, CoverInv, TypeOK, OwesOnlyBorrowed,
              positionVars, holdingVars
<1>6. CASE \E q \in Quantities, s \in FeeSplits, in, out \in Losses :
             Issue(q, s, in, out)
  BY <1>6, IssueTypes
<1>7. CASE \E q \in Quantities, s \in FeeSplits, in, out \in Losses :
             Redeem(q, s, in, out)
  BY <1>7, RedeemTypes
<1>8. CASE \E c \in Component, m \in Leverage : InterestOnDebt(c, m)
  <2>1. PICK c \in Component, m \in Leverage : InterestOnDebt(c, m)
    BY <1>8
  <2>2. debt' = [debt EXCEPT ![c][m] = debt[c][m] + 1]
    BY <2>1 DEF InterestOnDebt, CoverInv, TypeOK
  <2>3. debt' \in [Component -> [Leverage -> Nat]]
    BY <2>2 DEF CoverInv, TypeOK
  <2>4. drifted' \in SUBSET (Component \X Leverage)
    BY <2>1 DEF InterestOnDebt, CoverInv, TypeOK
  <2> QED BY <2>1, <2>3, <2>4
          DEF InterestOnDebt, CoverInv, TypeOK, OwesOnlyBorrowed, positionVars, feeVars
<1>9. CASE \E c \in Component : BalanceGrows(c)
  <2>1. PICK c \in Component : BalanceGrows(c)
    BY <1>9
  <2>2. balance' \in [Component -> Nat]
    BY <2>1 DEF BalanceGrows, CoverInv, TypeOK
  <2> QED BY <2>1, <2>2
          DEF BalanceGrows, CoverInv, TypeOK, OwesOnlyBorrowed, positionVars, feeVars
<1>10. CASE \E m \in Leverage, b, c \in Component : Liquidation(m, b, c)
  <2>1. PICK m \in Leverage, b \in Component, c \in Component : Liquidation(m, b, c)
    BY <1>10
  <2>2. /\ debt' = [debt EXCEPT ![b][m] = debt[b][m] - 1] /\ debt[b][m] > 0
        /\ balance' = [balance EXCEPT ![c] = balance[c] - 1] /\ balance[c] > 0
    BY <2>1 DEF Liquidation, CoverInv, TypeOK
  <2>3. debt' \in [Component -> [Leverage -> Nat]] /\ balance' \in [Component -> Nat]
    BY <2>2 DEF CoverInv, TypeOK
  <2> QED BY <2>1, <2>3
          DEF Liquidation, CoverInv, TypeOK, OwesOnlyBorrowed, positionVars, feeVars
<1>11. CASE UNCHANGED vars
  BY <1>11 DEF vars, CoverInv, TypeOK, OwesOnlyBorrowed, positionVars,
               holdingVars, feeVars
<1> QED BY <1>1, <1>2, <1>3, <1>4, <1>5, <1>6, <1>7, <1>8, <1>9, <1>10, <1>11
        DEF Next

\* Whatever the leverage modules, no step takes a balance, a debt or a unit
\* below zero, although issue, redeem and delever subtract rounded sums.
THEOREM AmountsStayNatural == Spec => []TypeOK
<1>1. Init => CoverInv
  BY InitCoverInv
<1>2. CoverInv /\ [Next]_vars => CoverInv'
  BY StepTypes
<1>3. CoverInv => TypeOK
  BY DEF CoverInv
<1> QED BY <1>1, <1>2, <1>3, PTL DEF Spec

-----------------------------------------------------------------------------
(* What is borrowed and what is handed over.                               *)

\* Each module's borrowing is rounded down on its own, the sum handed to the
\* issuer once, so the issuer receives at least what was borrowed.
LEMMA BorrowedReachesIssuer ==
  ASSUME CoverInv, Aave = Leverage, NEW c \in Component, NEW n \in Nat
  PROVE  TotalBorrowed(c, n) <= DebtOut(c, n)
<1> DEFINE owes == [m \in Leverage |-> Owes(c, m)]
           borrowed == [m \in Leverage |-> BorrowedFor(c, m, n)]
<1>1. owes \in [Leverage -> Nat] /\ borrowed \in [Leverage -> Nat]
  BY AmountTypes
<1>2. ASSUME NEW m \in Leverage PROVE PreciseUnit * borrowed[m] <= owes[m] * n
  <2> DEFINE o == Owes(c, m)
             b == PreciseMul(o, n)
             calls == IssueHookCalls(c, m, n)
  <2>1. o \in Nat
    BY AmountTypes
  <2>2. b \in Nat /\ PreciseUnit * b <= o * n
    BY <2>1, PreciseMulBounds
  <2>3. calls \in {0, 1}
    BY CallsOnce DEF IssueHookCalls
  <2>4. borrowed[m] = calls * b /\ owes[m] = o
    BY DEF BorrowedFor
  <2> HIDE DEF o, b, calls, owes, borrowed
  <2>5. o * n \in Nat
    BY <2>1
  <2> QED BY <2>2, <2>3, <2>4, <2>5, PreciseUnitAssumption
<1>3. SumFunction(borrowed) = TotalBorrowed(c, n) /\ SumFunction(owes) = TotalOwes(c)
  BY DEF TotalBorrowed, TotalOwes
<1> HIDE DEF owes, borrowed
<1>4. PreciseUnit * TotalBorrowed(c, n) <= TotalOwes(c) * n
  BY <1>1, <1>2, <1>3, SumsCompare, DebtAssumption, PreciseUnitAssumption
<1> DEFINE t == TotalBorrowed(c, n)
           d == DebtOut(c, n)
           x == TotalOwes(c) * n
<1>5. t \in Nat /\ d \in Nat /\ TotalOwes(c) \in Nat
  BY AmountTypes
<1>6. x < PreciseUnit * d + PreciseUnit /\ x \in Nat
  <2> DEFINE o == TotalOwes(c)
  <2>1. o * n < PreciseUnit * PreciseMul(o, n) + PreciseUnit
    BY <1>5, PreciseMulBounds
  <2>2. d = PreciseMul(o, n) /\ o \in Nat
    BY <1>5 DEF DebtOut
  <2>3. o * n \in Nat
    <3> HIDE DEF o
    <3> QED BY <2>2
  <2> QED BY <2>1, <2>2, <2>3
<1>7. PreciseUnit * t <= x
  BY <1>4
<1> HIDE DEF t, d, x
<1>8. PreciseUnit * t < PreciseUnit * (d + 1)
  BY <1>5, <1>6, <1>7, PreciseUnitAssumption
<1>9. t < d + 1
  BY <1>5, <1>8, PreciseUnitAssumption
<1> QED BY <1>5, <1>9 DEF t, d

\* In every reachable state an issuance of any quantity borrows no more of any
\* component than the issuer is handed, for any number of Aave modules owing
\* the same token (componentIssueHook, _resolveDebtPositions).
THEOREM BorrowingReachesIssuer ==
  ASSUME Aave = Leverage
  PROVE  Spec => []BorrowingGoesToIssuer
<1>1. Init => CoverInv
  BY InitCoverInv
<1>2. CoverInv /\ [Next]_vars => CoverInv'
  BY StepTypes
<1>3. CoverInv => BorrowingGoesToIssuer
  <2> SUFFICES ASSUME CoverInv, NEW q \in Quantities, NEW c \in Component
               PROVE  TotalBorrowed(c, q + TotalFee(issueFee, q))
                        <= DebtOut(c, q + TotalFee(issueFee, q))
    BY DEF BorrowingGoesToIssuer
  <2>1. q \in Nat /\ issueFee \in Nat
    BY DebtAssumption DEF CoverInv, TypeOK
  <2>2. TotalFee(issueFee, q) \in Nat
    BY <2>1, PreciseMulBounds DEF TotalFee
  <2>3. q + TotalFee(issueFee, q) \in Nat
    BY <2>1, <2>2
  <2> QED BY <2>3, BorrowedReachesIssuer
<1> QED BY <1>1, <1>2, <1>3, PTL DEF Spec

-----------------------------------------------------------------------------
(* Cover.                                                                  *)

\* A token owed to one module at most: either nobody owes it, or one module
\* owes all of it.
LEMMA OneDebtor ==
  ASSUME CoverInv, NEW c \in Component, OwedToOne(c)
  PROVE  \/ \A m \in Leverage : Owes(c, m) = 0
         \/ \E y \in Leverage : \A m \in Leverage : m # y => Owes(c, m) = 0
<1>1. \A m \in Leverage : Owes(c, m) # 0 => c \in BorrowAsset[m]
  BY SyncTypes DEF Owes
<1> QED BY <1>1 DEF OwedToOne

LEMMA PreciseMulZero ==
  ASSUME NEW n \in Nat
  PROVE  PreciseMul(0, n) = 0 /\ PreciseMulCeil(0, n) = 0
<1>1. ASSUME NEW z \in Nat, z = 0 PROVE PreciseMul(z, n) = 0 /\ PreciseMulCeil(z, n) = 0
  <2>1. PreciseMul(z, n) \in Nat /\ PreciseUnit * PreciseMul(z, n) <= z * n
    BY PreciseMulBounds
  <2>2. z * n = 0
    BY <1>1
  <2>3. PreciseMul(z, n) = 0
    BY <2>1, <2>2, PreciseUnitAssumption
  <2>4. PreciseMulCeil(z, n) = 0
    BY <1>1 DEF PreciseMulCeil
  <2> QED BY <2>3, <2>4
<1> QED BY <1>1

\* An issuer is handed no more than was borrowed.
LEMMA HandedOverIsBorrowed ==
  ASSUME CoverInv, NEW c \in Component, NEW n \in Nat, OwedToOne(c)
  PROVE  DebtOut(c, n) <= TotalBorrowed(c, n)
<1> DEFINE owes == [m \in Leverage |-> Owes(c, m)]
           borrowed == [m \in Leverage |-> BorrowedFor(c, m, n)]
<1>1. owes \in [Leverage -> Nat] /\ borrowed \in [Leverage -> Nat]
  BY AmountTypes
<1>2. SumFunction(borrowed) = TotalBorrowed(c, n) /\ SumFunction(owes) = TotalOwes(c)
  BY DEF TotalBorrowed, TotalOwes
<1>3. DebtOut(c, n) \in Nat /\ TotalBorrowed(c, n) \in Nat /\ TotalOwes(c) \in Nat
  BY AmountTypes
<1>4. CASE \A m \in Leverage : Owes(c, m) = 0
  <2>1. \A m \in Leverage : 1 * owes[m] <= owes[m] * 0
    BY <1>4
  <2> HIDE DEF owes, borrowed
  <2>2. 1 * SumFunction(owes) <= SumFunction(owes) * 0
    BY <1>1, <2>1, SumsCompare, DebtAssumption
  <2>3. TotalOwes(c) = 0
    BY <1>2, <1>3, <2>2
  <2>4. DebtOut(c, n) = 0
    BY <2>3, PreciseMulZero DEF DebtOut
  <2> QED BY <1>3, <2>4
<1>5. ASSUME NEW y \in Leverage, \A m \in Leverage : m # y => Owes(c, m) = 0
      PROVE  DebtOut(c, n) <= TotalBorrowed(c, n)
  <2>1. TotalOwes(c) = Owes(c, y)
    <3>1. \A m \in Leverage : m # y => owes[m] = 0
      BY <1>5
    <3>2. owes[y] = Owes(c, y)
      OBVIOUS
    <3> HIDE DEF owes
    <3> QED BY <1>1, <1>2, <3>1, <3>2, SumOfOne, DebtAssumption
  <2> DEFINE d == DebtOut(c, n)
             calls == IssueHookCalls(c, y, n)
  <2>2. BorrowedFor(c, y, n) = calls * d
    BY <2>1 DEF BorrowedFor, DebtOut
  <2>3. calls \in Nat /\ (d > 0 => calls >= 1)
    BY HooksAct DEF IssueHookCalls
  <2>4. BorrowedFor(c, y, n) <= TotalBorrowed(c, n) /\ BorrowedFor(c, y, n) \in Nat
    <3>1. borrowed[y] = BorrowedFor(c, y, n)
      OBVIOUS
    <3> HIDE DEF borrowed
    <3> QED BY <1>1, <1>2, <3>1, SumOfNaturals, DebtAssumption
  <2>5. d \in Nat
    BY <1>3
  <2> HIDE DEF d, calls
  <2>6. d <= calls * d
    <3>1. CASE d = 0
      BY <2>3, <3>1
    <3>2. CASE d > 0
      BY <2>3, <2>5, <3>2
    <3> QED BY <2>5, <3>1, <3>2
  <2>7. d <= TotalBorrowed(c, n)
    BY <1>3, <2>2, <2>4, <2>5, <2>6
  <2> QED BY <2>7 DEF d
<1> QED BY <1>4, <1>5, OneDebtor

\* A redeemer pays in no less than is repaid.
LEMMA RepaidIsPaidIn ==
  ASSUME CoverInv, Aave = Leverage, NEW c \in Component, NEW n \in Nat, OwedToOne(c)
  PROVE  TotalRepaid(c, n) <= DebtIn(c, n)
<1> DEFINE owes == [m \in Leverage |-> Owes(c, m)]
           repaid == [m \in Leverage |-> RepaidFor(c, m, n)]
<1>1. owes \in [Leverage -> Nat] /\ repaid \in [Leverage -> Nat]
  BY AmountTypes
<1>2. SumFunction(repaid) = TotalRepaid(c, n) /\ SumFunction(owes) = TotalOwes(c)
  BY DEF TotalRepaid, TotalOwes
<1>3. DebtIn(c, n) \in Nat /\ TotalRepaid(c, n) \in Nat
  BY AmountTypes
<1>4. ASSUME NEW m \in Leverage
      PROVE  RepaidFor(c, m, n) <= PreciseMulCeil(Owes(c, m), n)
  <2> DEFINE r == PreciseMulCeil(Owes(c, m), n)
             calls == RedeemHookCalls(c, m, n)
  <2>1. r \in Nat /\ debt[c][m] \in Nat
    BY AmountTypes, PreciseMulCeilBounds DEF CoverInv, TypeOK
  <2>2. calls \in {0, 1}
    BY CallsOnce DEF RedeemHookCalls
  <2>3. RepaidFor(c, m, n) = Repaid(calls * r, debt[c][m])
    BY DEF RepaidFor, RepayFor
  <2> HIDE DEF r, calls
  <2>4. Repaid(calls * r, debt[c][m]) <= r
    <3>1. calls * r \in {0, r}
      BY <2>1, <2>2
    <3> QED BY <2>1, <3>1 DEF Repaid
  <2> QED BY <2>3, <2>4 DEF r
<1>5. ASSUME NEW m \in Leverage, Owes(c, m) = 0 PROVE RepaidFor(c, m, n) = 0
  <2>1. RepaidFor(c, m, n) <= 0
    BY <1>4, <1>5, PreciseMulZero
  <2>2. repaid[m] \in Nat /\ repaid[m] = RepaidFor(c, m, n)
    BY <1>1
  <2> QED BY <2>1, <2>2
<1>6. CASE \A m \in Leverage : Owes(c, m) = 0
  <2>1. \A m \in Leverage : 1 * repaid[m] <= repaid[m] * 0
    BY <1>5, <1>6
  <2> HIDE DEF repaid
  <2>2. 1 * SumFunction(repaid) <= SumFunction(repaid) * 0
    BY <1>1, <2>1, SumsCompare, DebtAssumption
  <2> QED BY <1>2, <1>3, <2>2
<1>7. ASSUME NEW y \in Leverage, \A m \in Leverage : m # y => Owes(c, m) = 0
      PROVE  TotalRepaid(c, n) <= DebtIn(c, n)
  <2>1. /\ \A m \in Leverage : m # y => owes[m] = 0 /\ repaid[m] = 0
        /\ owes[y] = Owes(c, y) /\ repaid[y] = RepaidFor(c, y, n)
    BY <1>5, <1>7
  <2> HIDE DEF owes, repaid
  <2>2. TotalOwes(c) = Owes(c, y)
    BY <1>1, <1>2, <2>1, SumOfOne, DebtAssumption
  <2>3. TotalRepaid(c, n) = RepaidFor(c, y, n)
    BY <1>1, <1>2, <2>1, SumOfOne, DebtAssumption
  <2> QED BY <1>4, <2>2, <2>3 DEF DebtIn
<1> QED BY <1>6, <1>7, OneDebtor

\* Units rounded against balances: new Sets that bring in their rounded-up
\* share stay covered, and so does what a rounded-down share leaves.
LEMMA CoverGrows ==
  ASSUME NEW u \in Nat, NEW old \in Nat, NEW n \in Nat, NEW new \in Nat,
         NEW held \in Int, NEW e \in Nat, NEW left \in Int,
         new <= old + n, u * old <= PreciseUnit * held, u * n <= PreciseUnit * e,
         held + e <= left
  PROVE  u * new <= left * PreciseUnit
<1>1. PreciseUnit \in Nat \ {0}
  BY PreciseUnitAssumption
<1>2. u * new <= u * (old + n)
  OBVIOUS
<1>3. u * (old + n) <= PreciseUnit * held + PreciseUnit * e
  BY <1>1
<1>4. PreciseUnit * (held + e) <= PreciseUnit * left
  BY <1>1
<1> QED BY <1>1, <1>2, <1>3, <1>4

LEMMA CoverShrinks ==
  ASSUME NEW u \in Nat, NEW old \in Nat, NEW n \in Nat, NEW new \in Nat,
         NEW held \in Int, NEW e \in Nat, NEW left \in Int,
         new + n <= old, u * old <= PreciseUnit * held, PreciseUnit * e <= u * n,
         held - e <= left
  PROVE  u * new <= left * PreciseUnit
<1>1. PreciseUnit \in Nat \ {0}
  BY PreciseUnitAssumption
<1>2. u * (new + n) <= u * old
  OBVIOUS
<1>3. u * new + u * n <= PreciseUnit * held
  BY <1>1, <1>2
<1>4. PreciseUnit * (held - e) <= PreciseUnit * left
  BY <1>1
<1>5. PreciseUnit * held - PreciseUnit * e <= PreciseUnit * left
  BY <1>1, <1>4
<1> QED BY <1>1, <1>3, <1>5

\* The rounded-up share of a supply covers it, and every smaller supply.
LEMMA CoverOfSupply ==
  ASSUME NEW u \in Nat, NEW supply \in Nat, NEW left \in Int,
         left >= PreciseMulCeil(supply, u)
  PROVE  /\ u * supply <= PreciseUnit * left
         /\ \A new \in Nat : new <= supply => u * new <= left * PreciseUnit
<1> DEFINE e == PreciseMulCeil(supply, u)
<1>1. e \in Nat /\ supply * u <= PreciseUnit * e
  BY PreciseMulCeilBounds
<1>2. e <= left
  OBVIOUS
<1> HIDE DEF e
<1>3. u * supply <= PreciseUnit * e
  BY <1>1
<1>4. PreciseUnit * e <= PreciseUnit * left
  BY <1>1, <1>2, PreciseUnitAssumption
<1>5. u * supply <= PreciseUnit * left
  BY <1>1, <1>3, <1>4, PreciseUnitAssumption
<1>6. ASSUME NEW new \in Nat, new <= supply PROVE u * new <= left * PreciseUnit
  <2>1. u * new <= u * supply
    BY <1>6
  <2> QED BY <1>5, <2>1, PreciseUnitAssumption
<1> QED BY <1>5, <1>6

\* A synced unit is covered where the unit before was.
LEMMA SyncCovers ==
  ASSUME CoverInv, NEW c \in Component, Covered(c)
  PROVE  Unit(c) * totalSupply <= PreciseUnit * balance[c]
<1>1. /\ totalSupply \in Nat /\ balance[c] \in Nat /\ defaultUnit[c] \in Nat
      /\ PreciseUnit \in Nat \ {0}
  BY PreciseUnitAssumption DEF CoverInv, TypeOK
<1>2. CASE Unit(c) = defaultUnit[c]
  BY <1>1, <1>2 DEF Covered
<1>3. CASE totalSupply > 0 /\ Unit(c) = PreciseDiv(balance[c], totalSupply)
  <2> DEFINE u == PreciseDiv(balance[c], totalSupply)
  <2>1. u \in Nat /\ totalSupply * u <= balance[c] * PreciseUnit
    <3>1. totalSupply \in Nat \ {0}
      BY <1>1, <1>3
    <3> QED BY <1>1, <3>1, PreciseDivBounds
  <2> HIDE DEF u
  <2>2. u * totalSupply <= PreciseUnit * balance[c]
    BY <1>1, <2>1
  <2> QED BY <1>3, <2>2 DEF u
<1> QED BY <1>2, <1>3 DEF Unit, SyncedUnit, GetCollateralPosition

LEMMA IssueCovers ==
  ASSUME CoverInv, NEW q \in Quantities, NEW s \in FeeSplits,
         NEW in \in Losses, NEW out \in Losses, Issue(q, s, in, out),
         NEW c \in Component, Covered(c), OwedToOne(c)
  PROVE  Covered(c)'
<1> DEFINE n == q + TotalFee(issueFee, q)
           u == Unit(c)
           equity == EquityIn(c, n)
           owed == DebtOut(c, n)
           borrowed == TotalBorrowed(c, n)
           left == IssuedBalance(c, n, in[c] + out[c])
           held == balance[c] - in[c]
<1>1. n \in Nat /\ totalSupply \in Nat /\ totalSupply' \in Nat
      /\ totalSupply' <= totalSupply + n
  BY IssueQuantities DEF Issue, CoverInv, TypeOK
<1>2. IssueTransfersAccepted(c, n, in[c], out[c])
  BY DEF Issue
<1>3. defaultUnit'[c] = u /\ balance'[c] = left
  BY DEF Issue, WriteSynced, Unit
<1> HIDE DEF n
<1>4. u \in Nat /\ equity \in Nat /\ owed \in Nat /\ borrowed \in Nat
  BY <1>1, AmountTypes
<1>5. /\ in[c] \in Nat /\ out[c] \in Nat /\ balance[c] \in Nat
      /\ ~validated => in[c] = 0 /\ out[c] = 0
  BY LossTypes DEF CoverInv, TypeOK
<1>6. left = balance[c] + equity - (in[c] + out[c]) + borrowed - owed
  BY DEF IssuedBalance
<1>7. /\ in[c] <= equity /\ out[c] <= owed
      /\ validated /\ equity > 0 =>
           balance[c] + equity - in[c] >= PreciseMulCeil(totalSupply, u) + equity
      /\ validated /\ owed > 0 => left >= PreciseMulCeil(totalSupply + n, u)
  BY <1>2 DEF IssueTransfersAccepted, CoveredAfterTransferIn, CoveredAfterTransferOut
<1>8. owed <= borrowed
  BY <1>1, HandedOverIsBorrowed
<1>9. u * totalSupply <= PreciseUnit * balance[c]
  BY SyncCovers
<1>10. u * n <= PreciseUnit * equity
  BY <1>1, <1>4, PreciseMulCeilBounds DEF EquityIn
<1>11. PreciseMulCeil(totalSupply, u) \in Nat
  BY <1>1, <1>4, PreciseMulCeilBounds
<1> HIDE DEF u, equity, owed, borrowed, left
<1>12. left \in Int /\ held \in Int
  BY <1>4, <1>5, <1>6
<1>13. CASE validated /\ owed > 0
  <2>1. u * totalSupply' <= left * PreciseUnit
    BY <1>1, <1>4, <1>7, <1>12, <1>13, CoverOfSupply
  <2> QED BY <1>3, <2>1 DEF Covered
<1>14. CASE ~(validated /\ owed > 0)
  <2>1. held + equity <= left
    BY <1>4, <1>5, <1>6, <1>7, <1>8, <1>14
  <2>2. u * totalSupply <= PreciseUnit * held
    <3>1. CASE in[c] = 0
      <4>1. held = balance[c]
        BY <1>5, <3>1
      <4> QED BY <1>9, <4>1
    <3>2. CASE in[c] > 0
      <4>1. held >= PreciseMulCeil(totalSupply, u)
        BY <1>4, <1>5, <1>7, <1>11, <3>2
      <4> HIDE DEF held
      <4> QED BY <1>1, <1>4, <1>12, <4>1, CoverOfSupply
    <3> QED BY <1>5, <3>1, <3>2
  <2> HIDE DEF held
  <2>3. u * totalSupply' <= left * PreciseUnit
    BY <1>1, <1>4, <1>10, <1>12, <2>1, <2>2, CoverGrows
  <2> QED BY <1>3, <2>3 DEF Covered
<1> QED BY <1>13, <1>14

LEMMA RedeemCovers ==
  ASSUME CoverInv, Aave = Leverage, NEW q \in Quantities, NEW s \in FeeSplits,
         NEW in \in Losses, NEW out \in Losses, Redeem(q, s, in, out),
         NEW c \in Component, Covered(c), OwedToOne(c)
  PROVE  Covered(c)'
<1> DEFINE n == q - TotalFee(redeemFee, q)
           u == Unit(c)
           equity == EquityOut(c, n)
           owed == DebtIn(c, n)
           repaid == TotalRepaid(c, n)
           left == RedeemedBalance(c, n, in[c] + out[c])
           held == balance[c] - in[c]
<1>1. n \in Nat /\ totalSupply \in Nat /\ totalSupply' \in Nat
      /\ totalSupply' + n <= totalSupply
  BY IssueQuantities DEF Redeem, CoverInv, TypeOK
<1>2. RedeemTransfersAccepted(c, n, in[c], out[c])
  BY DEF Redeem
<1>3. defaultUnit'[c] = u /\ balance'[c] = left
  BY DEF Redeem, WriteSynced, Unit
<1> HIDE DEF n
<1>4. u \in Nat /\ equity \in Nat /\ owed \in Nat /\ repaid \in Nat
  BY <1>1, AmountTypes
<1>5. /\ in[c] \in Nat /\ out[c] \in Nat /\ balance[c] \in Nat
      /\ ~validated => in[c] = 0 /\ out[c] = 0
  BY LossTypes DEF CoverInv, TypeOK
<1>6. left = balance[c] + owed - (in[c] + out[c]) - repaid - equity
  BY DEF RedeemedBalance
<1>7. /\ in[c] <= owed /\ out[c] <= equity
      /\ validated /\ owed > 0 =>
           balance[c] + owed - in[c] >= PreciseMulCeil(totalSupply, u) + owed
      /\ validated /\ equity > 0 => left >= PreciseMulCeil(totalSupply - n, u)
  BY <1>2 DEF RedeemTransfersAccepted, CoveredAfterTransferIn, CoveredAfterTransferOut
<1>8. repaid <= owed
  BY <1>1, RepaidIsPaidIn
<1>9. u * totalSupply <= PreciseUnit * balance[c]
  BY SyncCovers
<1>10. PreciseUnit * equity <= u * n
  BY <1>1, <1>4, PreciseMulBounds DEF EquityOut
<1>11. PreciseMulCeil(totalSupply, u) \in Nat
  BY <1>1, <1>4, PreciseMulCeilBounds
<1> HIDE DEF u, equity, owed, repaid, left
<1>12. left \in Int /\ held \in Int
  BY <1>4, <1>5, <1>6
<1>13. CASE validated /\ equity > 0
  <2>1. totalSupply - n \in Nat /\ totalSupply' <= totalSupply - n
    <3>1. \A x, y, z \in Nat : x + y <= z => z - y \in Nat /\ x <= z - y
      OBVIOUS
    <3> QED BY <1>1, <3>1
  <2>2. u * totalSupply' <= left * PreciseUnit
    BY <1>1, <1>4, <1>7, <1>12, <1>13, <2>1, CoverOfSupply
  <2> QED BY <1>3, <2>2 DEF Covered
<1>14. CASE ~(validated /\ equity > 0)
  <2>1. held - equity <= left
    BY <1>4, <1>5, <1>6, <1>7, <1>8, <1>14
  <2>2. u * totalSupply <= PreciseUnit * held
    <3>1. CASE in[c] = 0
      <4>1. held = balance[c]
        BY <1>5, <3>1
      <4> QED BY <1>9, <4>1
    <3>2. CASE in[c] > 0
      <4>1. held >= PreciseMulCeil(totalSupply, u)
        BY <1>4, <1>5, <1>7, <1>11, <3>2
      <4> HIDE DEF held
      <4> QED BY <1>1, <1>4, <1>12, <4>1, CoverOfSupply
    <3> QED BY <1>5, <3>1, <3>2
  <2> HIDE DEF held
  <2>3. u * totalSupply' <= left * PreciseUnit
    BY <1>1, <1>4, <1>10, <1>12, <2>1, <2>2, CoverShrinks
  <2> QED BY <1>3, <2>3 DEF Covered
<1> QED BY <1>13, <1>14

\* Issuance and redemption keep every default position covered that was
\* covered before, with either issuance module, whatever V2's tolerated
\* transfers cost and whatever the fees, if every leverage module looks at
\* _isEquity (issue, redeem, IssuanceValidationUtils).
THEOREM IssuanceKeepsCover ==
  ASSUME Aave = Leverage
  PROVE  Spec => IssuancePreservesCover
<1>1. Init => CoverInv
  BY InitCoverInv
<1>2. CoverInv /\ [Next]_vars => CoverInv'
  BY StepTypes
<1>3. CoverInv /\ [Next]_vars =>
        [totalSupply' # totalSupply =>
           \A c \in Component : Covered(c) /\ OwedToOne(c) => Covered(c)']_vars
  <2> SUFFICES ASSUME CoverInv, Next, totalSupply' # totalSupply,
                      NEW c \in Component, Covered(c), OwedToOne(c)
               PROVE  Covered(c)'
    OBVIOUS
  <2>1. \/ \E q \in Quantities, s \in FeeSplits, in, out \in Losses : Issue(q, s, in, out)
        \/ \E q \in Quantities, s \in FeeSplits, in, out \in Losses : Redeem(q, s, in, out)
    <3>1. ASSUME NEW m \in Leverage PROVE ~Sync(m)
      BY DEF Sync
    <3>2. ASSUME NEW m \in Leverage, NEW b \in Component, NEW d \in Component,
                 NEW u \in LeverUnits, NEW min \in LeverUnits, NEW left \in Receivable,
                 NEW r \in Receivable, NEW f \in TradeFees
          PROVE  /\ ~Lever(m, b, d, u, min, left, r, f)
                 /\ ~Delever(m, d, b, u, min, r, f)
      BY DEF Lever, Delever
    <3>3. ASSUME NEW f \in ManagerFees PROVE ~UpdateIssueFee(f) /\ ~UpdateRedeemFee(f)
      BY DEF UpdateIssueFee, UpdateRedeemFee
    <3>4. ASSUME NEW m \in Leverage, NEW b \in Component, NEW d \in Component
          PROVE  ~InterestOnDebt(b, m) /\ ~Liquidation(m, b, d)
      BY DEF InterestOnDebt, Liquidation
    <3>5. ASSUME NEW b \in Component PROVE ~BalanceGrows(b)
      BY DEF BalanceGrows
    <3>6. ASSUME NEW m \in Leverage, NEW b \in Component, NEW d \in Component,
                 NEW u \in LeverUnits, NEW r \in Receivable
          PROVE  ~DeleverToZeroBorrowBalance(m, d, b, u, r)
      BY DEF DeleverToZeroBorrowBalance
    <3> QED BY <3>1, <3>2, <3>3, <3>4, <3>5, <3>6 DEF Next
  <2> QED BY <2>1, IssueCovers, RedeemCovers
<1> QED BY <1>1, <1>2, <1>3, PTL DEF Spec, IssuancePreservesCover
==============================================================================
