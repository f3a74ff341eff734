SPECIFICATION Spec
CONSTANTS
  AToken = AToken
  Usd = Usd
  M1 = M1
  Component <- MCComponent
  Leverage <- OneModule
  Aave <- OneModule
  Collateral <- MCCollateral
  BorrowAsset <- MCBorrowAsset
  InitialUnit <- CollateralUnits
  Versions = {FALSE, TRUE}
  PreciseUnit = 2
  Quantities = {1, 2}
  ManagerFees = {0, 1}
  FeeSplits = {1}
  TradeFees = {0, 1}
  LeverUnits = {0, 1}
  Receivable = {0, 1, 2}
  Shortfall = {0, 1}
  MaxSupply = 3
  MaxAmount = 3
INVARIANTS
  DebtRecorded
  BorrowingGoesToIssuer
PROPERTIES
  IssuancePreservesCover
