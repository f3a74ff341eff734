SPECIFICATION IndexSpec
CONSTANTS
  Weth = Weth
  C1 = C1
  T1 = T1
  Component <- MCComponent
  Trader <- MCTrader
  EOA = {}
  PreciseUnit = 2
  OneYear = 1
  InitialUnits = {3}
  Quantities = {3}
  TradeUnits = {}
  Receivable = {}
  Donations = {}
  RequestedUnits = {}
  FeeRates = {0}
  StreamingRates = {1}
  MaxSupply = 6
  MaxBalance = 6
  MaxElapsed = 1
  MaxIssued = 3
  Targets = {0, 2}
  Multipliers = {2}
  TradeMaximums = {3, 13}
  CoolOffPeriods = {0, 1}
  RaisePercentages = {1}
  TradeFees = {1}
  Floating = {2}
INVARIANT
  PermissionsTracked
PROPERTIES
  CollateralPreserved
  TargetNotCrossed
  WethTargetKept
  UncappedTradeMeetsTarget
