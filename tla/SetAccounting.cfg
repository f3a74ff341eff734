SPECIFICATION Spec
CONSTANTS
  C1 = C1
  C2 = C2
  Component <- MCComponent
  PreciseUnit = 4
  OneYear = 1
  InitialUnits = {2, 3}
  Quantities = {1, 4}
  TradeUnits = {0, 1}
  Receivable = {0, 1, 2}
  Donations = {1}
  RequestedUnits = {0, 2}
  FeeRates = {0, 2, 5}
  StreamingRates = {0, 1}
  MaxSupply = 5
  MaxBalance = 2
  MaxElapsed = 2
  MaxIssued = 5
SYMMETRY ComponentSymmetry
INVARIANTS
  TypeOK
  ComponentsTracked
  LossBounded
  FeeMatchesHistory
PROPERTY
  CollateralPreserved
