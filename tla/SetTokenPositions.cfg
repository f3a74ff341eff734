SPECIFICATION Spec
SYMMETRY MCSymmetry
CONSTANTS
  C1 = C1
  C2 = C2
  Leverage = Leverage
  Staking = Staking
  Info = Info
  NoData = NoData
  Default = Default
  Component <- MCComponent
  PositionModule <- MCPositionModule
  Data <- MCData
  DefaultUnit = {0, 2}
  ExternalWrite <- MCExternalWrite
  Multiplier = {0, 2, 4}
  PreciseUnit = 3
INVARIANTS
  PositionsListed
  PositionsVisible
PROPERTY
  ImplementsBook
