SPECIFICATION Spec
CONSTANTS
  PreciseUnit = 6
  OneYear = 8
  Bound = 15
  Quoters <- MCQuoters
  Weth = "weth"
  Usdc = "usdc"
  MaxUint256 = 1000000
  UsdcScale = 2
  LeverSlippage = 1
  RatioScale = 10
  OneDay = 4
INVARIANTS
  RoundingsMatchReference
  RoundTripTight
  DilutionQuotesAgree
  PricedQuotesSound
  StringsStandForNumbers
