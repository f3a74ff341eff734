SPECIFICATION HooksSpec
CONSTANTS
  DebtIssuance = DebtIssuance
  Slippage = Slippage
  Aave = Aave
  Compound = Compound
  Alice = Alice
  NoModule = NoModule
  Issuer <- MCIssuer
  Hook <- MCHook
  Lazy <- MCLazy
  Module <- MCModule
  DefaultIssuer = DebtIssuance
  Account = {Alice}
  Permanent = {}
INVARIANTS
  HookListsExact
  HooksComplete
  IssuanceAvailable
  IssuedOnFreshDebt
