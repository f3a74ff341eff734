--------------------------- MODULE MCIssuanceHooks ---------------------------
(* IssuanceHooks with two issuers and two leverage modules under one manager. *)
EXTENDS IssuanceHooks

CONSTANTS DebtIssuance, Slippage, Aave, Compound, Alice

MCIssuer == {DebtIssuance, Slippage}
MCHook == {Aave, Compound}
MCLazy == {Compound}
MCModule == MCIssuer \cup MCHook
==============================================================================
