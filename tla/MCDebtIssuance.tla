--------------------------- MODULE MCDebtIssuance ---------------------------
(* DebtIssuance with one leverage module, its collateral token and the token *)
(* owed to it.  A scale of two rounds half of all products.                  *)
EXTENDS DebtIssuance

CONSTANTS AToken, Usd, M1

MCComponent == {AToken, Usd}
OneModule == {M1}
NoModules == {}
MCCollateral == [m \in Leverage |-> {AToken}]
MCBorrowAsset == [m \in Leverage |-> {Usd}]
CollateralUnits == [c \in Component |-> IF c = AToken THEN 2 ELSE 0]
==============================================================================
