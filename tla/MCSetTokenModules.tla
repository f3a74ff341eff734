-------------------------- MODULE MCSetTokenModules --------------------------
(* SetTokenModules with three modules, one of them permanent, and two       *)
(* accounts that hand the manager role to each other.                       *)
EXTENDS SetTokenModules

CONSTANTS M1, M2, Basic, Alice, Bob

MCModule == {M1, M2, Basic}
MCAccount == {Alice, Bob}
MCPermanent == {Basic}
==============================================================================
