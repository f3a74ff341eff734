--------------------------- MODULE MCSetAccounting ---------------------------
(***************************************************************************)
(* SetAccounting on a small instance: a scale of four, so that quarters of *)
(* a unit are lost by rounding all the time, and a year of one tick, so    *)
(* that one accrual inflates by a quarter or by a half.                    *)
(***************************************************************************)
EXTENDS SetAccounting, TLC

CONSTANTS C1, C2

MCComponent == {C1, C2}
ComponentSymmetry == Permutations(MCComponent)
==============================================================================
