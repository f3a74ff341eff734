--------------------------- MODULE MCGeneralIndex ---------------------------
(***************************************************************************)
(* GeneralIndex with WETH, one other token and one trader, a contract: it  *)
(* may trade while it is on the allow list, but not while anyone may.  A   *)
(* scale of two, one and a half Sets and a fee that halves the multiplier  *)
(* make every conversion inexact.                                          *)
(***************************************************************************)
EXTENDS GeneralIndex

CONSTANTS C1, T1

MCComponent == {Weth, C1}
MCTrader == {T1}
==============================================================================
