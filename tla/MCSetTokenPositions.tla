------------------------- MODULE MCSetTokenPositions -------------------------
(* SetTokenPositions with two components and two modules that keep external *)
(* positions; a scale of 3 and multipliers on both sides of it make both    *)
(* conversions round.                                                       *)
EXTENDS SetTokenPositions, TLC

CONSTANTS C1, C2, Leverage, Staking, Info

MCComponent == {C1, C2}
MCPositionModule == {Leverage, Staking}
MCData == {NoData, Info}

\* A debt without data, a holding with data, a close, and a close with data,
\* which editExternalPosition refuses.
MCExternalWrite == {<<-1, NoData>>, <<2, Info>>, <<0, NoData>>, <<0, Info>>}

\* Components and modules are interchangeable.
MCSymmetry == Permutations(MCComponent) \cup Permutations(MCPositionModule)
==============================================================================
