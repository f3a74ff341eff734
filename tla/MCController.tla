---------------------------- MODULE MCController ----------------------------
(* Controller with three modules, so that a removal can hit the middle of   *)
(* the list, and address(0) among the addresses of every kind.              *)
EXTENDS Controller

CONSTANTS M1, M2, F1, S1, R1, R2, Fund

MCModuleAddr == {M1, M2, Zero}
MCFactoryAddr == {F1, Zero}
MCSetAddr == {S1, Zero}
MCResourceAddr == {R1, R2, Zero}
MCRecipient == {Fund}

Lists(f, m, r, ids) ==
  [factories |-> f, modules |-> m, resources |-> r, ids |-> ids]

\* Some name a module or a resource twice, which initialize accepts; some have
\* address(0) or mismatched lengths, which it refuses.
MCInitialLists ==
  { Lists(<<>>, <<>>, <<>>, <<>>),
    Lists(<<F1>>, <<M1, M2>>, <<R1>>, <<1>>),
    Lists(<<F1>>, <<M2, M1>>, <<R1, R2>>, <<1, 2>>),
    Lists(<<F1>>, <<M1, M2, M1>>, <<R1, R1>>, <<2, 1>>),
    Lists(<<F1>>, <<M1>>, <<R1, R2>>, <<1>>),
    Lists(<<F1>>, <<M1>>, <<R1, R2>>, <<1, 1>>),
    Lists(<<F1>>, <<M1, Zero>>, <<>>, <<>>) }
==============================================================================
