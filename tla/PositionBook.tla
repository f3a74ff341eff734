---------------------------- MODULE PositionBook ----------------------------
(***************************************************************************)
(* What the positions of a SetToken promise to its modules: a book with    *)
(* one signed entry per component and holder (the SetToken itself, or a    *)
(* module that holds the component elsewhere on its behalf), in real units *)
(* per Set.  Writing an entry touches that entry alone, never overstates   *)
(* it and never turns a position into none; a rescaling moves all entries  *)
(* in one direction and makes none appear, vanish or change sign.  The     *)
(* listed components are the ones with an entry.                           *)
(***************************************************************************)
EXTENDS Integers

CONSTANTS Component, Holder, Unit   \* Unit: the units that may be written

VARIABLES
  book,     \* component -> holder -> real unit; 0 where there is no position
  listed    \* the components a reader of the SetToken is told of

bookVars == <<book, listed>>

SameSign(a, b) == (a > 0 <=> b > 0) /\ (a < 0 <=> b < 0)

ListedIn(b) == {c \in Component : \E h \in Holder : b[c][h] # 0}

Init ==
  /\ book \in [Component -> [Holder -> Int]]
  /\ listed = ListedIn(book)

\* A unit is stored rounded down, so an entry never exceeds what was asked.
Write(c, h, unit) ==
  /\ \A d \in Component, k \in Holder :
       <<d, k>> # <<c, h>> => book'[d][k] = book[d][k]
  /\ book'[c][h] <= unit
  /\ SameSign(book'[c][h], unit)
  /\ listed' = ListedIn(book')

Rescale ==
  /\ \A c \in Component, h \in Holder : SameSign(book'[c][h], book[c][h])
  /\ LET grows == \A c \in Component, h \in Holder :
                    IF book[c][h] >= 0 THEN book'[c][h] >= book[c][h]
                                       ELSE book'[c][h] <= book[c][h]
         falls == \A c \in Component, h \in Holder :
                    IF book[c][h] >= 0 THEN book'[c][h] <= book[c][h]
                                       ELSE book'[c][h] >= book[c][h]
     IN  grows \/ falls
  /\ listed' = ListedIn(book')

Next ==
  \/ \E c \in Component, h \in Holder, u \in Unit : Write(c, h, u)
  \/ Rescale

Spec == Init /\ [][Next]_bookVars
==============================================================================
