----------------------- MODULE SetTokenPositionsProofs -----------------------
(***************************************************************************)
(* The positions of a SetToken for any components, modules, units, scale   *)
(* and multipliers: the lists name the open positions, no position rounds  *)
(* to nothing, and the libraries implement PositionBook.  The two          *)
(* invariants need each other: the libraries read real units to decide     *)
(* what is listed, and the check of a new multiplier runs over the lists.  *)
(***************************************************************************)
EXTENDS SetTokenPositions, LibraryProofs

\* PositionsListed, with the lists as sets and an external position as a
\* unit that is not zero.
OpenListed ==
  /\ ~HasDuplicate(components)
  /\ \A c \in Component :
       /\ c \in Elements(components)
            <=> virtualUnit[c] # 0 \/ \E m \in PositionModule : externalUnit[c][m] # 0
       /\ ~HasDuplicate(externalPositionModules[c])
       /\ \A m \in PositionModule :
            /\ m \in Elements(externalPositionModules[c]) <=> externalUnit[c][m] # 0
            /\ externalUnit[c][m] = 0 => externalData[c][m] = NoData

\* The inductive invariant.
PositionsInv == TypeOK /\ OpenListed /\ PositionsVisible

-----------------------------------------------------------------------------
(* The conversions for units of either sign.                               *)

\* Real units of closed and open positions: nothing is worth nothing, and a
\* debt is worth at least one base unit, whatever the multiplier.
LEMMA RealUnitSign ==
  ASSUME NEW v \in Int, NEW m \in Nat \ {0}
  PROVE  /\ ConvertVirtualToRealUnit(v, m) \in Int
         /\ v = 0 => ConvertVirtualToRealUnit(v, m) = 0
         /\ v >= 0 => ConvertVirtualToRealUnit(v, m) >= 0
         /\ v < 0 => ConvertVirtualToRealUnit(v, m) < 0
<1>1. /\ v * m \in Int
      /\ v = 0 => v * m = 0
      /\ v >= 0 => v * m >= 0
      /\ v < 0 => v * m < 0
  BY ProductSign
<1>2. PreciseUnit \in Nat \ {0}
  BY PreciseUnitAssumption
<1> DEFINE r == ConvertVirtualToRealUnit(v, m)
<1>3. /\ r \in Int
      /\ PreciseUnit * r <= v * m
      /\ v * m < PreciseUnit * r + PreciseUnit
  BY RealUnitIsFloor
<1> DEFINE p == v * m
<1>4. p \in Int
  BY <1>1
<1> HIDE DEF r, p
<1>5. (p = 0 => r = 0) /\ (p >= 0 => r >= 0) /\ (p < 0 => r < 0)
  BY <1>2, <1>3, <1>4, FloorSign DEF p
<1> QED BY <1>1, <1>3, <1>5 DEF r, p

\* A unit that _convertRealToVirtualUnit accepts is stored and reported with
\* its own sign, and never overstated.
LEMMA StoredUnit ==
  ASSUME NEW u \in Int, NEW m \in Nat \ {0}, ConvertibleUnit(u, m)
  PROVE  LET v == ConvertRealToVirtualUnit(u, m)
             r == ConvertVirtualToRealUnit(v, m)
         IN  /\ v \in Int /\ r \in Int
             /\ r <= u
             /\ u > 0 => v > 0 /\ r > 0
             /\ u = 0 => v = 0 /\ r = 0
             /\ u < 0 => v < 0 /\ r < 0
<1> DEFINE v == ConvertRealToVirtualUnit(u, m)
           r == ConvertVirtualToRealUnit(v, m)
<1>0. PreciseUnit \in Nat \ {0}
  BY PreciseUnitAssumption
<1>1. v \in Int /\ m * v <= u * PreciseUnit /\ u * PreciseUnit < m * v + m
  BY VirtualUnitIsFloor
<1>2. /\ u * PreciseUnit \in Int
      /\ u = 0 => u * PreciseUnit = 0
      /\ u >= 0 => u * PreciseUnit >= 0
      /\ u < 0 => u * PreciseUnit < 0
  BY <1>0, ProductSign
<1>3. u > 0 => v # 0 /\ r # 0
  BY DEF ConvertibleUnit
<1>4. /\ r \in Int
      /\ v = 0 => r = 0
      /\ v >= 0 => r >= 0
      /\ v < 0 => r < 0
  BY <1>1, RealUnitSign
<1>5. PreciseUnit * r <= v * m
  BY <1>1, RealUnitIsFloor
<1> HIDE DEF v, r
<1>6. (u = 0 => v = 0) /\ (u >= 0 => v >= 0) /\ (u < 0 => v < 0)
  <2> DEFINE a == u * PreciseUnit
  <2>1. a \in Int /\ m * v <= a /\ a < m * v + m
    BY <1>1, <1>2
  <2> HIDE DEF a
  <2>2. (a = 0 => v = 0) /\ (a >= 0 => v >= 0) /\ (a < 0 => v < 0)
    BY <1>1, <2>1, FloorSign
  <2> QED BY <1>2, <2>2 DEF a
<1>7. r <= u
  <2>1. PreciseUnit * r <= PreciseUnit * u
    BY <1>0, <1>1, <1>4, <1>5
  <2> QED BY <1>0, <1>4, <2>1
<1> QED BY <1>1, <1>3, <1>4, <1>6, <1>7 DEF v, r

\* A larger multiplier moves every real unit away from zero.
LEMMA RealUnitGrows ==
  ASSUME NEW v \in Int, NEW m \in Nat, NEW n \in Nat, m <= n
  PROVE  /\ v >= 0 => ConvertVirtualToRealUnit(v, m) <= ConvertVirtualToRealUnit(v, n)
         /\ v < 0 => ConvertVirtualToRealUnit(v, n) <= ConvertVirtualToRealUnit(v, m)
<1> DEFINE r == ConvertVirtualToRealUnit(v, m)
           s == ConvertVirtualToRealUnit(v, n)
<1>0. PreciseUnit \in Nat \ {0}
  BY PreciseUnitAssumption
<1>1. /\ r \in Int /\ s \in Int
      /\ PreciseUnit * r <= v * m /\ v * m < PreciseUnit * r + PreciseUnit
      /\ PreciseUnit * s <= v * n /\ v * n < PreciseUnit * s + PreciseUnit
  BY RealUnitIsFloor
<1> HIDE DEF r, s
<1>2. v * m \in Int /\ v * n \in Int
  OBVIOUS
<1>3. ASSUME v >= 0 PROVE r <= s
  <2>1. v * m <= v * n
    BY <1>3
  <2>2. PreciseUnit * r < PreciseUnit * (s + 1)
    BY <1>0, <1>1, <1>2, <2>1
  <2> QED BY <1>0, <1>1, <2>2
<1>4. ASSUME v < 0 PROVE s <= r
  <2>1. v * n <= v * m
    BY <1>4
  <2>2. PreciseUnit * s < PreciseUnit * (r + 1)
    BY <1>0, <1>1, <1>2, <2>1
  <2> QED BY <1>0, <1>1, <2>2
<1> QED BY <1>3, <1>4 DEF r, s

-----------------------------------------------------------------------------
(* The lists as sets.                                                      *)

\* contains searches the array for an element.
LEMMA ContainsIsElement ==
  ASSUME NEW A, NEW a
  PROVE  Contains(A, a) <=> a \in Elements(A)
  BY DEF Contains, Elements

\* A list has entries exactly when its length is positive, and the single
\* entry of a list of length one is its first.
LEMMA ListLength ==
  ASSUME NEW S, NEW A \in Seq(S)
  PROVE  /\ Len(A) > 0 <=> \E a \in S : a \in Elements(A)
         /\ Len(A) = 1 => Elements(A) = {A[1]}
<1>1. DOMAIN A = 1 .. Len(A) /\ Len(A) \in Nat /\ \A i \in 1 .. Len(A) : A[i] \in S
  OBVIOUS
<1>2. ASSUME Len(A) > 0 PROVE \E a \in S : a \in Elements(A)
  BY <1>1, <1>2 DEF Elements
<1>3. ASSUME NEW a \in S, a \in Elements(A) PROVE Len(A) > 0
  BY <1>1, <1>3 DEF Elements
<1>4. ASSUME Len(A) = 1 PROVE Elements(A) = {A[1]}
  BY <1>1, <1>4 DEF Elements
<1> QED BY <1>2, <1>3, <1>4

\* hasExternalPosition reads the length of the list of external modules.
LEMMA HasExternal ==
  ASSUME TypeOK, NEW c \in Component,
         \A m \in PositionModule :
           m \in Elements(externalPositionModules[c]) <=> externalUnit[c][m] # 0
  PROVE  HasExternalPosition(c) <=> \E m \in PositionModule : externalUnit[c][m] # 0
<1>1. externalPositionModules[c] \in Seq(PositionModule)
  BY DEF TypeOK
<1> QED BY <1>1, ListLength DEF HasExternalPosition

\* The form with sets implies the one that speaks of the arrays.
LEMMA ListedAsSets == TypeOK /\ OpenListed => PositionsListed
<1> SUFFICES ASSUME TypeOK, OpenListed PROVE PositionsListed
  OBVIOUS
<1>1. ASSUME NEW c \in Component
      PROVE  HasExternalPosition(c) <=> \E m \in PositionModule : externalUnit[c][m] # 0
  BY HasExternal DEF OpenListed
<1> QED BY <1>1, ContainsIsElement
        DEF PositionsListed, OpenListed, IsExternalPositionModule, IsComponent

\* What the libraries see: a real unit is zero exactly where the virtual unit
\* is, and has its sign.
LEMMA OpenUnits ==
  ASSUME PositionsInv, NEW c \in Component
  PROVE  /\ GetDefaultPositionRealUnit(c) \in Nat
         /\ GetDefaultPositionRealUnit(c) = 0 <=> virtualUnit[c] = 0
         /\ HasDefaultPosition(c) <=> virtualUnit[c] # 0
         /\ \A m \in PositionModule :
              /\ GetExternalPositionRealUnit(c, m) \in Int
              /\ GetExternalPositionRealUnit(c, m) = 0 <=> externalUnit[c][m] = 0
              /\ GetExternalPositionRealUnit(c, m) > 0 <=> externalUnit[c][m] > 0
              /\ GetExternalPositionRealUnit(c, m) < 0 <=> externalUnit[c][m] < 0
<1>1. /\ positionMultiplier \in Nat \ {0}
      /\ virtualUnit[c] \in Nat
      /\ \A m \in PositionModule : externalUnit[c][m] \in Int
  BY DEF PositionsInv, TypeOK
<1>2. virtualUnit[c] > 0 => GetDefaultPositionRealUnit(c) > 0
  BY DEF PositionsInv, PositionsVisible
<1>3. /\ GetDefaultPositionRealUnit(c) \in Int
      /\ GetDefaultPositionRealUnit(c) >= 0
      /\ virtualUnit[c] = 0 => GetDefaultPositionRealUnit(c) = 0
  BY <1>1, RealUnitSign DEF GetDefaultPositionRealUnit
<1>4. ASSUME NEW m \in PositionModule
      PROVE  /\ GetExternalPositionRealUnit(c, m) \in Int
             /\ externalUnit[c][m] = 0 => GetExternalPositionRealUnit(c, m) = 0
             /\ externalUnit[c][m] > 0 => GetExternalPositionRealUnit(c, m) > 0
             /\ externalUnit[c][m] < 0 => GetExternalPositionRealUnit(c, m) < 0
  <2>1. externalUnit[c][m] > 0 => GetExternalPositionRealUnit(c, m) > 0
    BY DEF PositionsInv, PositionsVisible
  <2> QED BY <1>1, <2>1, RealUnitSign DEF GetExternalPositionRealUnit
<1>5. ASSUME NEW m \in PositionModule
      PROVE  /\ GetExternalPositionRealUnit(c, m) = 0 <=> externalUnit[c][m] = 0
             /\ GetExternalPositionRealUnit(c, m) > 0 <=> externalUnit[c][m] > 0
             /\ GetExternalPositionRealUnit(c, m) < 0 <=> externalUnit[c][m] < 0
  BY <1>1, <1>4
<1> QED BY <1>1, <1>2, <1>3, <1>4, <1>5 DEF HasDefaultPosition

-----------------------------------------------------------------------------
(* Every edit preserves the invariant.                                     *)

\* The constructor lists distinct components with positive units.
LEMMA PositionsInit == Init => PositionsInv
<1> SUFFICES ASSUME Init PROVE PositionsInv
  OBVIOUS
<1>1. PICK list \in UNION {[1 .. n -> Component] : n \in 1 .. Cardinality(Component)} :
        ~HasDuplicate(list) /\ components = list
  BY DEF Init
<1>2. PICK n \in 1 .. Cardinality(Component) : components \in [1 .. n -> Component]
  BY <1>1
<1>3. components \in Seq(Component)
  BY <1>2
<1>4. PICK unit \in [Component -> DefaultUnit \ {0}] :
        virtualUnit = [c \in Component |-> IF Contains(components, c) THEN unit[c] ELSE 0]
  BY DEF Init
<1>5. \A c \in Component : unit[c] \in Nat /\ unit[c] > 0
  <2>1. \A u \in DefaultUnit \ {0} : u \in Nat /\ u > 0
    BY PositionsAssumption
  <2>2. \A c \in Component : unit[c] \in DefaultUnit \ {0}
    OBVIOUS
  <2> QED BY <2>1, <2>2
<1>6. \A c \in Component : virtualUnit[c] \in Nat
                           /\ (virtualUnit[c] # 0 <=> c \in Elements(components))
  BY <1>4, <1>5, ContainsIsElement
<1>7. positionMultiplier = PreciseUnit /\ PreciseUnit \in Nat \ {0}
  BY PreciseUnitAssumption DEF Init
<1>8. /\ externalPositionModules = [c \in Component |-> <<>>]
      /\ externalUnit = [c \in Component |-> [m \in PositionModule |-> 0]]
      /\ externalData = [c \in Component |-> [m \in PositionModule |-> NoData]]
  BY DEF Init
<1>9. TypeOK
  <2>1. virtualUnit \in [Component -> Nat]
    BY <1>4, <1>6
  <2>2. <<>> \in Seq(PositionModule)
    OBVIOUS
  <2> QED BY <1>3, <1>7, <1>8, <2>1, <2>2, PositionsAssumption DEF TypeOK
<1>10. OpenListed
  <2>1. ~HasDuplicate(<<>>) /\ Elements(<<>>) = {}
    BY DEF HasDuplicate, Elements
  <2> QED BY <1>1, <1>6, <1>8, <2>1 DEF OpenListed
<1>11. PositionsVisible
  <2>1. ASSUME NEW c \in Component, virtualUnit[c] > 0
        PROVE  GetDefaultPositionRealUnit(c) > 0
    <3> DEFINE v == virtualUnit[c]
               r == ConvertVirtualToRealUnit(v, PreciseUnit)
    <3>1. v \in Nat /\ v > 0 /\ v \in Int
      BY <1>6, <2>1
    <3>2. r \in Int /\ v * PreciseUnit < PreciseUnit * r + PreciseUnit
      BY <1>7, <3>1, RealUnitIsFloor
    <3> HIDE DEF v, r
    <3>3. PreciseUnit * v < PreciseUnit * (r + 1)
      BY <1>7, <3>1, <3>2
    <3>4. v < r + 1
      BY <1>7, <3>1, <3>2, <3>3
    <3>5. r > 0
      BY <3>1, <3>2, <3>4
    <3> QED BY <1>7, <3>5 DEF v, r, GetDefaultPositionRealUnit
  <2> QED BY <1>8, <2>1 DEF PositionsVisible
<1> QED BY <1>9, <1>10, <1>11 DEF PositionsInv

\* editDefaultPosition: the component is listed afterwards exactly when a
\* position is left.
LEMMA EditDefaultLists ==
  ASSUME PositionsInv, NEW c \in Component, NEW u \in Nat,
         EditDefaultPosition(c, u)
  PROVE  /\ components' \in Seq(Component)
         /\ ~HasDuplicate(components')
         /\ \A d \in Component \ {c} :
              d \in Elements(components') <=> d \in Elements(components)
         /\ c \in Elements(components')
              <=> u # 0 \/ \E m \in PositionModule : externalUnit[c][m] # 0
<1>1. /\ components \in Seq(Component)
      /\ ~HasDuplicate(components)
      /\ c \in Elements(components)
           <=> virtualUnit[c] # 0 \/ \E m \in PositionModule : externalUnit[c][m] # 0
  BY DEF PositionsInv, TypeOK, OpenListed
<1>2. HasExternalPosition(c) <=> \E m \in PositionModule : externalUnit[c][m] # 0
  BY HasExternal DEF PositionsInv, OpenListed
<1>3. HasDefaultPosition(c) <=> virtualUnit[c] # 0
  BY OpenUnits
<1> DEFINE opens  == ~HasDefaultPosition(c) /\ u > 0 /\ ~HasExternalPosition(c)
           closes == HasDefaultPosition(c) /\ u = 0 /\ ~HasExternalPosition(c)
<1>4. components' = IF opens THEN Append(components, c)
                    ELSE IF closes THEN RemoveStorage(components, c)
                    ELSE components
  BY DEF EditDefaultPosition
<1>5. CASE opens
  <2>1. c \notin Elements(components)
    BY <1>1, <1>2, <1>3, <1>5
  <2>2. /\ components' \in Seq(Component)
        /\ Elements(components') = Elements(components) \cup {c}
        /\ ~HasDuplicate(components')
    BY <1>1, <1>4, <1>5, <2>1, AppendAdds
  <2> QED BY <1>5, <2>2
<1>6. CASE ~opens /\ closes
  <2>1. c \in Elements(components)
    BY <1>1, <1>3, <1>6
  <2>2. /\ components' \in Seq(Component)
        /\ Elements(components') = Elements(components) \ {c}
        /\ ~HasDuplicate(components')
    BY <1>1, <1>4, <1>6, <2>1, RemoveStorageRemoves
  <2> QED BY <1>2, <1>6, <2>2
<1>7. CASE ~opens /\ ~closes
  BY <1>1, <1>2, <1>3, <1>4, <1>7
<1> QED BY <1>5, <1>6, <1>7

\* editDefaultPosition stores a unit that is not zero exactly when the one
\* asked for is not, and no other position notices.
LEMMA EditDefaultInv ==
  ASSUME PositionsInv, NEW c \in Component, NEW u \in DefaultUnit,
         EditDefaultPosition(c, u)
  PROVE  PositionsInv'
<1>0. u \in Nat /\ u \in Int
  BY PositionsAssumption
<1>1. /\ components' \in Seq(Component)
      /\ ~HasDuplicate(components')
      /\ \A d \in Component \ {c} :
           d \in Elements(components') <=> d \in Elements(components)
      /\ c \in Elements(components')
           <=> u # 0 \/ \E m \in PositionModule : externalUnit[c][m] # 0
  BY <1>0, EditDefaultLists
<1> DEFINE v == ConvertRealToVirtualUnit(u, positionMultiplier)
<1>2. positionMultiplier \in Nat \ {0} /\ ConvertibleUnit(u, positionMultiplier)
  BY DEF PositionsInv, TypeOK, EditDefaultPosition
<1>3. /\ v \in Nat
      /\ v # 0 <=> u # 0
      /\ v > 0 => ConvertVirtualToRealUnit(v, positionMultiplier) > 0
  BY <1>0, <1>2, StoredUnit
<1>4. /\ virtualUnit' = [virtualUnit EXCEPT ![c] = v]
      /\ UNCHANGED <<externalPositionModules, externalUnit, externalData,
                     positionMultiplier>>
  BY DEF EditDefaultPosition
<1> HIDE DEF v
<1>5. TypeOK'
  BY <1>1, <1>3, <1>4 DEF PositionsInv, TypeOK
<1>6. virtualUnit \in [Component -> Nat]
  BY DEF PositionsInv, TypeOK
<1>7. OpenListed'
  BY <1>1, <1>3, <1>4, <1>6 DEF PositionsInv, OpenListed
<1>8. PositionsVisible'
  BY <1>3, <1>4, <1>6
     DEF PositionsInv, PositionsVisible, GetDefaultPositionRealUnit,
         GetExternalPositionRealUnit
<1> QED BY <1>5, <1>7, <1>8 DEF PositionsInv

\* editExternalPosition with a unit that is not zero lists the component and
\* the module, each once.
LEMMA SetExternalInv ==
  ASSUME PositionsInv, NEW c \in Component, NEW m \in PositionModule,
         NEW u \in Int, NEW data \in Data,
         SetExternalPosition(c, m, u, data)
  PROVE  PositionsInv'
<1>1. TypeOK /\ OpenListed /\ PositionsVisible
  BY DEF PositionsInv
<1> DEFINE v == ConvertRealToVirtualUnit(u, positionMultiplier)
           list == externalPositionModules[c]
           newList == IF IsExternalPositionModule(c, m) THEN list ELSE Append(list, m)
<1>2. /\ components' = IF IsComponent(c) THEN components ELSE Append(components, c)
      /\ externalPositionModules' = [externalPositionModules EXCEPT ![c] = newList]
      /\ externalUnit' = [externalUnit EXCEPT ![c][m] = v]
      /\ externalData' = [externalData EXCEPT ![c][m] = data]
      /\ UNCHANGED <<virtualUnit, positionMultiplier>>
      /\ u # 0 /\ ConvertibleUnit(u, positionMultiplier)
  BY <1>1 DEF SetExternalPosition, TypeOK
<1>3. positionMultiplier \in Nat \ {0}
  BY <1>1 DEF TypeOK
<1>4. /\ v \in Int /\ v # 0
      /\ v > 0 => ConvertVirtualToRealUnit(v, positionMultiplier) > 0
      /\ v < 0 => ConvertVirtualToRealUnit(v, positionMultiplier) < 0
  BY <1>2, <1>3, StoredUnit
<1>5. /\ components' \in Seq(Component)
      /\ Elements(components') = Elements(components) \cup {c}
      /\ ~HasDuplicate(components')
  <2>1. components \in Seq(Component) /\ ~HasDuplicate(components)
    BY <1>1 DEF TypeOK, OpenListed
  <2>2. CASE IsComponent(c)
    BY <1>2, <2>1, <2>2, ContainsIsElement DEF IsComponent
  <2>3. CASE ~IsComponent(c)
    BY <1>2, <2>1, <2>3, ContainsIsElement, AppendAdds DEF IsComponent
  <2> QED BY <2>2, <2>3
<1>6. /\ newList \in Seq(PositionModule)
      /\ Elements(newList) = Elements(list) \cup {m}
      /\ ~HasDuplicate(newList)
  <2>1. list \in Seq(PositionModule) /\ ~HasDuplicate(list)
    BY <1>1 DEF TypeOK, OpenListed
  <2>2. CASE IsExternalPositionModule(c, m)
    BY <2>1, <2>2, ContainsIsElement DEF IsExternalPositionModule
  <2>3. CASE ~IsExternalPositionModule(c, m)
    BY <2>1, <2>3, ContainsIsElement, AppendAdds DEF IsExternalPositionModule
  <2> QED BY <2>2, <2>3
<1> HIDE DEF v, list, newList
<1>7. TypeOK'
  BY <1>1, <1>2, <1>4, <1>5, <1>6 DEF TypeOK
<1>8. ASSUME NEW d \in Component, NEW k \in PositionModule
      PROVE  /\ externalUnit'[d][k] = IF d = c /\ k = m THEN v ELSE externalUnit[d][k]
             /\ externalData'[d][k] = IF d = c /\ k = m THEN data ELSE externalData[d][k]
  BY <1>1, <1>2 DEF TypeOK
<1>9. ASSUME NEW d \in Component
      PROVE  /\ externalPositionModules'[d] =
                  IF d = c THEN newList ELSE externalPositionModules[d]
             /\ virtualUnit'[d] = virtualUnit[d]
  BY <1>1, <1>2 DEF TypeOK
<1>10. OpenListed'
  <2>1. ASSUME NEW d \in Component
        PROVE  d \in Elements(components')
                 <=> virtualUnit'[d] # 0 \/ \E k \in PositionModule : externalUnit'[d][k] # 0
    BY <1>1, <1>4, <1>5, <1>8, <1>9 DEF OpenListed
  <2>2. ASSUME NEW d \in Component
        PROVE  ~HasDuplicate(externalPositionModules'[d])
    BY <1>1, <1>6, <1>9 DEF OpenListed
  <2>3. ASSUME NEW d \in Component, NEW k \in PositionModule
        PROVE  /\ k \in Elements(externalPositionModules'[d]) <=> externalUnit'[d][k] # 0
               /\ externalUnit'[d][k] = 0 => externalData'[d][k] = NoData
    <3>1. CASE d = c
      BY <1>1, <1>4, <1>6, <1>8, <1>9, <3>1 DEF OpenListed, list
    <3>2. CASE d # c
      BY <1>1, <1>8, <1>9, <3>2 DEF OpenListed
    <3> QED BY <3>1, <3>2
  <2> QED BY <1>5, <2>1, <2>2, <2>3 DEF OpenListed
<1>11. PositionsVisible'
  BY <1>1, <1>2, <1>4, <1>8, <1>9
     DEF PositionsVisible, GetDefaultPositionRealUnit, GetExternalPositionRealUnit
<1> QED BY <1>7, <1>10, <1>11 DEF PositionsInv

\* editExternalPosition with a unit of zero unlists the module, and the
\* component with its last position.
LEMMA CloseExternalInv ==
  ASSUME PositionsInv, NEW c \in Component, NEW m \in PositionModule,
         CloseExternalPosition(c, m)
  PROVE  PositionsInv'
<1>1. TypeOK /\ OpenListed /\ PositionsVisible
  BY DEF PositionsInv
<1> DEFINE list == externalPositionModules[c]
           newList == RemoveStorage(list, m)
           last == GetDefaultPositionRealUnit(c) = 0 /\ Len(list) = 1
<1>2. /\ components' = IF last THEN RemoveStorage(components, c) ELSE components
      /\ last => list[1] = m /\ IsComponent(c)
      /\ IsExternalPositionModule(c, m)
      /\ externalPositionModules' = [externalPositionModules EXCEPT ![c] = newList]
      /\ externalUnit' = [externalUnit EXCEPT ![c][m] = 0]
      /\ externalData' = [externalData EXCEPT ![c][m] = NoData]
      /\ UNCHANGED <<virtualUnit, positionMultiplier>>
  BY <1>1 DEF CloseExternalPosition, TypeOK
<1>3. /\ list \in Seq(PositionModule) /\ ~HasDuplicate(list)
      /\ m \in Elements(list)
  BY <1>1, <1>2, ContainsIsElement DEF TypeOK, OpenListed, IsExternalPositionModule
<1>4. /\ newList \in Seq(PositionModule)
      /\ Elements(newList) = Elements(list) \ {m}
      /\ ~HasDuplicate(newList)
  BY <1>3, RemoveStorageRemoves
<1>5. /\ components \in Seq(Component) /\ ~HasDuplicate(components)
      /\ c \in Elements(components)
  BY <1>1, <1>3 DEF TypeOK, OpenListed
<1>6. last <=> virtualUnit[c] = 0 /\ Elements(list) = {m}
  <2>1. GetDefaultPositionRealUnit(c) = 0 <=> virtualUnit[c] = 0
    BY OpenUnits
  <2>2. Len(list) = 1 => Elements(list) = {list[1]}
    BY <1>3, ListLength
  <2>3. ASSUME Elements(list) = {m} PROVE Len(list) = 1
    <3>1. /\ DOMAIN list = 1 .. Len(list) /\ Len(list) \in Nat
          /\ \A i \in 1 .. Len(list) : list[i] \in Elements(list)
      BY <1>3 DEF Elements
    <3>2. \A i, j \in 1 .. Len(list) : i < j => list[i] # list[j]
      BY <1>3, <3>1 DEF HasDuplicate
    <3>3. ASSUME Len(list) >= 2 PROVE FALSE
      <4>1. 1 \in 1 .. Len(list) /\ 2 \in 1 .. Len(list)
        BY <3>1, <3>3
      <4>2. list[1] = m /\ list[2] = m
        BY <2>3, <3>1, <4>1
      <4> QED BY <3>2, <4>1, <4>2
    <3>4. Len(list) > 0 /\ Len(list) \in Nat
      BY <1>3, ListLength
    <3> DEFINE n == Len(list)
    <3>5. n \in Nat /\ n > 0 /\ ~(n >= 2)
      BY <3>3, <3>4
    <3> HIDE DEF n
    <3>6. n = 1
      BY <3>5
    <3> QED BY <3>6 DEF n
  <2> QED BY <1>2, <2>1, <2>2, <2>3
<1>7. /\ components' \in Seq(Component)
      /\ ~HasDuplicate(components')
      /\ Elements(components') = IF last THEN Elements(components) \ {c}
                                 ELSE Elements(components)
  <2>1. CASE last
    BY <1>2, <1>5, <2>1, RemoveStorageRemoves
  <2>2. CASE ~last
    BY <1>2, <1>5, <2>2
  <2> QED BY <2>1, <2>2
<1> HIDE DEF list, newList, last
<1>8. TypeOK'
  BY <1>1, <1>2, <1>4, <1>7, PositionsAssumption DEF TypeOK
<1>9. ASSUME NEW d \in Component, NEW k \in PositionModule
      PROVE  /\ externalUnit'[d][k] = IF d = c /\ k = m THEN 0 ELSE externalUnit[d][k]
             /\ externalData'[d][k] = IF d = c /\ k = m THEN NoData ELSE externalData[d][k]
  BY <1>1, <1>2 DEF TypeOK
<1>10. ASSUME NEW d \in Component
       PROVE  /\ externalPositionModules'[d] =
                   IF d = c THEN newList ELSE externalPositionModules[d]
              /\ virtualUnit'[d] = virtualUnit[d]
  BY <1>1, <1>2 DEF TypeOK
<1>11. \A k \in PositionModule : k \in Elements(list) <=> externalUnit[c][k] # 0
  BY <1>1 DEF OpenListed, list
<1>12. OpenListed'
  <2>1. ASSUME NEW d \in Component
        PROVE  d \in Elements(components')
                 <=> virtualUnit'[d] # 0 \/ \E k \in PositionModule : externalUnit'[d][k] # 0
    <3>1. CASE d # c
      BY <1>1, <1>7, <1>9, <1>10, <3>1 DEF OpenListed
    <3>2. CASE d = c
      <4>1. CASE last
        BY <1>6, <1>7, <1>9, <1>10, <1>11, <3>2, <4>1
      <4>2. CASE ~last /\ virtualUnit[c] # 0
        BY <1>5, <1>7, <1>10, <3>2, <4>2
      <4>3. CASE ~last /\ Elements(list) # {m}
        <5>1. PICK k \in Elements(list) : k # m
          BY <1>3, <4>3
        <5>2. k \in PositionModule
          BY <1>3, <5>1 DEF Elements
        <5>3. externalUnit'[c][k] # 0
          BY <1>9, <1>11, <5>1, <5>2
        <5> QED BY <1>5, <1>7, <3>2, <4>3, <5>2, <5>3
      <4> QED BY <1>6, <4>1, <4>2, <4>3
    <3> QED BY <3>1, <3>2
  <2>2. ASSUME NEW d \in Component
        PROVE  ~HasDuplicate(externalPositionModules'[d])
    BY <1>1, <1>4, <1>10 DEF OpenListed
  <2>3. ASSUME NEW d \in Component, NEW k \in PositionModule
        PROVE  /\ k \in Elements(externalPositionModules'[d]) <=> externalUnit'[d][k] # 0
               /\ externalUnit'[d][k] = 0 => externalData'[d][k] = NoData
    <3>1. CASE d = c
      BY <1>1, <1>4, <1>9, <1>10, <1>11, <3>1 DEF OpenListed
    <3>2. CASE d # c
      BY <1>1, <1>9, <1>10, <3>2 DEF OpenListed
    <3> QED BY <3>1, <3>2
  <2> QED BY <1>7, <2>1, <2>2, <2>3 DEF OpenListed
<1>13. PositionsVisible'
  BY <1>1, <1>2, <1>9, <1>10
     DEF PositionsVisible, GetDefaultPositionRealUnit, GetExternalPositionRealUnit
<1> QED BY <1>8, <1>12, <1>13 DEF PositionsInv

\* editPositionMultiplier: the check runs over the lists, and the lists name
\* every open position, so none of them rounds to nothing; a debt never does.
LEMMA EditMultiplierInv ==
  ASSUME PositionsInv, NEW n \in Multiplier, EditPositionMultiplier(n)
  PROVE  PositionsInv'
<1>1. TypeOK /\ OpenListed
  BY DEF PositionsInv
<1>2. /\ PositionMagnitudes # {}
      /\ \A unit \in PositionMagnitudes : ConservativePreciseMul(unit, n) > 0
      /\ positionMultiplier' = n
      /\ UNCHANGED <<components, virtualUnit, externalPositionModules,
                     externalUnit, externalData>>
  BY DEF EditPositionMultiplier, ValidateNewMultiplier
<1>3. n \in Nat
  BY PositionsAssumption
<1>4. /\ components \in Seq(Component)
      /\ \A c \in Component : virtualUnit[c] \in Nat
      /\ \A c \in Component, m \in PositionModule : externalUnit[c][m] \in Int
      /\ \A c \in Component : externalPositionModules[c] \in Seq(PositionModule)
  BY <1>1 DEF TypeOK
<1>5. ASSUME NEW c \in Component, virtualUnit[c] > 0
      PROVE  ConvertVirtualToRealUnit(virtualUnit[c], n) > 0
  <2>1. c \in Elements(components)
    BY <1>1, <1>4, <1>5 DEF OpenListed
  <2>2. virtualUnit[c] # 0
    BY <1>4, <1>5
  <2>3. virtualUnit[c] \in PositionMagnitudes
    BY <2>1, <2>2 DEF PositionMagnitudes, DefaultMagnitudes
  <2> QED BY <1>2, <2>3 DEF ConvertVirtualToRealUnit
<1>6. ASSUME NEW c \in Component, NEW m \in PositionModule, externalUnit[c][m] # 0
      PROVE  Magnitude(externalUnit[c][m]) \in PositionMagnitudes
  <2>1. m \in Elements(externalPositionModules[c]) /\ c \in Elements(components)
    BY <1>1, <1>6 DEF OpenListed
  <2>2. Magnitude(externalUnit[c][m]) # 0
    BY <1>4, <1>6 DEF Magnitude
  <2>3. Magnitude(externalUnit[c][m])
          \in {Magnitude(externalUnit[c][k]) : k \in Elements(externalPositionModules[c])}
    BY <2>1
  <2> QED BY <2>1, <2>2, <2>3 DEF PositionMagnitudes
<1>7. n \in Nat \ {0}
  <2>1. PICK unit \in PositionMagnitudes : TRUE
    BY <1>2
  <2>2. unit \in Int
    <3>1. CASE unit \in DefaultMagnitudes
      <4>1. PICK c \in Elements(components) : unit = virtualUnit[c]
        BY <3>1 DEF DefaultMagnitudes
      <4>2. c \in Component
        BY <1>4, <4>1 DEF Elements
      <4> QED BY <1>4, <4>1, <4>2
    <3>2. CASE unit \notin DefaultMagnitudes
      <4>1. PICK c \in Elements(components) :
              unit \in {Magnitude(externalUnit[c][m]) :
                          m \in Elements(externalPositionModules[c])}
        BY <2>1, <3>2 DEF PositionMagnitudes
      <4>2. PICK m \in Elements(externalPositionModules[c]) :
              unit = Magnitude(externalUnit[c][m])
        BY <4>1
      <4>3. c \in Component
        BY <1>4, <4>1 DEF Elements
      <4>4. m \in PositionModule
        <5>1. externalPositionModules[c] \in Seq(PositionModule)
          BY <1>4, <4>3
        <5> QED BY <4>2, <5>1 DEF Elements
      <4>5. externalUnit[c][m] \in Int
        BY <1>4, <4>3, <4>4
      <4> QED BY <4>2, <4>5 DEF Magnitude
    <3> QED BY <3>1, <3>2
  <2>3. ConvertVirtualToRealUnit(unit, n) > 0
    BY <1>2, <2>1 DEF ConvertVirtualToRealUnit
  <2>4. ASSUME n = 0 PROVE FALSE
    <3> DEFINE r == ConvertVirtualToRealUnit(unit, 0)
    <3>1. r \in Int /\ PreciseUnit * r <= unit * 0
      BY <2>2, RealUnitIsFloor
    <3>2. r > 0
      BY <2>3, <2>4
    <3>3. unit * 0 = 0
      BY <2>2
    <3> HIDE DEF r
    <3>4. PreciseUnit * r > 0
      BY <3>1, <3>2, PreciseUnitAssumption
    <3> QED BY <3>1, <3>3, <3>4, PreciseUnitAssumption
  <2> QED BY <1>3, <2>4
<1>8. TypeOK'
  BY <1>1, <1>2, <1>7 DEF TypeOK
<1>9. OpenListed'
  BY <1>1, <1>2 DEF OpenListed
<1>10. ASSUME NEW c \in Component, NEW m \in PositionModule
       PROVE  /\ externalUnit[c][m] > 0 => ConvertVirtualToRealUnit(externalUnit[c][m], n) > 0
              /\ externalUnit[c][m] < 0 => ConvertVirtualToRealUnit(externalUnit[c][m], n) < 0
  <2>1. externalUnit[c][m] \in Int
    BY <1>4
  <2>2. ASSUME externalUnit[c][m] > 0
        PROVE  ConvertVirtualToRealUnit(externalUnit[c][m], n) > 0
    <3>1. Magnitude(externalUnit[c][m]) = externalUnit[c][m] /\ externalUnit[c][m] # 0
      BY <2>1, <2>2 DEF Magnitude
    <3> QED BY <1>2, <1>6, <3>1 DEF ConvertVirtualToRealUnit
  <2> QED BY <1>7, <2>1, <2>2, RealUnitSign
<1>11. PositionsVisible'
  BY <1>2, <1>5, <1>10
     DEF PositionsVisible, GetDefaultPositionRealUnit, GetExternalPositionRealUnit
<1> QED BY <1>8, <1>9, <1>11 DEF PositionsInv

\* Writes to external positions carry an integer and data.
LEMMA ExternalWriteType ==
  ASSUME NEW w \in ExternalWrite
  PROVE  w[1] \in Int /\ w[2] \in Data
  BY PositionsAssumption

\* Every step preserves the invariant.
LEMMA PositionsStep == PositionsInv /\ [Next]_positionVars => PositionsInv'
<1> SUFFICES ASSUME PositionsInv, [Next]_positionVars PROVE PositionsInv'
  OBVIOUS
<1>1. ASSUME UNCHANGED positionVars PROVE PositionsInv'
  BY <1>1 DEF positionVars, PositionsInv, TypeOK, OpenListed, PositionsVisible,
              GetDefaultPositionRealUnit, GetExternalPositionRealUnit
<1>2. ASSUME NEW c \in Component, NEW u \in DefaultUnit, EditDefaultPosition(c, u)
      PROVE  PositionsInv'
  BY <1>2, EditDefaultInv
<1>3. ASSUME NEW c \in Component, NEW m \in PositionModule, NEW w \in ExternalWrite,
             EditExternalPosition(c, m, w[1], w[2])
      PROVE  PositionsInv'
  BY <1>1, <1>3, ExternalWriteType, SetExternalInv, CloseExternalInv
     DEF EditExternalPosition, CloseNothing
<1>4. ASSUME NEW n \in Multiplier, EditPositionMultiplier(n) PROVE PositionsInv'
  BY <1>4, EditMultiplierInv
<1> QED BY <1>1, <1>2, <1>3, <1>4 DEF Next

\* The inductive invariant holds in every reachable state: in particular the
\* multiplier never becomes zero (SetToken.sol, Position.sol).
THEOREM PositionsInductive == Spec => []PositionsInv
  BY PositionsInit, PositionsStep, PTL DEF Spec

\* The component list and the lists of external modules name every open
\* position once and nothing else, for any components, modules, units and
\* multipliers (Position.editDefaultPosition, Position.editExternalPosition).
THEOREM PositionsAreListed == Spec => []PositionsListed
<1>1. PositionsInv => PositionsListed
  BY ListedAsSets DEF PositionsInv
<1> QED BY <1>1, PositionsInductive, PTL

\* No fee or redemption makes the real unit of an open position vanish or
\* change its sign (SetToken.editPositionMultiplier, _validateNewMultiplier).
THEOREM PositionsAreVisible == Spec => []PositionsVisible
<1>1. PositionsInv => PositionsVisible
  BY DEF PositionsInv
<1> QED BY <1>1, PositionsInductive, PTL

-----------------------------------------------------------------------------
(* The refinement of PositionBook.                                         *)

\* The entries of the book are integers, and the components with an entry
\* are the listed ones.
LEMMA BookIsListed ==
  PositionsInv => /\ RealBook \in [Component -> [PositionModule \cup {Default} -> Int]]
                  /\ Elements(components) = Book!ListedIn(RealBook)
<1> SUFFICES ASSUME PositionsInv
             PROVE  /\ RealBook \in [Component -> [PositionModule \cup {Default} -> Int]]
                    /\ Elements(components) = Book!ListedIn(RealBook)
  OBVIOUS
<1>1. ASSUME NEW c \in Component
      PROVE  /\ RealBook[c] \in [PositionModule \cup {Default} -> Int]
             /\ RealBook[c][Default] = GetDefaultPositionRealUnit(c)
             /\ \A m \in PositionModule :
                  RealBook[c][m] = GetExternalPositionRealUnit(c, m)
  BY OpenUnits, PositionsAssumption DEF RealBook
<1>2. RealBook \in [Component -> [PositionModule \cup {Default} -> Int]]
  BY <1>1 DEF RealBook
<1>3. ASSUME NEW c \in Component
      PROVE  c \in Elements(components)
               <=> \E h \in PositionModule \cup {Default} : RealBook[c][h] # 0
  <2>1. c \in Elements(components)
          <=> virtualUnit[c] # 0 \/ \E m \in PositionModule : externalUnit[c][m] # 0
    BY DEF PositionsInv, OpenListed
  <2>2. RealBook[c][Default] # 0 <=> virtualUnit[c] # 0
    BY <1>1, OpenUnits
  <2>3. \A m \in PositionModule : RealBook[c][m] # 0 <=> externalUnit[c][m] # 0
    BY <1>1, OpenUnits
  <2> QED BY <2>1, <2>2, <2>3
<1>4. Elements(components) \subseteq Component
  BY DEF PositionsInv, TypeOK, Elements
<1> QED BY <1>2, <1>3, <1>4 DEF Book!ListedIn

\* The same after a step.
LEMMA BookIsListedAfter ==
  PositionsInv' => (Elements(components) = Book!ListedIn(RealBook))'
<1>1. PositionsInv => Elements(components) = Book!ListedIn(RealBook)
  BY BookIsListed
<1> QED BY <1>1, PTL

\* What a reader finds in the book, entry by entry, before and after a step.
LEMMA BookEntries ==
  ASSUME NEW c \in Component
  PROVE  /\ RealBook[c][Default]
              = ConvertVirtualToRealUnit(virtualUnit[c], positionMultiplier)
         /\ RealBook'[c][Default]
              = ConvertVirtualToRealUnit(virtualUnit'[c], positionMultiplier')
         /\ \A m \in PositionModule :
              /\ RealBook[c][m]
                   = ConvertVirtualToRealUnit(externalUnit[c][m], positionMultiplier)
              /\ RealBook'[c][m]
                   = ConvertVirtualToRealUnit(externalUnit'[c][m], positionMultiplier')
<1>1. /\ RealBook[c][Default]
           = ConvertVirtualToRealUnit(virtualUnit[c], positionMultiplier)
      /\ \A m \in PositionModule :
           RealBook[c][m]
             = ConvertVirtualToRealUnit(externalUnit[c][m], positionMultiplier)
  BY PositionsAssumption
     DEF RealBook, GetDefaultPositionRealUnit, GetExternalPositionRealUnit
<1>2. /\ RealBook'[c][Default]
           = ConvertVirtualToRealUnit(virtualUnit'[c], positionMultiplier')
      /\ \A m \in PositionModule :
           RealBook'[c][m]
             = ConvertVirtualToRealUnit(externalUnit'[c][m], positionMultiplier')
  BY PositionsAssumption
     DEF RealBook, GetDefaultPositionRealUnit, GetExternalPositionRealUnit
<1> QED BY <1>1, <1>2

\* editDefaultPosition writes the entry of the SetToken itself.
LEMMA EditDefaultWrites ==
  ASSUME PositionsInv, PositionsInv', NEW c \in Component, NEW u \in DefaultUnit,
         EditDefaultPosition(c, u)
  PROVE  Book!Write(c, Default, u)
<1>1. u \in Int
  BY PositionsAssumption
<1> DEFINE v == ConvertRealToVirtualUnit(u, positionMultiplier)
           r == ConvertVirtualToRealUnit(v, positionMultiplier)
<1>2. /\ positionMultiplier \in Nat \ {0}
      /\ ConvertibleUnit(u, positionMultiplier)
      /\ virtualUnit \in [Component -> Nat]
      /\ virtualUnit' = [virtualUnit EXCEPT ![c] = v]
      /\ externalUnit' = externalUnit /\ positionMultiplier' = positionMultiplier
  BY DEF PositionsInv, TypeOK, EditDefaultPosition
<1>3. /\ r \in Int /\ r <= u
      /\ u > 0 => r > 0
      /\ u = 0 => r = 0
      /\ u < 0 => r < 0
  BY <1>1, <1>2, StoredUnit
<1>4. RealBook'[c][Default] = r
  BY <1>2, BookEntries
<1>5. ASSUME NEW d \in Component, NEW k \in PositionModule \cup {Default},
             <<d, k>> # <<c, Default>>
      PROVE  RealBook'[d][k] = RealBook[d][k]
  <2>1. CASE k = Default
    BY <1>2, <1>5, <2>1, BookEntries
  <2>2. CASE k # Default
    BY <1>2, <2>2, BookEntries
  <2> QED BY <2>1, <2>2
<1>6. Elements(components') = Book!ListedIn(RealBook')
  BY BookIsListedAfter DEF Book!ListedIn
<1> HIDE DEF r
<1>7. Book!SameSign(r, u)
  BY <1>1, <1>3 DEF Book!SameSign
<1> QED BY <1>3, <1>4, <1>5, <1>6, <1>7 DEF Book!Write

\* editExternalPosition with a unit writes the entry of the module.
LEMMA SetExternalWrites ==
  ASSUME PositionsInv, PositionsInv', NEW c \in Component, NEW m \in PositionModule,
         NEW u \in Int, NEW data, SetExternalPosition(c, m, u, data)
  PROVE  Book!Write(c, m, u)
<1> DEFINE v == ConvertRealToVirtualUnit(u, positionMultiplier)
           r == ConvertVirtualToRealUnit(v, positionMultiplier)
<1>1. /\ positionMultiplier \in Nat \ {0}
      /\ ConvertibleUnit(u, positionMultiplier)
      /\ externalUnit \in [Component -> [PositionModule -> Int]]
      /\ externalUnit' = [externalUnit EXCEPT ![c][m] = v]
      /\ virtualUnit' = virtualUnit /\ positionMultiplier' = positionMultiplier
  BY DEF PositionsInv, TypeOK, SetExternalPosition
<1>2. /\ r \in Int /\ r <= u
      /\ u > 0 => r > 0
      /\ u = 0 => r = 0
      /\ u < 0 => r < 0
  BY <1>1, StoredUnit
<1>3. ASSUME NEW d \in Component, NEW k \in PositionModule
      PROVE  externalUnit'[d][k] = IF d = c /\ k = m THEN v ELSE externalUnit[d][k]
  BY <1>1
<1>4. RealBook'[c][m] = r
  BY <1>1, <1>3, BookEntries
<1>5. ASSUME NEW d \in Component, NEW k \in PositionModule \cup {Default},
             <<d, k>> # <<c, m>>
      PROVE  RealBook'[d][k] = RealBook[d][k]
  <2>1. CASE k = Default
    BY <1>1, <2>1, BookEntries
  <2>2. CASE k # Default
    BY <1>1, <1>3, <1>5, <2>2, BookEntries
  <2> QED BY <2>1, <2>2
<1>6. Elements(components') = Book!ListedIn(RealBook')
  BY BookIsListedAfter DEF Book!ListedIn
<1> HIDE DEF r
<1>7. Book!SameSign(r, u)
  BY <1>2 DEF Book!SameSign
<1> QED BY <1>2, <1>4, <1>5, <1>6, <1>7 DEF Book!Write

\* editExternalPosition with zero clears the entry of the module.
LEMMA CloseExternalWrites ==
  ASSUME PositionsInv, PositionsInv', NEW c \in Component, NEW m \in PositionModule,
         CloseExternalPosition(c, m)
  PROVE  Book!Write(c, m, 0)
<1>1. /\ positionMultiplier \in Nat \ {0}
      /\ externalUnit \in [Component -> [PositionModule -> Int]]
      /\ externalUnit' = [externalUnit EXCEPT ![c][m] = 0]
      /\ virtualUnit' = virtualUnit /\ positionMultiplier' = positionMultiplier
  BY DEF PositionsInv, TypeOK, CloseExternalPosition
<1>2. ASSUME NEW d \in Component, NEW k \in PositionModule
      PROVE  externalUnit'[d][k] = IF d = c /\ k = m THEN 0 ELSE externalUnit[d][k]
  BY <1>1
<1>3. RealBook'[c][m] = 0
  BY <1>1, <1>2, BookEntries, RealUnitSign
<1>4. ASSUME NEW d \in Component, NEW k \in PositionModule \cup {Default},
             <<d, k>> # <<c, m>>
      PROVE  RealBook'[d][k] = RealBook[d][k]
  <2>1. CASE k = Default
    BY <1>1, <2>1, BookEntries
  <2>2. CASE k # Default
    BY <1>1, <1>2, <1>4, <2>2, BookEntries
  <2> QED BY <2>1, <2>2
<1>5. Elements(components') = Book!ListedIn(RealBook')
  BY BookIsListedAfter DEF Book!ListedIn
<1> QED BY <1>3, <1>4, <1>5 DEF Book!Write, Book!SameSign

\* editPositionMultiplier moves every entry in one direction and none through
\* zero.
LEMMA EditMultiplierRescales ==
  ASSUME PositionsInv, PositionsInv', NEW n \in Multiplier, EditPositionMultiplier(n)
  PROVE  Book!Rescale
<1> DEFINE Holder == PositionModule \cup {Default}
           unit(c, h) == IF h = Default THEN virtualUnit[c] ELSE externalUnit[c][h]
           old == positionMultiplier
           sign(r, v) == (r > 0 <=> v > 0) /\ (r < 0 <=> v < 0)
<1>1. /\ positionMultiplier' = n
      /\ virtualUnit' = virtualUnit /\ externalUnit' = externalUnit
  BY DEF EditPositionMultiplier
<1>2. /\ old \in Nat \ {0} /\ n \in Nat \ {0}
      /\ virtualUnit \in [Component -> Nat]
      /\ externalUnit \in [Component -> [PositionModule -> Int]]
  BY <1>1 DEF PositionsInv, TypeOK
<1>3. ASSUME NEW c \in Component, NEW h \in Holder
      PROVE  /\ unit(c, h) \in Int
             /\ RealBook[c][h] = ConvertVirtualToRealUnit(unit(c, h), old)
             /\ RealBook'[c][h] = ConvertVirtualToRealUnit(unit(c, h), n)
  BY <1>1, <1>2, BookEntries
<1>4. ASSUME NEW c \in Component, NEW h \in Holder
      PROVE  /\ RealBook[c][h] \in Int /\ RealBook'[c][h] \in Int
             /\ sign(RealBook[c][h], unit(c, h))
             /\ sign(RealBook'[c][h], unit(c, h))
  <2>1. RealBook[c][h] \in Int /\ RealBook'[c][h] \in Int
    BY <1>2, <1>3, RealUnitSign
  <2>2. unit(c, h) <= 0 => /\ sign(RealBook[c][h], unit(c, h))
                           /\ sign(RealBook'[c][h], unit(c, h))
    BY <1>2, <1>3, <2>1, RealUnitSign
  <2>3. unit(c, h) > 0 => RealBook[c][h] > 0 /\ RealBook'[c][h] > 0
    <3>1. unit(c, h) > 0 => RealBook[c][h] > 0
      BY <1>3 DEF PositionsInv, PositionsVisible, GetDefaultPositionRealUnit,
                  GetExternalPositionRealUnit
    <3>2. unit(c, h) > 0 => RealBook'[c][h] > 0
      BY <1>1, <1>3 DEF PositionsInv, PositionsVisible, GetDefaultPositionRealUnit,
                        GetExternalPositionRealUnit
    <3> QED BY <3>1, <3>2
  <2> QED BY <1>3, <2>1, <2>2, <2>3
<1> DEFINE grows == \A c \in Component, h \in Holder :
                      IF RealBook[c][h] >= 0 THEN RealBook'[c][h] >= RealBook[c][h]
                                             ELSE RealBook'[c][h] <= RealBook[c][h]
           falls == \A c \in Component, h \in Holder :
                      IF RealBook[c][h] >= 0 THEN RealBook'[c][h] <= RealBook[c][h]
                                             ELSE RealBook'[c][h] >= RealBook[c][h]
<1> HIDE DEF unit, old
<1>5. ASSUME old <= n PROVE grows
  <2> SUFFICES ASSUME NEW c \in Component, NEW h \in Holder
               PROVE  IF RealBook[c][h] >= 0 THEN RealBook'[c][h] >= RealBook[c][h]
                                             ELSE RealBook'[c][h] <= RealBook[c][h]
    OBVIOUS
  <2>1. /\ unit(c, h) >= 0 => RealBook[c][h] <= RealBook'[c][h]
        /\ unit(c, h) < 0 => RealBook'[c][h] <= RealBook[c][h]
    BY <1>2, <1>3, <1>5, RealUnitGrows
  <2> QED BY <1>3, <1>4, <2>1
<1>6. ASSUME n <= old PROVE falls
  <2> SUFFICES ASSUME NEW c \in Component, NEW h \in Holder
               PROVE  IF RealBook[c][h] >= 0 THEN RealBook'[c][h] <= RealBook[c][h]
                                             ELSE RealBook'[c][h] >= RealBook[c][h]
    OBVIOUS
  <2>1. /\ unit(c, h) >= 0 => RealBook'[c][h] <= RealBook[c][h]
        /\ unit(c, h) < 0 => RealBook[c][h] <= RealBook'[c][h]
    BY <1>2, <1>3, <1>6, RealUnitGrows
  <2> QED BY <1>3, <1>4, <2>1
<1>7. grows \/ falls
  BY <1>2, <1>5, <1>6
<1>8. \A c \in Component, h \in Holder : Book!SameSign(RealBook'[c][h], RealBook[c][h])
  BY <1>4 DEF Book!SameSign
<1>9. Elements(components') = Book!ListedIn(RealBook')
  BY BookIsListedAfter DEF Book!ListedIn
<1> HIDE DEF grows, falls
<1> QED BY <1>7, <1>8, <1>9 DEF Book!Rescale, grows, falls

\* Every step of the libraries is a step of the book, or leaves it alone.
LEMMA BookStep ==
  PositionsInv /\ PositionsInv' /\ [Next]_positionVars => [Book!Next]_(Book!bookVars)
<1> SUFFICES ASSUME PositionsInv, PositionsInv', [Next]_positionVars
             PROVE  [Book!Next]_(Book!bookVars)
  OBVIOUS
<1>1. ASSUME UNCHANGED positionVars PROVE UNCHANGED Book!bookVars
  BY <1>1 DEF positionVars, Book!bookVars, RealBook, GetDefaultPositionRealUnit,
              GetExternalPositionRealUnit
<1>2. ASSUME NEW c \in Component, NEW u \in DefaultUnit, EditDefaultPosition(c, u)
      PROVE  Book!Next
  BY <1>2, EditDefaultWrites DEF Book!Next
<1>3. ASSUME NEW c \in Component, NEW m \in PositionModule, NEW w \in ExternalWrite,
             EditExternalPosition(c, m, w[1], w[2])
      PROVE  [Book!Next]_(Book!bookVars)
  <2>1. w[1] \in Int /\ w[1] \in {x[1] : x \in ExternalWrite}
    BY ExternalWriteType
  <2>2. CASE SetExternalPosition(c, m, w[1], w[2])
    BY <2>1, <2>2, SetExternalWrites DEF Book!Next
  <2>3. CASE w[1] = 0 /\ CloseExternalPosition(c, m)
    BY <2>1, <2>3, CloseExternalWrites DEF Book!Next
  <2>4. CASE CloseNothing(c, m)
    BY <1>1, <2>4 DEF CloseNothing
  <2> QED BY <1>3, <2>2, <2>3, <2>4 DEF EditExternalPosition
<1>4. ASSUME NEW n \in Multiplier, EditPositionMultiplier(n) PROVE Book!Next
  BY <1>4, EditMultiplierRescales DEF Book!Next
<1> QED BY <1>1, <1>2, <1>3, <1>4 DEF Next

\* The Position libraries implement the book of real units: an edit writes
\* one entry, never overstating it, and a multiplier edit rescales all of
\* them in one direction, with the components listed that have an entry.
THEOREM PositionsImplementBook == Spec => ImplementsBook
<1>1. Init => Book!Init
  BY PositionsInit, BookIsListed DEF Book!Init
<1>2. PositionsInv /\ PositionsInv' /\ [Next]_positionVars => [Book!Next]_(Book!bookVars)
  BY BookStep
<1> QED BY <1>1, <1>2, PositionsInductive, PTL DEF Spec, ImplementsBook, Book!Spec

==============================================================================
