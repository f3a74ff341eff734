-------------------------- MODULE SetTokenPositions --------------------------
(***************************************************************************)
(* The positions of a SetToken, default and external, as the Position and  *)
(* PositionV2 libraries edit them through SetToken's low-level functions   *)
(* (contracts/protocol/SetToken.sol, contracts/protocol/lib/Position.sol). *)
(*                                                                         *)
(* A module edits one position per call; the libraries decide from the     *)
(* real units whether the component and the module must be listed or       *)
(* unlisted.  The callers are modules the SetToken lets through            *)
(* (SetTokenModules models who that is), so a caller appears only as the   *)
(* module an external position belongs to.                                 *)
(***************************************************************************)
EXTENDS PreciseUnitMath, AddressArrayUtils, FiniteSets

CONSTANTS
  Component,       \* tokens that can be components
  PositionModule,  \* modules that keep external positions
  Default,         \* address(0), the "module" of a default position
  DefaultUnit,     \* real units written to default positions
  ExternalWrite,   \* <<real unit, data>> pairs written to external positions
  Multiplier,      \* position multipliers the fee and NAV modules set
  Data,            \* contents of externalPositions[m].data
  NoData           \* the empty bytes

ASSUME PositionsAssumption ==
  /\ Default \notin PositionModule
  /\ DefaultUnit \subseteq Nat
  /\ ExternalWrite \subseteq Int \X Data
  /\ Multiplier \subseteq Nat
  /\ NoData \in Data

VARIABLES
  components,               \* SetToken.components
  virtualUnit,              \* componentPositions[c].virtualUnit
  externalPositionModules,  \* componentPositions[c].externalPositionModules
  externalUnit,             \* ....externalPositions[m].virtualUnit
  externalData,             \* ....externalPositions[m].data
  positionMultiplier        \* SetToken.positionMultiplier

positionVars == <<components, virtualUnit, externalPositionModules,
                  externalUnit, externalData, positionMultiplier>>

-----------------------------------------------------------------------------
(* Getters.                                                                *)

GetDefaultPositionRealUnit(c) ==
  ConvertVirtualToRealUnit(virtualUnit[c], positionMultiplier)

GetExternalPositionRealUnit(c, m) ==
  ConvertVirtualToRealUnit(externalUnit[c][m], positionMultiplier)

IsComponent(c) == Contains(components, c)

IsExternalPositionModule(c, m) == Contains(externalPositionModules[c], m)

HasDefaultPosition(c) == GetDefaultPositionRealUnit(c) > 0

HasExternalPosition(c) == Len(externalPositionModules[c]) > 0

-----------------------------------------------------------------------------
\* The constructor: distinct components with positive units, multiplier one.
Init ==
  /\ \E list \in UNION {[1 .. n -> Component] : n \in 1 .. Cardinality(Component)} :
       ~HasDuplicate(list) /\ components = list
  /\ \E unit \in [Component -> DefaultUnit \ {0}] :
       virtualUnit = [c \in Component |->
                        IF Contains(components, c) THEN unit[c] ELSE 0]
  /\ externalPositionModules = [c \in Component |-> <<>>]
  /\ externalUnit = [c \in Component |-> [m \in PositionModule |-> 0]]
  /\ externalData = [c \in Component |-> [m \in PositionModule |-> NoData]]
  /\ positionMultiplier = PreciseUnit

-----------------------------------------------------------------------------
(* Position.editDefaultPosition.                                           *)

EditDefaultPosition(c, newUnit) ==
  /\ LET opens  == ~HasDefaultPosition(c) /\ newUnit > 0 /\ ~HasExternalPosition(c)
         closes == HasDefaultPosition(c) /\ newUnit = 0 /\ ~HasExternalPosition(c)
     IN  /\ opens => ~IsComponent(c)
         /\ closes => IsComponent(c)
         /\ components' = IF opens THEN Append(components, c)
                          ELSE IF closes THEN RemoveStorage(components, c)
                          ELSE components
  /\ ConvertibleUnit(newUnit, positionMultiplier)
  /\ virtualUnit' = [virtualUnit EXCEPT
                      ![c] = ConvertRealToVirtualUnit(newUnit, positionMultiplier)]
  /\ UNCHANGED <<externalPositionModules, externalUnit, externalData,
                 positionMultiplier>>

-----------------------------------------------------------------------------
(* Position.editExternalPosition.                                          *)

\* _newUnit # 0: list the component and the module where they are missing.
SetExternalPosition(c, m, newUnit, data) ==
  /\ newUnit # 0
  /\ ~IsComponent(c) => ~IsExternalPositionModule(c, m)
  /\ components' = IF IsComponent(c) THEN components ELSE Append(components, c)
  /\ externalPositionModules' =
       [externalPositionModules EXCEPT
          ![c] = IF IsExternalPositionModule(c, m) THEN @ ELSE Append(@, m)]
  /\ ConvertibleUnit(newUnit, positionMultiplier)
  /\ externalUnit' = [externalUnit EXCEPT
                       ![c][m] = ConvertRealToVirtualUnit(newUnit, positionMultiplier)]
  /\ externalData' = [externalData EXCEPT ![c][m] = data]
  /\ UNCHANGED <<virtualUnit, positionMultiplier>>

\* A close that looks at the module count alone: it unlists the component
\* while its default position is still open.
CloseExternalIgnoringDefault(c, m) ==
  /\ GetExternalPositionRealUnit(c, m) # 0
  /\ IsExternalPositionModule(c, m)
  /\ components' = IF Len(externalPositionModules[c]) = 1
                   THEN RemoveStorage(components, c) ELSE components
  /\ externalPositionModules' =
       [externalPositionModules EXCEPT ![c] = RemoveStorage(@, m)]
  /\ externalUnit' = [externalUnit EXCEPT ![c][m] = 0]
  /\ externalData' = [externalData EXCEPT ![c][m] = NoData]
  /\ UNCHANGED <<virtualUnit, positionMultiplier>>

\* A close that unlists the module but leaves the data of the position.
CloseExternalKeepingData(c, m) ==
  /\ GetExternalPositionRealUnit(c, m) # 0
  /\ LET last == GetDefaultPositionRealUnit(c) = 0
                 /\ Len(externalPositionModules[c]) = 1
     IN  components' = IF last THEN RemoveStorage(components, c) ELSE components
  /\ externalPositionModules' =
       [externalPositionModules EXCEPT ![c] = RemoveStorage(@, m)]
  /\ externalUnit' = [externalUnit EXCEPT ![c][m] = 0]
  /\ UNCHANGED <<virtualUnit, externalData, positionMultiplier>>

\* _newUnit = 0 with a position to close: the component goes with its last
\* position.  removeStorage reverts on what is not listed.
CloseExternalPosition(c, m) ==
  /\ GetExternalPositionRealUnit(c, m) # 0
  /\ LET last == GetDefaultPositionRealUnit(c) = 0
                 /\ Len(externalPositionModules[c]) = 1
     IN  /\ last => externalPositionModules[c][1] = m /\ IsComponent(c)
         /\ components' = IF last THEN RemoveStorage(components, c)
                          ELSE components
  /\ IsExternalPositionModule(c, m)
  /\ externalPositionModules' =
       [externalPositionModules EXCEPT ![c] = RemoveStorage(@, m)]
  /\ externalUnit' = [externalUnit EXCEPT ![c][m] = 0]
  /\ externalData' = [externalData EXCEPT ![c][m] = NoData]
  /\ UNCHANGED <<virtualUnit, positionMultiplier>>

\* _newUnit = 0 with no position: nothing happens.
CloseNothing(c, m) ==
  /\ GetExternalPositionRealUnit(c, m) = 0
  /\ UNCHANGED positionVars

EditExternalPosition(c, m, newUnit, data) ==
  \/ SetExternalPosition(c, m, newUnit, data)
  \/ newUnit = 0 /\ data = NoData
       /\ (CloseExternalPosition(c, m) \/ CloseNothing(c, m))

-----------------------------------------------------------------------------
(* editPositionMultiplier: lowered by StreamingFeeModule and by a NAV      *)
(* issue, raised by a NAV redemption.                                      *)

\* The virtual units _getPositionsAbsMinimumVirtualUnit runs over.
DefaultMagnitudes == {virtualUnit[c] : c \in Elements(components)} \ {0}

PositionMagnitudes ==
  (DefaultMagnitudes \cup
     UNION {{Magnitude(externalUnit[c][m]) : m \in Elements(externalPositionModules[c])}
              : c \in Elements(components)})
  \ {0}

\* The validation that forgets the external positions.
DefaultsSurvive(newMultiplier) ==
  /\ DefaultMagnitudes # {}
  /\ \A unit \in DefaultMagnitudes : ConservativePreciseMul(unit, newMultiplier) > 0

\* Without any position the minimum stays 2^256 - 1, which toInt256 refuses.
\* The product grows with the unit, so the smallest one decides for all.
ValidateNewMultiplier(newMultiplier) ==
  /\ PositionMagnitudes # {}
  /\ \A unit \in PositionMagnitudes : ConservativePreciseMul(unit, newMultiplier) > 0

EditMultiplierUnchecked(newMultiplier) ==
  /\ positionMultiplier' = newMultiplier
  /\ UNCHANGED <<components, virtualUnit, externalPositionModules,
                 externalUnit, externalData>>

EditPositionMultiplier(newMultiplier) ==
  /\ ValidateNewMultiplier(newMultiplier)
  /\ positionMultiplier' = newMultiplier
  /\ UNCHANGED <<components, virtualUnit, externalPositionModules,
                 externalUnit, externalData>>

-----------------------------------------------------------------------------
Next ==
  \/ \E c \in Component, u \in DefaultUnit : EditDefaultPosition(c, u)
  \/ \E c \in Component, m \in PositionModule, w \in ExternalWrite :
       EditExternalPosition(c, m, w[1], w[2])
  \/ \E newMultiplier \in Multiplier : EditPositionMultiplier(newMultiplier)

Spec == Init /\ [][Next]_positionVars

-----------------------------------------------------------------------------
(* Properties.                                                             *)

\* Types.  A default position is never negative (toUint256 in
\* _getPositionsAbsMinimumVirtualUnit would revert on it), and the multiplier
\* stays positive: a multiplier of zero would make every conversion revert.
TypeOK ==
  /\ components \in Seq(Component)
  /\ virtualUnit \in [Component -> Nat]
  /\ externalPositionModules \in [Component -> Seq(PositionModule)]
  /\ externalUnit \in [Component -> [PositionModule -> Int]]
  /\ externalData \in [Component -> [PositionModule -> Data]]
  /\ positionMultiplier \in Nat \ {0}

\* The component list and the lists of external modules name every open
\* position exactly once, and a closed position leaves nothing behind: no
\* listed module without units, no data of an earlier position that a new
\* one would inherit.
PositionsListed ==
  /\ ~HasDuplicate(components)
  /\ \A c \in Component :
       /\ IsComponent(c) <=> virtualUnit[c] # 0 \/ HasExternalPosition(c)
       /\ ~HasDuplicate(externalPositionModules[c])
       /\ \A m \in PositionModule :
            /\ IsExternalPositionModule(c, m) <=> externalUnit[c][m] # 0
            /\ ~IsExternalPositionModule(c, m) => externalData[c][m] = NoData

\* No position is worth nothing: whatever fee inflation did to the
\* multiplier, an open position has a real unit of the sign of its virtual
\* unit.  The libraries decide by real units what is open, so a position that
\* rounded to zero would be listed twice or closed into the wrong list.
PositionsVisible ==
  \A c \in Component :
    /\ virtualUnit[c] > 0 => GetDefaultPositionRealUnit(c) > 0
    /\ \A m \in PositionModule :
         /\ externalUnit[c][m] > 0 => GetExternalPositionRealUnit(c, m) > 0
         /\ externalUnit[c][m] < 0 => GetExternalPositionRealUnit(c, m) < 0

\* The book of real units that readers of the SetToken see.
RealBook ==
  [c \in Component |->
     [h \in PositionModule \cup {Default} |->
        IF h = Default THEN GetDefaultPositionRealUnit(c)
                       ELSE GetExternalPositionRealUnit(c, h)]]

Book == INSTANCE PositionBook WITH
  Holder <- PositionModule \cup {Default},
  Unit   <- DefaultUnit \cup {w[1] : w \in ExternalWrite},
  book   <- RealBook,
  listed <- Elements(components)

\* Every edit the libraries make implements a write of one entry of the book,
\* every multiplier edit a rescaling: one module's edit never disturbs what
\* another module or another component records, and the component list is
\* the list of components with an entry (Position.sol, SetToken.sol).
ImplementsBook == Book!Spec
==============================================================================
