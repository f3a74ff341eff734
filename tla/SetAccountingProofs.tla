------------------------- MODULE SetAccountingProofs -------------------------
(***************************************************************************)
(* SetAccounting is type correct, keeps its component list consistent and  *)
(* bounds what rounding can cost a Set, for every scale, every set of      *)
(* components and every bound.                                             *)
(*                                                                         *)
(* LossBounded speaks of real units, which are rounded down each time the  *)
(* multiplier moves, and is not inductive.  ClaimsBacked, its unrounded    *)
(* form on virtual units, is: a fee accrual never increases the product    *)
(* virtualUnit * positionMultiplier * totalSupply.                         *)
(*                                                                         *)
(* Rebalancing with GeneralIndex keeps all of this, and the traders' list, *)
(* kept next to a mapping, always suffices to clear it.                    *)
(***************************************************************************)
EXTENDS GeneralIndex, LibraryProofs

\* What the unrounded positions claim is covered by the balance and one base
\* unit for every Set ever issued.
ClaimsBacked ==
  \A c \in Component :
    virtualUnit[c] * positionMultiplier * totalSupply
      <= (balance[c] * PreciseUnit + issued) * PreciseUnit

IsPositions(p) ==
  p.components \in SUBSET Component /\ p.units \in [Component -> Nat]

TrackedIn(p) ==
  \A c \in Component :
    /\ c \in p.components <=> p.units[c] > 0
    /\ c \in p.components <=> RealUnit(p, c) > 0

-----------------------------------------------------------------------------
(* Facts about position edits.                                             *)

\* The multiplier is a positive fraction of the scale.
LEMMA MultiplierType ==
  ASSUME TypeOK
  PROVE  /\ positionMultiplier \in Nat \ {0}
         /\ positionMultiplier <= PreciseUnit
         /\ PreciseUnit \in Nat \ {0}
  BY PreciseUnitAssumption DEF TypeOK

\* The stored positions are well-formed.
LEMMA CurrentPositions ==
  ASSUME TypeOK
  PROVE  IsPositions(Positions)
  BY DEF TypeOK, IsPositions, Positions

\* A real unit is the rounded-down claim of its virtual unit.
LEMMA RealUnitType ==
  ASSUME TypeOK, NEW p, IsPositions(p), NEW c \in Component
  PROVE  /\ p.units[c] \in Nat
         /\ RealUnit(p, c) \in Nat
         /\ PreciseUnit * RealUnit(p, c) <= p.units[c] * positionMultiplier
         /\ p.units[c] * positionMultiplier
              < PreciseUnit * RealUnit(p, c) + PreciseUnit
<1>1. p.units[c] \in Nat
  BY DEF IsPositions
<1> QED BY <1>1, MultiplierType, VirtualToRealBounds DEF RealUnit

\* An edit stores a unit that claims no more than asked, and touches no
\* other component.
LEMMA EditPositions ==
  ASSUME TypeOK, NEW p, IsPositions(p), NEW c \in Component, NEW u \in Nat
  PROVE  LET q == EditDefaultPosition(p, c, u)
         IN  /\ IsPositions(q)
             /\ q.units[c] * positionMultiplier <= u * PreciseUnit
             /\ RealUnit(q, c) <= u
             /\ \A d \in Component \ {c} :
                  q.units[d] = p.units[d] /\ RealUnit(q, d) = RealUnit(p, d)
<1> DEFINE q == EditDefaultPosition(p, c, u)
           v == ConvertRealToVirtualUnit(u, positionMultiplier)
<1>1. /\ v \in Nat
      /\ v * positionMultiplier <= u * PreciseUnit
  BY MultiplierType, RealToVirtualBounds
<1>2. q.units = [p.units EXCEPT ![c] = v]
  BY DEF EditDefaultPosition
<1>3. q.components \in SUBSET Component
  BY DEF EditDefaultPosition, IsPositions
<1> HIDE DEF q, v
<1>4. q.units \in [Component -> Nat] /\ q.units[c] = v
  BY <1>1, <1>2 DEF IsPositions
<1>5. IsPositions(q)
  BY <1>3, <1>4 DEF IsPositions
<1>6. RealUnit(q, c) <= u
  <2>1. /\ RealUnit(q, c) \in Nat
        /\ PreciseUnit * RealUnit(q, c) <= v * positionMultiplier
    BY <1>4, <1>5, RealUnitType
  <2>2. PreciseUnit * RealUnit(q, c) <= PreciseUnit * u
    BY <1>1, <2>1, MultiplierType
  <2> QED BY <2>1, <2>2, MultiplierType
<1>7. \A d \in Component \ {c} :
         q.units[d] = p.units[d] /\ RealUnit(q, d) = RealUnit(p, d)
  BY <1>2 DEF RealUnit, IsPositions
<1> QED BY <1>1, <1>4, <1>5, <1>6, <1>7 DEF q

\* An accepted edit keeps list and units consistent: the two conversion
\* checks make the stored unit readable back as a positive one.
LEMMA EditTracks ==
  ASSUME TypeOK, NEW p, IsPositions(p), TrackedIn(p),
         NEW c \in Component, NEW u \in Nat, EditAccepted(p, c, u)
  PROVE  TrackedIn(EditDefaultPosition(p, c, u))
<1> DEFINE q == EditDefaultPosition(p, c, u)
           v == ConvertRealToVirtualUnit(u, positionMultiplier)
<1>1. /\ IsPositions(q)
      /\ \A d \in Component \ {c} :
           q.units[d] = p.units[d] /\ RealUnit(q, d) = RealUnit(p, d)
  BY EditPositions
<1>2. /\ v \in Nat
      /\ v * positionMultiplier <= u * PreciseUnit
  BY MultiplierType, RealToVirtualBounds
<1>3. q.units = [p.units EXCEPT ![c] = v]
  BY DEF EditDefaultPosition
<1>4. q.units[c] = v /\ RealUnit(q, c) = ConvertVirtualToRealUnit(v, positionMultiplier)
  BY <1>3 DEF IsPositions, RealUnit
<1>5. q.components = IF RealUnit(p, c) = 0 /\ u > 0 THEN p.components \cup {c}
                     ELSE IF RealUnit(p, c) > 0 /\ u = 0
                       THEN p.components \ {c} ELSE p.components
  BY DEF EditDefaultPosition
<1>6. RealUnit(p, c) \in Nat /\ RealUnit(q, c) \in Nat
  BY <1>1, RealUnitType
<1>7. u > 0 => v > 0 /\ RealUnit(q, c) > 0
  BY <1>2, <1>4, <1>6 DEF EditAccepted, ConvertibleUnit
<1>8. u = 0 => v = 0 /\ RealUnit(q, c) = 0
  <2> HAVE u = 0
  <2>1. v * positionMultiplier <= 0
    BY <1>2, MultiplierType
  <2>2. v = 0
    BY <1>2, <2>1, MultiplierType
  <2>3. PreciseUnit * RealUnit(q, c) <= v * positionMultiplier
    BY <1>1, <1>4, RealUnitType
  <2>4. RealUnit(q, c) = 0
    BY <1>6, <2>2, <2>3, MultiplierType
  <2> QED BY <2>2, <2>4
<1> HIDE DEF q, v
<1>9. c \in q.components <=> u > 0
  BY <1>5, <1>6 DEF TrackedIn
<1>10. ASSUME NEW d \in Component
       PROVE  /\ d \in q.components <=> q.units[d] > 0
              /\ d \in q.components <=> RealUnit(q, d) > 0
  <2>1. CASE d = c
    BY <2>1, <1>2, <1>4, <1>6, <1>7, <1>8, <1>9
  <2>2. CASE d # c
    <3>1. d \in q.components <=> d \in p.components
      BY <2>2, <1>5
    <3> QED BY <2>2, <3>1, <1>1 DEF TrackedIn
  <2> QED BY <2>1, <2>2
<1> QED BY <1>10 DEF TrackedIn, q

\* The unit that calculateDefaultEditPositionUnit derives from a balance is
\* a natural number that the balance covers for the whole supply.
LEMMA CalculatedUnitBacked ==
  ASSUME TypeOK, NEW p, IsPositions(p), NEW c \in Component,
         NEW pre \in Nat, NEW cur \in Nat,
         CalculateAndEditAccepted(p, c, pre, cur)
  PROVE  LET u == CalculateDefaultEditPositionUnit(p, c, pre, cur)
         IN  u \in Nat /\ u * totalSupply <= cur * PreciseUnit
<1> DEFINE u == CalculateDefaultEditPositionUnit(p, c, pre, cur)
<1>1. CASE cur = 0
  <2>1. u = 0
    BY <1>1 DEF CalculateDefaultEditPositionUnit
  <2> QED BY <1>1, <2>1, MultiplierType DEF TypeOK
<1>2. CASE cur # 0
  <2> DEFINE a == AirdroppedAmount(p, c, pre)
  <2>1. /\ PreciseMul(RealUnit(p, c), totalSupply) \in Nat
    BY RealUnitType, PreciseMulBounds DEF TypeOK
  <2>2. a \in Int
    BY <2>1 DEF AirdroppedAmount
  <2>3. a >= 0 /\ cur >= a /\ totalSupply > 0
    BY <1>2 DEF CalculateAndEditAccepted
  <2> HIDE DEF a
  <2>4. cur - a \in Nat /\ totalSupply \in Nat \ {0}
    BY <2>2, <2>3 DEF TypeOK
  <2>5. u = PreciseDiv(cur - a, totalSupply)
    BY <1>2 DEF CalculateDefaultEditPositionUnit, a
  <2>6. u \in Nat /\ totalSupply * u <= (cur - a) * PreciseUnit
    BY <2>4, <2>5, PreciseDivBounds
  <2> HIDE DEF u
  <2>7. (cur - a) * PreciseUnit <= cur * PreciseUnit
    BY <2>2, <2>3, <2>4, MultiplierType
  <2>8. u * totalSupply <= cur * PreciseUnit
    BY <2>2, <2>4, <2>6, <2>7, MultiplierType
  <2> QED BY <2>6, <2>8 DEF u
<1> QED BY <1>1, <1>2

\* An edit to a unit the balance covers leaves the claim and the real unit
\* covered, whatever they were before.
LEMMA EditBacked ==
  ASSUME TypeOK, NEW p, IsPositions(p), NEW c \in Component, NEW u \in Nat,
         NEW cur \in Nat, u * totalSupply <= cur * PreciseUnit
  PROVE  LET q == EditDefaultPosition(p, c, u)
         IN  /\ q.units[c] * positionMultiplier * totalSupply
                  <= cur * PreciseUnit * PreciseUnit
             /\ RealUnit(q, c) * totalSupply <= cur * PreciseUnit
<1> DEFINE q == EditDefaultPosition(p, c, u)
           x == q.units[c] * positionMultiplier
           r == RealUnit(q, c)
<1>1. IsPositions(q) /\ x <= u * PreciseUnit /\ r <= u
  BY EditPositions
<1>2. q.units[c] \in Nat /\ r \in Nat
  BY <1>1, RealUnitType
<1>3. x \in Nat /\ totalSupply \in Nat
  BY <1>2, MultiplierType DEF TypeOK
<1> HIDE DEF x, r, q
<1>4. x * totalSupply <= (u * PreciseUnit) * totalSupply
  BY <1>1, <1>3, MultiplierType
<1>5. (u * PreciseUnit) * totalSupply = (u * totalSupply) * PreciseUnit
  BY <1>3, MultiplierType
<1>6. (u * totalSupply) * PreciseUnit <= (cur * PreciseUnit) * PreciseUnit
  BY <1>3, MultiplierType
<1>7. r * totalSupply <= u * totalSupply
  BY <1>1, <1>2, <1>3
<1>8. x * totalSupply <= cur * PreciseUnit * PreciseUnit
  BY <1>3, <1>4, <1>5, <1>6, MultiplierType
<1>9. r * totalSupply <= cur * PreciseUnit
  BY <1>2, <1>3, <1>7, MultiplierType
<1> QED BY <1>8, <1>9 DEF x, r, q

-----------------------------------------------------------------------------
(* What a transaction that edits positions does to the components it       *)
(* touches: an absorption, an adjustment and a trade are all of this form. *)

NewPositions == [components |-> components', units |-> virtualUnit']

EditEffect(edited) ==
  /\ UNCHANGED <<positionMultiplier, totalSupply, issued>>
  /\ IsPositions(NewPositions)
  /\ TrackedIn(Positions) => TrackedIn(NewPositions)
  /\ balance' \in [Component -> Nat]
  /\ \A c \in edited :
       /\ virtualUnit'[c] * positionMultiplier * totalSupply
            <= balance'[c] * PreciseUnit * PreciseUnit
       /\ RealUnit(NewPositions, c) * totalSupply
            <= balance'[c] * PreciseUnit
  /\ \A c \in Component \ edited :
       /\ virtualUnit'[c] = virtualUnit[c]
       /\ balance'[c] = balance[c]

\* One accepted edit to a unit that the new balance covers.
LEMMA SingleEdit ==
  ASSUME TypeOK, NEW c \in Component, NEW u \in Nat,
         EditAccepted(Positions, c, u),
         SetPositions(EditDefaultPosition(Positions, c, u)),
         balance' \in [Component -> Nat],
         \A d \in Component \ {c} : balance'[d] = balance[d],
         UNCHANGED <<positionMultiplier, totalSupply, issued>>,
         u * totalSupply <= balance'[c] * PreciseUnit
  PROVE  EditEffect({c})
<1> DEFINE q == EditDefaultPosition(Positions, c, u)
<1>1. IsPositions(Positions)
  BY CurrentPositions
<1>2. /\ IsPositions(q)
      /\ \A d \in Component \ {c} : q.units[d] = virtualUnit[d]
  <2>1. Positions.units = virtualUnit
    BY DEF Positions
  <2> QED BY <1>1, <2>1, EditPositions
<1>3. NewPositions = [components |-> q.components, units |-> q.units]
  BY DEF SetPositions, NewPositions
<1>4. q = [components |-> q.components, units |-> q.units]
  BY DEF EditDefaultPosition
<1>5. NewPositions = q /\ virtualUnit' = q.units
  BY <1>3, <1>4 DEF SetPositions
<1>6. TrackedIn(Positions) => TrackedIn(q)
  BY <1>1, EditTracks
<1>7. balance'[c] \in Nat
  OBVIOUS
<1>8. /\ q.units[c] * positionMultiplier * totalSupply
           <= balance'[c] * PreciseUnit * PreciseUnit
      /\ RealUnit(q, c) * totalSupply <= balance'[c] * PreciseUnit
  BY <1>1, <1>7, EditBacked
<1> HIDE DEF q
<1> QED BY <1>2, <1>5, <1>6, <1>8 DEF EditEffect

\* absorb sets a unit that the balance left after its fees covers.
LEMMA AbsorbEffect ==
  ASSUME TypeOK, NEW c \in Component, NEW f \in FeeRates, NEW pf \in FeeRates,
         Absorb(c, f, pf)
  PROVE  EditEffect({c})
<1> DEFINE air  == AirdroppedAmount(Positions, c, balance[c])
           fees == AirdropFees(c, f)
           u    == PostAirdropUnit(c, f)
           keep == balance[c] - fees
<1>1. balance[c] \in Nat /\ totalSupply \in Nat \ {0} /\ f \in Nat
  BY AccountingAssumption DEF TypeOK, Absorb
<1>2. PreciseMul(RealUnit(Positions, c), totalSupply) \in Nat
  BY <1>1, CurrentPositions, RealUnitType, PreciseMulBounds
<1>3. air \in Nat /\ air <= balance[c] /\ f <= PreciseUnit
  BY <1>1, <1>2 DEF Absorb, AirdroppedAmount
<1>4. fees = PreciseMul(air, f)
  BY DEF AirdropFees
<1> HIDE DEF air, fees
<1>5. fees \in Nat /\ PreciseUnit * fees <= air * f
  BY <1>1, <1>3, <1>4, PreciseMulBounds
<1>6. air * f <= air * PreciseUnit
  BY <1>1, <1>3, MultiplierType
<1>7. PreciseUnit * fees <= PreciseUnit * air
  BY <1>1, <1>3, <1>5, <1>6, MultiplierType
<1>8. fees <= air
  BY <1>3, <1>5, <1>7, MultiplierType
<1>9. keep \in Nat
  BY <1>1, <1>3, <1>5, <1>8
<1>10. u = PreciseDiv(keep, totalSupply)
  BY DEF PostAirdropUnit, fees
<1>11. balance' = [balance EXCEPT ![c] = keep]
  BY DEF Absorb, fees
<1> HIDE DEF keep
<1>12. u \in Nat /\ totalSupply * u <= keep * PreciseUnit
  BY <1>1, <1>9, <1>10, PreciseDivBounds
<1>13. balance' \in [Component -> Nat] /\ balance'[c] = keep
       /\ \A d \in Component \ {c} : balance'[d] = balance[d]
  BY <1>9, <1>11 DEF TypeOK
<1>14. EditAccepted(Positions, c, u)
       /\ SetPositions(EditDefaultPosition(Positions, c, u))
       /\ UNCHANGED <<positionMultiplier, totalSupply, issued>>
  BY DEF Absorb
<1> HIDE DEF u
<1>15. u * totalSupply <= balance'[c] * PreciseUnit
  BY <1>1, <1>12, <1>13
<1> QED BY <1>12, <1>13, <1>14, <1>15, SingleEdit

\* adjustDefaultPositionUnits sets a unit that the balance covers.
LEMMA AdjustEffect ==
  ASSUME TypeOK, NEW c \in Component, NEW req \in RequestedUnits,
         AdjustDefaultPositionUnit(c, req)
  PROVE  EditEffect({c})
<1> DEFINE u == AdjustedUnit(c, req)
           calc == CalculatedUnit(c)
<1>1. balance[c] \in Nat /\ totalSupply \in Nat \ {0} /\ req \in Nat
  BY AccountingAssumption DEF TypeOK, AdjustDefaultPositionUnit
<1>2. calc \in Nat /\ totalSupply * calc <= balance[c] * PreciseUnit
  BY <1>1, PreciseDivBounds DEF CalculatedUnit
<1>3. u \in Nat /\ u <= calc
  BY <1>1, <1>2 DEF AdjustedUnit, AdjustDefaultPositionUnit, AdjustmentAccepted
<1>4. /\ EditAccepted(Positions, c, u)
      /\ SetPositions(EditDefaultPosition(Positions, c, u))
      /\ UNCHANGED <<positionMultiplier, totalSupply, issued, balance>>
  BY DEF AdjustDefaultPositionUnit
<1> HIDE DEF u, calc
<1>5. u * totalSupply <= totalSupply * calc
  BY <1>1, <1>2, <1>3
<1>6. u * totalSupply <= balance'[c] * PreciseUnit
  BY <1>1, <1>2, <1>3, <1>4, <1>5, MultiplierType
<1>7. balance' \in [Component -> Nat]
  BY <1>4 DEF TypeOK
<1> QED BY <1>3, <1>4, <1>6, <1>7, SingleEdit

\* The positions written after an exchange, from the balances it and the fee
\* leave: the send position is edited, then the receive position; when both
\* are the same token the second edit starts from the first one's result.
LEMMA ExchangeEffect ==
  ASSUME TypeOK, NEW c \in Component, NEW d \in Component,
         NEW final \in [Component -> Nat],
         \A e \in Component \ {c, d} : final[e] = balance[e],
         UpdateAccepted(c, d, final),
         SetPositions(TradedPositions(c, d, final)),
         balance' = final,
         UNCHANGED <<positionMultiplier, totalSupply, issued>>
  PROVE  EditEffect({c, d})
<1> DEFINE p1 == CalculateAndEditDefaultPosition(
                   Positions, c, balance[c], final[c])
           p2 == CalculateAndEditDefaultPosition(
                   p1, d, balance[d], final[d])
           u1 == CalculateDefaultEditPositionUnit(
                   Positions, c, balance[c], final[c])
           u2 == CalculateDefaultEditPositionUnit(p1, d, balance[d], final[d])
<1>1. totalSupply \in Nat /\ balance \in [Component -> Nat]
  BY DEF TypeOK
<1>2. /\ CalculateAndEditAccepted(Positions, c, balance[c], final[c])
      /\ CalculateAndEditAccepted(p1, d, balance[d], final[d])
      /\ SetPositions(p2)
  BY DEF UpdateAccepted, TradedPositions
<1>3. /\ p1 = EditDefaultPosition(Positions, c, u1)
      /\ p2 = EditDefaultPosition(p1, d, u2)
  BY DEF CalculateAndEditDefaultPosition
<1>4. /\ EditAccepted(Positions, c, u1)
      /\ EditAccepted(p1, d, u2)
  BY <1>2 DEF CalculateAndEditAccepted
<1>5. /\ IsPositions(Positions)
      /\ u1 \in Nat /\ u1 * totalSupply <= final[c] * PreciseUnit
  BY <1>1, <1>2, CurrentPositions, CalculatedUnitBacked
<1> HIDE DEF u1, p1
<1>6. /\ IsPositions(p1)
      /\ \A e \in Component \ {c} :
           p1.units[e] = virtualUnit[e]
      /\ TrackedIn(Positions) => TrackedIn(p1)
      /\ p1.units[c] * positionMultiplier * totalSupply
           <= final[c] * PreciseUnit * PreciseUnit
      /\ RealUnit(p1, c) * totalSupply <= final[c] * PreciseUnit
  <2>1. \A e \in Component : Positions.units[e] = virtualUnit[e]
    BY DEF Positions
  <2>2. final[c] \in Nat
    OBVIOUS
  <2> QED BY <1>3, <1>4, <1>5, <2>1, <2>2, EditPositions, EditTracks, EditBacked
<1>7. u2 \in Nat /\ u2 * totalSupply <= final[d] * PreciseUnit
  BY <1>1, <1>2, <1>6, CalculatedUnitBacked
<1> HIDE DEF u2, p2
<1>8. /\ IsPositions(p2)
      /\ \A e \in Component \ {d} :
           p2.units[e] = p1.units[e] /\ RealUnit(p2, e) = RealUnit(p1, e)
      /\ TrackedIn(p1) => TrackedIn(p2)
      /\ p2.units[d] * positionMultiplier * totalSupply
           <= final[d] * PreciseUnit * PreciseUnit
      /\ RealUnit(p2, d) * totalSupply <= final[d] * PreciseUnit
  <2>1. final[d] \in Nat
    OBVIOUS
  <2>2. /\ IsPositions(p2)
        /\ \A e \in Component \ {d} :
             p2.units[e] = p1.units[e] /\ RealUnit(p2, e) = RealUnit(p1, e)
    BY <1>3, <1>4, <1>6, <1>7, EditPositions
  <2>3. TrackedIn(p1) => TrackedIn(p2)
    BY <1>3, <1>4, <1>6, <1>7, EditTracks
  <2>4. /\ p2.units[d] * positionMultiplier * totalSupply
             <= final[d] * PreciseUnit * PreciseUnit
        /\ RealUnit(p2, d) * totalSupply <= final[d] * PreciseUnit
    BY <1>3, <1>4, <1>6, <1>7, <2>1, EditBacked
  <2> QED BY <2>2, <2>3, <2>4
<1>9. NewPositions = p2 /\ virtualUnit' = p2.units
  <2>1. p2 = [components |-> p2.components, units |-> p2.units]
    BY <1>3 DEF EditDefaultPosition
  <2> QED BY <2>1, <1>2 DEF SetPositions, NewPositions
<1>10. \A e \in {c, d} :
         /\ virtualUnit'[e] * positionMultiplier * totalSupply
              <= balance'[e] * PreciseUnit * PreciseUnit
         /\ RealUnit(NewPositions, e) * totalSupply
              <= balance'[e] * PreciseUnit
  <2>1. CASE c = d
    BY <2>1, <1>8, <1>9
  <2>2. CASE c # d
    BY <2>2, <1>6, <1>8, <1>9
  <2> QED BY <2>1, <2>2
<1>11. \A e \in Component \ {c, d} :
         virtualUnit'[e] = virtualUnit[e] /\ balance'[e] = balance[e]
  BY <1>6, <1>8, <1>9
<1> QED BY <1>6, <1>8, <1>9, <1>10, <1>11 DEF EditEffect

\* A trade is an exchange whose fee is paid in the received token.
LEMMA TradeEffect ==
  ASSUME TypeOK, NEW c \in Component, NEW d \in Component,
         NEW u \in TradeUnits, NEW m \in TradeUnits,
         NEW t \in Receivable, NEW r \in Receivable, NEW f \in FeeRates,
         Trade(c, u, d, m, t, r, f)
  PROVE  EditEffect({c, d})
<1> DEFINE post  == AfterExchange(c, t, d, r)
           fee   == PreciseMul(Exchanged(post, d), f)
           final == [post EXCEPT ![d] = @ - fee]
<1>1. /\ t \in Nat /\ r \in Nat /\ f \in Nat /\ m \in Nat
      /\ totalSupply \in Nat
      /\ balance \in [Component -> Nat]
  BY AccountingAssumption DEF TypeOK
<1>2. /\ t <= balance[c]
      /\ Exchanged(post, d) >= PreciseMul(totalSupply, m)
      /\ fee <= post[d]
      /\ UpdateAccepted(c, d, final)
      /\ balance' = final
      /\ SetPositions(TradedPositions(c, d, final))
      /\ UNCHANGED <<positionMultiplier, totalSupply, issued>>
  BY DEF Trade
<1>3. /\ post \in [Component -> Nat]
      /\ \A e \in Component \ {c, d} : post[e] = balance[e]
  BY <1>1, <1>2 DEF AfterExchange
<1>4. fee \in Nat
  <2>1. PreciseMul(totalSupply, m) \in Nat
    BY <1>1, PreciseMulBounds
  <2>2. Exchanged(post, d) \in Nat
    BY <1>1, <1>2, <1>3, <2>1 DEF Exchanged
  <2> QED BY <2>2, <1>1, PreciseMulBounds
<1> HIDE DEF fee, post
<1>5. /\ final \in [Component -> Nat]
      /\ \A e \in Component \ {c, d} : final[e] = balance[e]
  BY <1>2, <1>3, <1>4
<1> HIDE DEF final
<1> QED BY <1>2, <1>5, ExchangeEffect

-----------------------------------------------------------------------------
(* Type correctness.                                                       *)

\* A position edit leaves well-typed positions and balances.
LEMMA EffectTypes ==
  ASSUME NEW edited, EditEffect(edited)
  PROVE  /\ components' \in SUBSET Component
         /\ virtualUnit' \in [Component -> Nat]
         /\ balance' \in [Component -> Nat]
         /\ positionMultiplier' = positionMultiplier
         /\ totalSupply' = totalSupply
         /\ issued' = issued
  BY DEF EditEffect, IsPositions, NewPositions

\* Charging the streaming fee keeps the multiplier positive and at most what
\* it was; the supply grows by a natural number that dilutes the claims no
\* less than the multiplier shrinks them.
LEMMA ChargeEffect ==
  ASSUME TypeOK, NEW pf \in FeeRates, ChargeStreamingFee(pf)
  PROVE  /\ positionMultiplier' \in 1 .. PreciseUnit
         /\ positionMultiplier' <= positionMultiplier
         /\ totalSupply' \in Nat
         /\ positionMultiplier' * totalSupply'
              <= positionMultiplier * totalSupply
         /\ positionMultiplier' = positionMultiplier
              => totalSupply' = totalSupply
<1>1. CASE streamingFee > 0
  <2> DEFINE fee == CalculateStreamingFee
             q   == FeeQuantity(fee)
             m   == ReducedMultiplier(fee)
             k   == PreciseUnit - fee
  <2>1. fee \in Nat /\ fee < PreciseUnit
    <3>1. elapsed * streamingFee \in Nat /\ OneYear \in Nat \ {0}
      BY AccountingAssumption DEF TypeOK
    <3>2. fee \in Nat
      BY <3>1, DivBounds DEF CalculateStreamingFee
    <3> QED BY <1>1, <3>2 DEF ChargeStreamingFee
  <2>2. /\ totalSupply' = totalSupply + q
        /\ positionMultiplier' = m
        /\ ValidNewMultiplier(m)
    BY <1>1 DEF ChargeStreamingFee
  <2>3. /\ positionMultiplier \in Nat \ {0}
        /\ positionMultiplier <= PreciseUnit
        /\ totalSupply \in Nat
    BY MultiplierType DEF TypeOK
  <2> HIDE DEF fee
  <2>4. k \in Nat \ {0} /\ fee = PreciseUnit - k /\ k <= PreciseUnit
    BY <2>1, MultiplierType
  <2>5. q \in Nat /\ k * q <= fee * totalSupply
    <3>1. fee * totalSupply \in Nat
      BY <2>1, <2>3
    <3> QED BY <2>4, <3>1, DivBounds DEF FeeQuantity
  <2>6. m \in Nat /\ PreciseUnit * m <= positionMultiplier * k
    BY <2>3, <2>4, PreciseMulBounds DEF ReducedMultiplier
  <2>7. m # 0
    <3>1. PICK c \in components :
            ConvertVirtualToRealUnit(virtualUnit[c], m) > 0
      BY <2>2 DEF ValidNewMultiplier
    <3>2. virtualUnit[c] \in Nat
      BY <3>1 DEF TypeOK
    <3>3. /\ ConvertVirtualToRealUnit(virtualUnit[c], m) \in Nat
          /\ PreciseUnit * ConvertVirtualToRealUnit(virtualUnit[c], m)
               <= virtualUnit[c] * m
      BY <2>6, <3>2, VirtualToRealBounds
    <3>4. PreciseUnit * ConvertVirtualToRealUnit(virtualUnit[c], m) > 0
      BY <3>1, <3>3, MultiplierType
    <3> QED BY <3>2, <3>3, <3>4, MultiplierType
  <2> HIDE DEF q, m, k
  <2>8. m <= positionMultiplier
    <3>1. positionMultiplier * k <= positionMultiplier * PreciseUnit
      BY <2>3, <2>4, MultiplierType
    <3>2. PreciseUnit * m <= PreciseUnit * positionMultiplier
      BY <2>3, <2>4, <2>6, <3>1, MultiplierType
    <3> QED BY <2>3, <2>6, <3>2, MultiplierType
  <2>9. m * (totalSupply + q) <= positionMultiplier * totalSupply
    <3> DEFINE S == totalSupply + q
    <3>1. S \in Nat
      BY <2>3, <2>5
    <3>2. k * S <= PreciseUnit * totalSupply
      <4>1. k * S = k * totalSupply + k * q
        BY <2>3, <2>4, <2>5
      <4>2. k * totalSupply + fee * totalSupply = (k + fee) * totalSupply
        BY <2>1, <2>3, <2>4
      <4>3. k + fee = PreciseUnit
        BY <2>1, <2>4, MultiplierType
      <4> QED BY <4>1, <4>2, <4>3, <2>1, <2>3, <2>4, <2>5
    <3> HIDE DEF S
    <3>3. (PreciseUnit * m) * S <= (positionMultiplier * k) * S
      BY <2>3, <2>4, <2>6, <3>1, MultiplierType
    <3>4. (positionMultiplier * k) * S = positionMultiplier * (k * S)
      BY <2>3, <2>4, <3>1
    <3>5. positionMultiplier * (k * S)
            <= positionMultiplier * (PreciseUnit * totalSupply)
      BY <2>3, <2>4, <3>1, <3>2, MultiplierType
    <3>6. PreciseUnit * (m * S)
            <= PreciseUnit * (positionMultiplier * totalSupply)
      BY <2>3, <2>4, <2>6, <3>1, <3>3, <3>4, <3>5, MultiplierType
    <3>7. m * S \in Nat /\ positionMultiplier * totalSupply \in Nat
      BY <2>3, <2>6, <3>1
    <3>8. m * S <= positionMultiplier * totalSupply
      BY <3>6, <3>7, MultiplierType
    <3> QED BY <3>8 DEF S
  <2>10. m = positionMultiplier => q = 0
    <3> HAVE m = positionMultiplier
    <3>1. positionMultiplier * PreciseUnit <= positionMultiplier * k
      BY <2>3, <2>4, <2>6, MultiplierType
    <3>2. PreciseUnit <= k
      BY <2>3, <2>4, <3>1, MultiplierType
    <3>3. fee = 0
      BY <2>1, <2>4, <3>2, MultiplierType
    <3>4. k * q <= 0
      BY <2>3, <2>4, <2>5, <3>3
    <3> QED BY <2>4, <2>5, <3>4
  <2> QED BY <2>2, <2>3, <2>5, <2>6, <2>7, <2>8, <2>9, <2>10, MultiplierType
<1>2. CASE ~(streamingFee > 0)
  <2>1. totalSupply' = totalSupply /\ positionMultiplier' = positionMultiplier
    BY <1>2 DEF ChargeStreamingFee
  <2> QED BY <2>1, MultiplierType DEF TypeOK
<1> QED BY <1>1, <1>2

\* A freshly created Set is well-typed.
LEMMA TypeInit == ASSUME Init PROVE TypeOK
<1>1. PICK units \in [Component -> InitialUnits] :
        virtualUnit = [c \in Component |->
                         IF c \in components THEN units[c] ELSE 0]
  BY DEF Init
<1>2. InitialUnits \subseteq Nat
  BY AccountingAssumption
<1>3. virtualUnit \in [Component -> Nat]
  BY <1>1, <1>2
<1>4. components \in SUBSET Component
  BY DEF Init
<1>5. /\ positionMultiplier = PreciseUnit
      /\ totalSupply = 0 /\ maxStreamingFee = 0 /\ streamingFee = 0
      /\ elapsed = 0 /\ issued = 0 /\ unaccrued = 0
      /\ paused = FALSE /\ streamingOn = FALSE
  BY DEF Init
<1>6. balance \in [Component -> Nat]
  BY DEF Init
<1>7. positionMultiplier \in 1 .. PreciseUnit
  BY <1>5, PreciseUnitAssumption
<1> QED BY <1>3, <1>4, <1>5, <1>6, <1>7 DEF TypeOK

\* Every operation keeps the types.
LEMMA TypeStep == ASSUME TypeOK, Next PROVE TypeOK'
<1>0. /\ PreciseUnit \in Nat \ {0}
      /\ positionMultiplier \in 1 .. PreciseUnit
      /\ totalSupply \in Nat
      /\ \A c \in Component : balance[c] \in Nat /\ DefaultRealUnit(c) \in Nat
  BY PreciseUnitAssumption, CurrentPositions, RealUnitType
     DEF TypeOK, DefaultRealUnit
<1>1. ASSUME NEW q \in Quantities, Issue(q) PROVE TypeOK'
  <2>1. q \in Nat
    BY AccountingAssumption
  <2>2. \A c \in Component : RequiredForIssue(c, q) \in Nat
    BY <1>0, <2>1, PreciseMulCeilBounds DEF RequiredForIssue
  <2>3. balance' \in [Component -> Nat]
    BY <1>0, <1>1, <2>2 DEF Issue
  <2> QED BY <1>1, <2>1, <2>3 DEF Issue, TypeOK, positionVars, streamingVars
<1>2. ASSUME NEW q \in Quantities, NEW f \in FeeRates, Redeem(q, f)
      PROVE  TypeOK'
  <2>1. q \in Nat
    BY AccountingAssumption
  <2>2. \A c \in Component : RedeemedFor(c, q) \in Nat
    BY <1>0, <2>1, PreciseMulBounds DEF RedeemedFor
  <2>3. balance' \in [Component -> Nat]
    BY <1>0, <1>2, <2>2 DEF Redeem
  <2>4. totalSupply' \in Nat
    BY <1>0, <1>2, <2>1 DEF Redeem
  <2> QED BY <1>2, <2>3, <2>4 DEF Redeem, TypeOK, positionVars, streamingVars
<1>3. ASSUME Pause \/ Unpause PROVE TypeOK'
  BY <1>3 DEF Pause, Unpause, TypeOK, positionVars, streamingVars
<1>4. ASSUME NEW c \in Component, NEW a \in Donations, Donate(c, a)
      PROVE  TypeOK'
  <2>1. a \in Nat
    BY AccountingAssumption
  <2>2. balance' \in [Component -> Nat]
    BY <1>4, <2>1 DEF Donate, TypeOK
  <2> QED BY <1>4, <2>2 DEF Donate, TypeOK, positionVars, streamingVars
<1>5. ASSUME NEW c \in Component, NEW f \in FeeRates, NEW pf \in FeeRates,
             Absorb(c, f, pf)
      PROVE  TypeOK'
  BY <1>5, AbsorbEffect, EffectTypes DEF Absorb, TypeOK, streamingVars
<1>6. ASSUME NEW c \in Component, NEW d \in Component, NEW u \in TradeUnits,
             NEW m \in TradeUnits, NEW t \in Receivable, NEW r \in Receivable,
             NEW f \in FeeRates, Trade(c, u, d, m, t, r, f)
      PROVE  TypeOK'
  <2>1. EditEffect({c, d})
    BY <1>6, TradeEffect
  <2>2. UNCHANGED <<paused, streamingVars, unaccrued>>
    BY <1>6 DEF Trade
  <2> QED BY <2>1, <2>2, EffectTypes DEF TypeOK, streamingVars
<1>7. ASSUME NEW c \in Component, NEW u \in RequestedUnits,
             AdjustDefaultPositionUnit(c, u)
      PROVE  TypeOK'
  BY <1>7, AdjustEffect, EffectTypes
     DEF AdjustDefaultPositionUnit, TypeOK, streamingVars
<1>8. ASSUME NEW mf \in StreamingRates, NEW f \in StreamingRates,
             InitializeStreaming(mf, f)
      PROVE  TypeOK'
  BY <1>8, AccountingAssumption DEF InitializeStreaming, TypeOK, positionVars
<1>9. ASSUME RemoveStreaming PROVE TypeOK'
  BY <1>9 DEF RemoveStreaming, TypeOK, positionVars
<1>10. ASSUME Tick PROVE TypeOK'
  BY <1>10 DEF Tick, TypeOK, positionVars
<1>11. ASSUME NEW pf \in FeeRates, AccrueFee(pf) PROVE TypeOK'
  BY <1>11, ChargeEffect DEF AccrueFee, TypeOK
<1>12. ASSUME NEW f \in StreamingRates, NEW pf \in FeeRates,
              UpdateStreamingFee(f, pf)
       PROVE  TypeOK'
  BY <1>12, ChargeEffect, AccountingAssumption DEF UpdateStreamingFee, TypeOK
<1> QED BY <1>1, <1>2, <1>3, <1>4, <1>5, <1>6, <1>7, <1>8, <1>9, <1>10,
           <1>11, <1>12 DEF Next

\* Every variable of the accounting keeps its type, and the position
\* multiplier stays in (0, 1], after every sequence of transactions.
THEOREM TypeCorrect == Spec => []TypeOK
<1>1. TypeOK /\ UNCHANGED vars => TypeOK'
  BY DEF TypeOK, vars, positionVars, streamingVars
<1> QED BY <1>1, TypeInit, TypeStep, PTL DEF Spec

-----------------------------------------------------------------------------
(* Consistency of the component list.                                      *)

\* The real unit before and after a step, unfolded.
LEMMA RealUnits ==
  /\ \A c : DefaultRealUnit(c)
            = ConvertVirtualToRealUnit(virtualUnit[c], positionMultiplier)
  /\ \A c : DefaultRealUnit(c)'
            = ConvertVirtualToRealUnit(virtualUnit'[c], positionMultiplier')
  BY DEF DefaultRealUnit, RealUnit, Positions

\* A freshly created Set lists exactly its positions.
LEMMA TrackedInit == ASSUME Init PROVE ComponentsTracked
<1> SUFFICES ASSUME NEW c \in Component
             PROVE  /\ c \in components <=> virtualUnit[c] > 0
                    /\ c \in components <=> DefaultRealUnit(c) > 0
  BY DEF ComponentsTracked
<1>1. TypeOK
  BY TypeInit
<1>2. PICK units \in [Component -> InitialUnits] :
        virtualUnit = [d \in Component |->
                         IF d \in components THEN units[d] ELSE 0]
  BY DEF Init
<1>3. units[c] \in Nat \ {0}
  BY <1>2, AccountingAssumption
<1>4. c \in components <=> virtualUnit[c] > 0
  BY <1>2, <1>3
<1>5. /\ virtualUnit[c] \in Nat
      /\ DefaultRealUnit(c) \in Nat
      /\ PreciseUnit * DefaultRealUnit(c) <= virtualUnit[c] * PreciseUnit
      /\ virtualUnit[c] * PreciseUnit
           < PreciseUnit * DefaultRealUnit(c) + PreciseUnit
  <2>1. virtualUnit[c] \in Nat /\ positionMultiplier = PreciseUnit
    BY <1>1 DEF TypeOK, Init
  <2> QED BY <2>1, RealUnits, VirtualToRealBounds, PreciseUnitAssumption
<1>6. PreciseUnit * virtualUnit[c] < PreciseUnit * (DefaultRealUnit(c) + 1)
  BY <1>5, PreciseUnitAssumption
<1>7. virtualUnit[c] < DefaultRealUnit(c) + 1
  BY <1>5, <1>6, PreciseUnitAssumption
<1>8. DefaultRealUnit(c) <= virtualUnit[c]
  BY <1>5, PreciseUnitAssumption
<1> QED BY <1>4, <1>5, <1>7, <1>8

\* Position edits keep the list consistent.
LEMMA TrackedEdit ==
  ASSUME ComponentsTracked, NEW edited, EditEffect(edited)
  PROVE  ComponentsTracked'
<1>1. TrackedIn(Positions)
  BY DEF ComponentsTracked, TrackedIn, Positions, DefaultRealUnit
<1>2. TrackedIn(NewPositions) /\ positionMultiplier' = positionMultiplier
  BY <1>1 DEF EditEffect
<1> SUFFICES ASSUME NEW c \in Component
             PROVE  /\ c \in components' <=> virtualUnit'[c] > 0
                    /\ c \in components' <=> DefaultRealUnit(c)' > 0
  BY DEF ComponentsTracked
<1>3. /\ NewPositions.components = components'
      /\ NewPositions.units = virtualUnit'
  BY DEF NewPositions
<1>4. RealUnit(NewPositions, c) = DefaultRealUnit(c)'
  BY <1>2, <1>3, RealUnits DEF RealUnit
<1> QED BY <1>2, <1>3, <1>4 DEF TrackedIn

\* The check on the new multiplier keeps every listed position positive.
LEMMA TrackedCharge ==
  ASSUME TypeOK, ComponentsTracked, NEW pf \in FeeRates,
         ChargeStreamingFee(pf), UNCHANGED <<components, virtualUnit>>
  PROVE  ComponentsTracked'
<1> SUFFICES ASSUME NEW c \in Component
             PROVE  /\ c \in components' <=> virtualUnit'[c] > 0
                    /\ c \in components' <=> DefaultRealUnit(c)' > 0
  BY DEF ComponentsTracked
<1>1. c \in components' <=> virtualUnit'[c] > 0
  BY DEF ComponentsTracked
<1>2. CASE streamingFee > 0
  <2> DEFINE m == ReducedMultiplier(CalculateStreamingFee)
  <2>1. positionMultiplier' = m /\ ValidNewMultiplier(m)
    BY <1>2 DEF ChargeStreamingFee
  <2>2. DefaultRealUnit(c)' = ConvertVirtualToRealUnit(virtualUnit[c], m)
    BY <2>1, RealUnits
  <2>3. m \in Nat /\ virtualUnit[c] \in Nat
    BY <2>1, ChargeEffect DEF TypeOK
  <2> HIDE DEF m
  <2>4. CASE c \in components
    BY <1>1, <2>1, <2>2, <2>4 DEF ValidNewMultiplier
  <2>5. CASE c \notin components
    <3>1. virtualUnit[c] = 0
      BY <2>3, <2>5 DEF ComponentsTracked
    <3>2. /\ DefaultRealUnit(c)' \in Nat
          /\ PreciseUnit * DefaultRealUnit(c)' <= virtualUnit[c] * m
      BY <2>2, <2>3, VirtualToRealBounds
    <3>3. PreciseUnit * DefaultRealUnit(c)' <= 0
      BY <2>3, <3>1, <3>2
    <3>4. DefaultRealUnit(c)' = 0
      BY <3>2, <3>3, PreciseUnitAssumption
    <3> QED BY <1>1, <2>5, <3>4
  <2> QED BY <2>4, <2>5
<1>3. CASE ~(streamingFee > 0)
  <2>1. positionMultiplier' = positionMultiplier
    BY <1>3 DEF ChargeStreamingFee
  <2>2. DefaultRealUnit(c)' = DefaultRealUnit(c)
    BY <2>1, RealUnits
  <2> QED BY <1>1, <2>2 DEF ComponentsTracked
<1> QED BY <1>2, <1>3

\* A step that leaves the positions alone keeps the list consistent.
LEMMA TrackedFrame ==
  ASSUME ComponentsTracked, UNCHANGED positionVars
  PROVE  ComponentsTracked'
<1>1. \A c \in Component : DefaultRealUnit(c)' = DefaultRealUnit(c)
  BY RealUnits DEF positionVars
<1> QED BY <1>1 DEF ComponentsTracked, positionVars

\* Every operation keeps the list consistent.
LEMMA TrackedStep ==
  ASSUME TypeOK, ComponentsTracked, Next
  PROVE  ComponentsTracked'
<1>1. ASSUME \/ \E q \in Quantities : Issue(q)
             \/ \E q \in Quantities, f \in FeeRates : Redeem(q, f)
             \/ Pause
             \/ Unpause
             \/ \E c \in Component, a \in Donations : Donate(c, a)
             \/ \E mf, f \in StreamingRates : InitializeStreaming(mf, f)
             \/ RemoveStreaming
             \/ Tick
      PROVE  ComponentsTracked'
  <2>1. UNCHANGED positionVars
    BY <1>1 DEF Issue, Redeem, Pause, Unpause, Donate, InitializeStreaming,
                RemoveStreaming, Tick
  <2> QED BY <2>1, TrackedFrame
<1>2. ASSUME NEW c \in Component, NEW f \in FeeRates, NEW pf \in FeeRates,
             Absorb(c, f, pf)
      PROVE  ComponentsTracked'
  BY <1>2, AbsorbEffect, TrackedEdit
<1>3. ASSUME NEW c \in Component, NEW d \in Component, NEW u \in TradeUnits,
             NEW m \in TradeUnits, NEW t \in Receivable, NEW r \in Receivable,
             NEW f \in FeeRates, Trade(c, u, d, m, t, r, f)
      PROVE  ComponentsTracked'
  BY <1>3, TradeEffect, TrackedEdit
<1>4. ASSUME NEW c \in Component, NEW u \in RequestedUnits,
             AdjustDefaultPositionUnit(c, u)
      PROVE  ComponentsTracked'
  BY <1>4, AdjustEffect, TrackedEdit
<1>5. ASSUME NEW pf \in FeeRates, AccrueFee(pf) PROVE ComponentsTracked'
  BY <1>5, TrackedCharge DEF AccrueFee
<1>6. ASSUME NEW f \in StreamingRates, NEW pf \in FeeRates,
             UpdateStreamingFee(f, pf)
      PROVE  ComponentsTracked'
  BY <1>6, TrackedCharge DEF UpdateStreamingFee
<1> QED BY <1>1, <1>2, <1>3, <1>4, <1>5, <1>6 DEF Next

\* The component list, the virtual units and the real units of a Set agree
\* after every sequence of transactions.
THEOREM ListsConsistent == Spec => []ComponentsTracked
<1>1. ComponentsTracked /\ UNCHANGED vars => ComponentsTracked'
  BY TrackedFrame DEF vars
<1> QED BY <1>1, TypeCorrect, TrackedInit, TrackedStep, PTL DEF Spec

-----------------------------------------------------------------------------
(* The bound on what rounding costs.  x is an unrounded claim per Set, u   *)
(* its rounding to whole base units, S the supply, b the balance, i the    *)
(* quantity ever issued, and R what an issuance of q pays in or a          *)
(* redemption of q takes out.                                              *)

\* Issuing rounds up, so the claim grows by at most one base unit per Set
\* more than the balance.
LEMMA IssueArithmetic ==
  ASSUME NEW U \in Nat \ {0}, NEW x \in Nat, NEW u \in Nat, NEW S \in Nat,
         NEW b \in Nat, NEW i \in Nat, NEW q \in Nat, NEW R \in Nat,
         x < U * u + U, u * q <= U * R, x * S <= (b * U + i) * U
  PROVE  x * (S + q) <= ((b + R) * U + (i + q)) * U
<1>1. x * (S + q) = x * S + x * q
  OBVIOUS
<1>2. x * q <= (U * u + U) * q
  OBVIOUS
<1>3. (U * u + U) * q = U * (u * q) + U * q
  OBVIOUS
<1>4. U * (u * q) <= U * (U * R)
  OBVIOUS
<1>5. ((b + R) * U + (i + q)) * U = (b * U + i) * U + U * (U * R) + U * q
  OBVIOUS
<1> DEFINE l1 == x * S  l2 == x * q  l3 == U * (u * q)  l4 == U * (U * R)
           l5 == U * q  l6 == (b * U + i) * U
<1>6. l1 \in Nat /\ l2 \in Nat /\ l3 \in Nat /\ l4 \in Nat /\ l5 \in Nat
      /\ l6 \in Nat
  OBVIOUS
<1>7. l2 <= l3 + l5 /\ l3 <= l4 /\ l1 <= l6
  BY <1>2, <1>3, <1>4
<1> HIDE DEF l1, l2, l3, l4, l5, l6
<1>8. l1 + l2 <= l6 + l4 + l5
  BY <1>6, <1>7
<1> QED BY <1>1, <1>5, <1>8 DEF l1, l2, l4, l5, l6

\* Redeeming rounds down, so the claim shrinks at least as the balance does.
LEMMA RedeemArithmetic ==
  ASSUME NEW U \in Nat \ {0}, NEW x \in Nat, NEW u \in Nat, NEW S \in Nat,
         NEW b \in Nat, NEW i \in Nat, NEW q \in Nat, NEW R \in Nat,
         U * u <= x, U * R <= u * q, x * S <= (b * U + i) * U
  PROVE  x * (S - q) <= ((b - R) * U + i) * U
<1>1. x * (S - q) = x * S - x * q
  OBVIOUS
<1>2. U * (U * R) <= U * (u * q)
  OBVIOUS
<1>3. (U * u) * q <= x * q
  OBVIOUS
<1>4. U * (u * q) = (U * u) * q
  OBVIOUS
<1>5. ((b - R) * U + i) * U = (b * U + i) * U - U * (U * R)
  OBVIOUS
<1> DEFINE l1 == x * S  l2 == x * q  l4 == U * (U * R)  l6 == (b * U + i) * U
<1>6. l1 \in Nat /\ l2 \in Nat /\ l4 \in Nat /\ l6 \in Nat
  OBVIOUS
<1>7. l4 <= l2 /\ l1 <= l6
  BY <1>2, <1>3, <1>4
<1> HIDE DEF l1, l2, l4, l6
<1>8. l1 - l2 <= l6 - l4
  BY <1>6, <1>7
<1> QED BY <1>1, <1>5, <1>8 DEF l1, l2, l4, l6

\* The same two steps on fully collateralized positions, without the slack.
LEMMA IssueExact ==
  ASSUME NEW U \in Nat \ {0}, NEW u \in Nat, NEW S \in Nat, NEW b \in Nat,
         NEW q \in Nat, NEW R \in Nat, u * q <= U * R, u * S <= b * U
  PROVE  u * (S + q) <= (b + R) * U
<1>1. u * (S + q) = u * S + u * q /\ (b + R) * U = b * U + U * R
  OBVIOUS
<1> DEFINE l1 == u * S  l2 == u * q  l3 == b * U  l4 == U * R
<1>2. l1 \in Nat /\ l2 \in Nat /\ l3 \in Nat /\ l4 \in Nat
  OBVIOUS
<1> HIDE DEF l1, l2, l3, l4
<1>3. l1 <= l3 /\ l2 <= l4 => l1 + l2 <= l3 + l4
  BY <1>2
<1> QED BY <1>1, <1>3 DEF l1, l2, l3, l4

\* A redemption takes out at most its share.
LEMMA RedeemExact ==
  ASSUME NEW U \in Nat \ {0}, NEW u \in Nat, NEW S \in Nat, NEW b \in Nat,
         NEW q \in Nat, NEW R \in Nat, U * R <= u * q, u * S <= b * U
  PROVE  u * (S - q) <= (b - R) * U
<1>1. u * (S - q) = u * S - u * q /\ (b - R) * U = b * U - U * R
  OBVIOUS
<1> DEFINE l1 == u * S  l2 == u * q  l3 == b * U  l4 == U * R
<1>2. l1 \in Nat /\ l2 \in Nat /\ l3 \in Nat /\ l4 \in Nat
  OBVIOUS
<1> HIDE DEF l1, l2, l3, l4
<1>3. l1 <= l3 /\ l4 <= l2 => l1 - l2 <= l3 - l4
  BY <1>2
<1> QED BY <1>1, <1>3 DEF l1, l2, l3, l4

\* What issuing and redeeming move, per component: types and roundings.
LEMMA ComponentFacts ==
  ASSUME TypeOK, NEW c \in Component
  PROVE  /\ PreciseUnit \in Nat \ {0}
         /\ virtualUnit[c] \in Nat /\ positionMultiplier \in Nat
         /\ virtualUnit[c] * positionMultiplier \in Nat
         /\ DefaultRealUnit(c) \in Nat
         /\ totalSupply \in Nat /\ balance[c] \in Nat /\ issued \in Nat
         /\ PreciseUnit * DefaultRealUnit(c)
              <= virtualUnit[c] * positionMultiplier
         /\ virtualUnit[c] * positionMultiplier
              < PreciseUnit * DefaultRealUnit(c) + PreciseUnit
<1>1. virtualUnit[c] \in Nat /\ positionMultiplier \in Nat
      /\ totalSupply \in Nat /\ balance[c] \in Nat /\ issued \in Nat
  BY MultiplierType DEF TypeOK
<1>2. virtualUnit[c] * positionMultiplier \in Nat
  BY <1>1
<1> QED BY <1>1, <1>2, MultiplierType, RealUnits, VirtualToRealBounds

\* issue keeps the claims backed.
LEMMA ClaimsIssue ==
  ASSUME TypeOK, ComponentsTracked, ClaimsBacked, NEW q \in Quantities, Issue(q)
  PROVE  ClaimsBacked'
<1> SUFFICES ASSUME NEW c \in Component
             PROVE  virtualUnit'[c] * positionMultiplier' * totalSupply'
                      <= (balance'[c] * PreciseUnit + issued') * PreciseUnit
  BY DEF ClaimsBacked
<1>1. q \in Nat
  BY AccountingAssumption
<1>2. /\ virtualUnit' = virtualUnit /\ positionMultiplier' = positionMultiplier
      /\ totalSupply' = totalSupply + q /\ issued' = issued + q
      /\ balance'[c] = IF c \in components
                       THEN balance[c] + RequiredForIssue(c, q) ELSE balance[c]
  BY DEF Issue, positionVars
<1>3. /\ RequiredForIssue(c, q) \in Nat
      /\ DefaultRealUnit(c) * q <= PreciseUnit * RequiredForIssue(c, q)
  BY <1>1, ComponentFacts, PreciseMulCeilBounds DEF RequiredForIssue
<1>4. virtualUnit[c] * positionMultiplier * totalSupply
        <= (balance[c] * PreciseUnit + issued) * PreciseUnit
  BY DEF ClaimsBacked
<1>5. CASE c \in components
  <2>1. virtualUnit[c] * positionMultiplier * (totalSupply + q)
          <= ((balance[c] + RequiredForIssue(c, q)) * PreciseUnit
                + (issued + q)) * PreciseUnit
    BY <1>1, <1>3, <1>4, ComponentFacts, IssueArithmetic
  <2> QED BY <1>2, <1>5, <2>1
<1>6. CASE c \notin components
  <2>1. virtualUnit[c] = 0
    BY <1>6, ComponentFacts DEF ComponentsTracked
  <2>2. virtualUnit[c] * positionMultiplier * (totalSupply + q) = 0
    BY <1>1, <2>1, ComponentFacts
  <2>3. (balance[c] * PreciseUnit + (issued + q)) * PreciseUnit \in Nat
    BY <1>1, ComponentFacts
  <2> QED BY <1>2, <1>6, <2>2, <2>3
<1> QED BY <1>5, <1>6

\* redeem keeps the claims backed.
LEMMA ClaimsRedeem ==
  ASSUME TypeOK, ComponentsTracked, ClaimsBacked, NEW q \in Quantities,
         NEW f \in FeeRates, Redeem(q, f)
  PROVE  ClaimsBacked'
<1> SUFFICES ASSUME NEW c \in Component
             PROVE  virtualUnit'[c] * positionMultiplier' * totalSupply'
                      <= (balance'[c] * PreciseUnit + issued') * PreciseUnit
  BY DEF ClaimsBacked
<1>1. q \in Nat
  BY AccountingAssumption
<1>2. /\ virtualUnit' = virtualUnit /\ positionMultiplier' = positionMultiplier
      /\ totalSupply' = totalSupply - q /\ issued' = issued
      /\ balance'[c] = IF c \in components
                       THEN balance[c] - RedeemedFor(c, q) ELSE balance[c]
  BY DEF Redeem, positionVars
<1>3. /\ RedeemedFor(c, q) \in Nat
      /\ PreciseUnit * RedeemedFor(c, q) <= DefaultRealUnit(c) * q
  BY <1>1, ComponentFacts, PreciseMulBounds DEF RedeemedFor
<1>4. virtualUnit[c] * positionMultiplier * totalSupply
        <= (balance[c] * PreciseUnit + issued) * PreciseUnit
  BY DEF ClaimsBacked
<1>5. CASE c \in components
  <2>1. virtualUnit[c] * positionMultiplier * (totalSupply - q)
          <= ((balance[c] - RedeemedFor(c, q)) * PreciseUnit + issued)
               * PreciseUnit
    BY <1>1, <1>3, <1>4, ComponentFacts, RedeemArithmetic
  <2> QED BY <1>2, <1>5, <2>1
<1>6. CASE c \notin components
  <2>1. virtualUnit[c] = 0
    BY <1>6, ComponentFacts DEF ComponentsTracked
  <2>2. virtualUnit[c] * positionMultiplier * (totalSupply - q) = 0
    BY <1>1, <2>1, ComponentFacts
  <2>3. (balance[c] * PreciseUnit + issued) * PreciseUnit \in Nat
    BY ComponentFacts
  <2> QED BY <1>2, <1>6, <2>2, <2>3
<1> QED BY <1>5, <1>6

\* Position edits keep the claims backed.
LEMMA ClaimsEdit ==
  ASSUME TypeOK, ClaimsBacked, NEW edited, EditEffect(edited)
  PROVE  ClaimsBacked'
<1> SUFFICES ASSUME NEW c \in Component
             PROVE  virtualUnit'[c] * positionMultiplier' * totalSupply'
                      <= (balance'[c] * PreciseUnit + issued') * PreciseUnit
  BY DEF ClaimsBacked
<1>1. /\ positionMultiplier' = positionMultiplier
      /\ totalSupply' = totalSupply /\ issued' = issued
      /\ balance'[c] \in Nat /\ virtualUnit'[c] \in Nat
  BY EffectTypes
<1>2. CASE c \in edited
  <2> DEFINE l == virtualUnit'[c] * positionMultiplier * totalSupply
  <2>1. l <= balance'[c] * PreciseUnit * PreciseUnit
    BY <1>2 DEF EditEffect
  <2>2. balance'[c] * PreciseUnit * PreciseUnit
          <= (balance'[c] * PreciseUnit + issued) * PreciseUnit
    BY <1>1, ComponentFacts
  <2>3. l \in Nat /\ balance'[c] * PreciseUnit * PreciseUnit \in Nat
        /\ (balance'[c] * PreciseUnit + issued) * PreciseUnit \in Nat
    BY <1>1, ComponentFacts
  <2> QED BY <1>1, <2>1, <2>2, <2>3
<1>3. CASE c \notin edited
  <2>1. virtualUnit'[c] = virtualUnit[c] /\ balance'[c] = balance[c]
    BY <1>3 DEF EditEffect
  <2> QED BY <1>1, <2>1 DEF ClaimsBacked
<1> QED BY <1>2, <1>3

\* accrueFee keeps the claims backed: dilution and reduction cancel.
LEMMA ClaimsCharge ==
  ASSUME TypeOK, ClaimsBacked, NEW pf \in FeeRates, ChargeStreamingFee(pf),
         UNCHANGED <<virtualUnit, balance, issued>>
  PROVE  ClaimsBacked'
<1> SUFFICES ASSUME NEW c \in Component
             PROVE  virtualUnit'[c] * positionMultiplier' * totalSupply'
                      <= (balance'[c] * PreciseUnit + issued') * PreciseUnit
  BY DEF ClaimsBacked
<1> DEFINE m == positionMultiplier'
           S == totalSupply'
           v == virtualUnit[c]
           bound == (balance[c] * PreciseUnit + issued) * PreciseUnit
<1>1. m \in Nat /\ S \in Nat /\ m * S <= positionMultiplier * totalSupply
  BY ChargeEffect, PreciseUnitAssumption
<1>2. v \in Nat /\ bound \in Nat
      /\ positionMultiplier \in Nat /\ totalSupply \in Nat
  BY ComponentFacts
<1>3. v * positionMultiplier * totalSupply <= bound
  BY DEF ClaimsBacked
<1> HIDE DEF m, S, v, bound
<1>4. v * (m * S) <= v * (positionMultiplier * totalSupply)
  BY <1>1, <1>2
<1>5. v * m * S = v * (m * S)
      /\ v * positionMultiplier * totalSupply
           = v * (positionMultiplier * totalSupply)
  BY <1>1, <1>2
<1>6. v * m * S \in Nat /\ v * (positionMultiplier * totalSupply) \in Nat
  BY <1>1, <1>2
<1>7. v * m * S <= bound
  BY <1>2, <1>3, <1>4, <1>5, <1>6
<1> QED BY <1>7 DEF m, S, v, bound

\* Every operation keeps the claims backed.
LEMMA ClaimsStep ==
  ASSUME TypeOK, ComponentsTracked, ClaimsBacked, Next
  PROVE  ClaimsBacked'
<1>1. ASSUME \/ Pause
             \/ Unpause
             \/ \E mf, f \in StreamingRates : InitializeStreaming(mf, f)
             \/ RemoveStreaming
             \/ Tick
      PROVE  ClaimsBacked'
  <2>1. UNCHANGED <<virtualUnit, positionMultiplier, totalSupply, balance,
                    issued>>
    BY <1>1 DEF Pause, Unpause, InitializeStreaming, RemoveStreaming, Tick,
                positionVars
  <2> QED BY <2>1 DEF ClaimsBacked
<1>2. ASSUME NEW d \in Component, NEW a \in Donations, Donate(d, a)
      PROVE  ClaimsBacked'
  <2> SUFFICES ASSUME NEW c \in Component
               PROVE  virtualUnit'[c] * positionMultiplier' * totalSupply'
                        <= (balance'[c] * PreciseUnit + issued') * PreciseUnit
    BY DEF ClaimsBacked
  <2>1. UNCHANGED <<virtualUnit, positionMultiplier, totalSupply, issued>>
    BY <1>2 DEF Donate, positionVars
  <2>2. balance'[c] \in Nat /\ balance[c] <= balance'[c]
    BY <1>2, AccountingAssumption DEF Donate, TypeOK
  <2>3. (balance[c] * PreciseUnit + issued) * PreciseUnit
          <= (balance'[c] * PreciseUnit + issued) * PreciseUnit
    BY <2>2, ComponentFacts
  <2> DEFINE l == virtualUnit[c] * positionMultiplier * totalSupply
             r == (balance[c] * PreciseUnit + issued) * PreciseUnit
             s == (balance'[c] * PreciseUnit + issued) * PreciseUnit
  <2>4. l \in Nat /\ r \in Nat /\ s \in Nat
    BY <2>2, ComponentFacts
  <2>5. l <= r
    BY DEF ClaimsBacked
  <2> HIDE DEF l, r, s
  <2>6. l <= s
    BY <2>3, <2>4, <2>5 DEF r, s
  <2> QED BY <2>1, <2>6 DEF l, s
<1>3. ASSUME NEW c \in Component, NEW f \in FeeRates, NEW pf \in FeeRates,
             Absorb(c, f, pf)
      PROVE  ClaimsBacked'
  BY <1>3, AbsorbEffect, ClaimsEdit
<1>4. ASSUME NEW c \in Component, NEW d \in Component, NEW u \in TradeUnits,
             NEW m \in TradeUnits, NEW t \in Receivable, NEW r \in Receivable,
             NEW f \in FeeRates, Trade(c, u, d, m, t, r, f)
      PROVE  ClaimsBacked'
  BY <1>4, TradeEffect, ClaimsEdit
<1>5. ASSUME NEW c \in Component, NEW u \in RequestedUnits,
             AdjustDefaultPositionUnit(c, u)
      PROVE  ClaimsBacked'
  BY <1>5, AdjustEffect, ClaimsEdit
<1>6. ASSUME NEW pf \in FeeRates, AccrueFee(pf) PROVE ClaimsBacked'
  BY <1>6, ClaimsCharge DEF AccrueFee
<1>7. ASSUME NEW f \in StreamingRates, NEW pf \in FeeRates,
             UpdateStreamingFee(f, pf)
      PROVE  ClaimsBacked'
  BY <1>7, ClaimsCharge DEF UpdateStreamingFee
<1> QED BY <1>1, <1>2, <1>3, <1>4, <1>5, <1>6, <1>7, ClaimsIssue,
           ClaimsRedeem DEF Next

\* Nothing is issued against a fresh Set.
LEMMA ClaimsInit == ASSUME Init PROVE ClaimsBacked
<1> SUFFICES ASSUME NEW c \in Component
             PROVE  virtualUnit[c] * positionMultiplier * totalSupply
                      <= (balance[c] * PreciseUnit + issued) * PreciseUnit
  BY DEF ClaimsBacked
<1>1. TypeOK
  BY TypeInit
<1>2. totalSupply = 0
  BY DEF Init
<1>3. virtualUnit[c] * positionMultiplier * totalSupply = 0
  BY <1>1, <1>2, ComponentFacts
<1>4. (balance[c] * PreciseUnit + issued) * PreciseUnit \in Nat
  BY <1>1, ComponentFacts
<1> QED BY <1>3, <1>4

\* The inductive invariant behind LossBounded.
LEMMA ClaimsInvariant == Spec => []ClaimsBacked
<1>1. ClaimsBacked /\ UNCHANGED vars => ClaimsBacked'
  BY DEF ClaimsBacked, vars, positionVars
<1> QED BY <1>1, ClaimsInit, TypeCorrect, ListsConsistent, ClaimsStep, PTL
        DEF Spec

\* Rounding a claim down to a real unit only lowers it.
LEMMA LossFromClaims == ASSUME TypeOK, ClaimsBacked PROVE LossBounded
<1> SUFFICES ASSUME NEW c \in Component
             PROVE  DefaultRealUnit(c) * totalSupply
                      <= balance[c] * PreciseUnit + issued
  BY DEF LossBounded
<1> DEFINE u == DefaultRealUnit(c)
           x == virtualUnit[c] * positionMultiplier
           l == u * totalSupply
           r == balance[c] * PreciseUnit + issued
<1>1. /\ u \in Nat /\ x \in Nat /\ l \in Nat /\ r \in Nat
      /\ totalSupply \in Nat /\ PreciseUnit \in Nat \ {0}
      /\ PreciseUnit * u <= x
  BY ComponentFacts
<1>2. x * totalSupply <= r * PreciseUnit
  BY DEF ClaimsBacked
<1> HIDE DEF u, x, r
<1>3. (PreciseUnit * u) * totalSupply <= x * totalSupply
  BY <1>1
<1>4. PreciseUnit * l <= PreciseUnit * r
  BY <1>1, <1>2, <1>3
<1> HIDE DEF l
<1>5. l <= r
  BY <1>1, <1>4
<1> QED BY <1>5 DEF l, r, u

\* Redemption of the whole supply never asks for more than the balance plus
\* one base unit for every Set ever issued, whatever the fees accrued.
THEOREM LossIsBounded == Spec => []LossBounded
  BY LossFromClaims, TypeCorrect, ClaimsInvariant, PTL

-----------------------------------------------------------------------------
(* Every rounding outside fee accrual favours the Set.                     *)

\* Zero absorbs.
LEMMA ZeroTimes == ASSUME NEW x \in Int PROVE 0 * x = 0
  OBVIOUS

\* With the multiplier and the position of c untouched, the collateral of c
\* only depends on the supply and on the balance.
LEMMA CollateralFrame ==
  ASSUME Collateralized,
         UNCHANGED <<virtualUnit, positionMultiplier, totalSupply, balance>>
  PROVE  Collateralized'
<1>1. \A c \in Component : DefaultRealUnit(c)' = DefaultRealUnit(c)
  BY RealUnits
<1> QED BY <1>1 DEF Collateralized

\* issue preserves full collateral.
LEMMA CollateralIssue ==
  ASSUME TypeOK, ComponentsTracked, Collateralized, NEW q \in Quantities,
         Issue(q)
  PROVE  Collateralized'
<1> SUFFICES ASSUME NEW c \in Component
             PROVE  DefaultRealUnit(c)' * totalSupply'
                      <= balance'[c] * PreciseUnit
  BY DEF Collateralized
<1>1. q \in Nat
  BY AccountingAssumption
<1>2. /\ DefaultRealUnit(c)' = DefaultRealUnit(c)
      /\ totalSupply' = totalSupply + q
      /\ balance'[c] = IF c \in components
                       THEN balance[c] + RequiredForIssue(c, q) ELSE balance[c]
  BY RealUnits DEF Issue, positionVars
<1>3. /\ RequiredForIssue(c, q) \in Nat
      /\ DefaultRealUnit(c) * q <= PreciseUnit * RequiredForIssue(c, q)
  BY <1>1, ComponentFacts, PreciseMulCeilBounds DEF RequiredForIssue
<1>4. DefaultRealUnit(c) * totalSupply <= balance[c] * PreciseUnit
  BY DEF Collateralized
<1>5. CASE c \in components
  <2>1. DefaultRealUnit(c) * (totalSupply + q)
          <= (balance[c] + RequiredForIssue(c, q)) * PreciseUnit
    BY <1>1, <1>3, <1>4, ComponentFacts, IssueExact
  <2> QED BY <1>2, <1>5, <2>1
<1>6. CASE c \notin components
  <2>1. DefaultRealUnit(c) = 0
    BY <1>6, ComponentFacts DEF ComponentsTracked
  <2>2. totalSupply + q \in Int /\ balance[c] * PreciseUnit \in Nat
    BY <1>1, ComponentFacts
  <2>3. DefaultRealUnit(c) * (totalSupply + q) = 0
    BY <2>1, <2>2, ZeroTimes
  <2> QED BY <1>2, <1>6, <2>2, <2>3
<1> QED BY <1>5, <1>6

\* redeem preserves full collateral.
LEMMA CollateralRedeem ==
  ASSUME TypeOK, ComponentsTracked, Collateralized, NEW q \in Quantities,
         NEW f \in FeeRates, Redeem(q, f)
  PROVE  Collateralized'
<1> SUFFICES ASSUME NEW c \in Component
             PROVE  DefaultRealUnit(c)' * totalSupply'
                      <= balance'[c] * PreciseUnit
  BY DEF Collateralized
<1>1. q \in Nat
  BY AccountingAssumption
<1>2. /\ DefaultRealUnit(c)' = DefaultRealUnit(c)
      /\ totalSupply' = totalSupply - q
      /\ balance'[c] = IF c \in components
                       THEN balance[c] - RedeemedFor(c, q) ELSE balance[c]
  BY RealUnits DEF Redeem, positionVars
<1>3. /\ RedeemedFor(c, q) \in Nat
      /\ PreciseUnit * RedeemedFor(c, q) <= DefaultRealUnit(c) * q
  BY <1>1, ComponentFacts, PreciseMulBounds DEF RedeemedFor
<1>4. DefaultRealUnit(c) * totalSupply <= balance[c] * PreciseUnit
  BY DEF Collateralized
<1>5. CASE c \in components
  <2>1. DefaultRealUnit(c) * (totalSupply - q)
          <= (balance[c] - RedeemedFor(c, q)) * PreciseUnit
    BY <1>1, <1>3, <1>4, ComponentFacts, RedeemExact
  <2> QED BY <1>2, <1>5, <2>1
<1>6. CASE c \notin components
  <2>1. DefaultRealUnit(c) = 0
    BY <1>6, ComponentFacts DEF ComponentsTracked
  <2>2. totalSupply - q \in Int /\ balance[c] * PreciseUnit \in Nat
    BY <1>1, ComponentFacts
  <2>3. DefaultRealUnit(c) * (totalSupply - q) = 0
    BY <2>1, <2>2, ZeroTimes
  <2> QED BY <1>2, <1>6, <2>2, <2>3
<1> QED BY <1>5, <1>6

\* Position edits preserve full collateral.
LEMMA CollateralEdit ==
  ASSUME TypeOK, Collateralized, NEW edited, EditEffect(edited)
  PROVE  Collateralized'
<1> SUFFICES ASSUME NEW c \in Component
             PROVE  DefaultRealUnit(c)' * totalSupply'
                      <= balance'[c] * PreciseUnit
  BY DEF Collateralized
<1>1. positionMultiplier' = positionMultiplier /\ totalSupply' = totalSupply
  BY EffectTypes
<1>2. RealUnit(NewPositions, c) = DefaultRealUnit(c)'
  BY <1>1, RealUnits DEF RealUnit, NewPositions
<1>3. CASE c \in edited
  BY <1>1, <1>2, <1>3 DEF EditEffect
<1>4. CASE c \notin edited
  <2>1. virtualUnit'[c] = virtualUnit[c] /\ balance'[c] = balance[c]
    BY <1>4 DEF EditEffect
  <2>2. DefaultRealUnit(c)' = DefaultRealUnit(c)
    BY <1>1, <2>1, RealUnits
  <2> QED BY <1>1, <2>1, <2>2 DEF Collateralized
<1> QED BY <1>3, <1>4

\* Every operation that leaves the multiplier alone preserves full collateral.
LEMMA CollateralStep ==
  ASSUME TypeOK, ComponentsTracked, Next,
         positionMultiplier' = positionMultiplier, Collateralized
  PROVE  Collateralized'
<1>1. ASSUME \/ Pause
             \/ Unpause
             \/ \E mf, f \in StreamingRates : InitializeStreaming(mf, f)
             \/ RemoveStreaming
             \/ Tick
      PROVE  Collateralized'
  <2>1. UNCHANGED <<virtualUnit, positionMultiplier, totalSupply, balance>>
    BY <1>1 DEF Pause, Unpause, InitializeStreaming, RemoveStreaming, Tick,
                positionVars
  <2> QED BY <2>1, CollateralFrame
<1>2. ASSUME NEW d \in Component, NEW a \in Donations, Donate(d, a)
      PROVE  Collateralized'
  <2> SUFFICES ASSUME NEW c \in Component
               PROVE  DefaultRealUnit(c)' * totalSupply'
                        <= balance'[c] * PreciseUnit
    BY DEF Collateralized
  <2>1. DefaultRealUnit(c)' = DefaultRealUnit(c) /\ totalSupply' = totalSupply
    BY <1>2, RealUnits DEF Donate, positionVars
  <2>2. balance'[c] \in Nat /\ balance[c] <= balance'[c]
    BY <1>2, AccountingAssumption DEF Donate, TypeOK
  <2>3. balance[c] * PreciseUnit <= balance'[c] * PreciseUnit
    BY <2>2, ComponentFacts
  <2>4. DefaultRealUnit(c) * totalSupply <= balance[c] * PreciseUnit
    BY DEF Collateralized
  <2>5. DefaultRealUnit(c) * totalSupply \in Nat
        /\ balance[c] * PreciseUnit \in Nat
        /\ balance'[c] * PreciseUnit \in Nat
    BY <2>2, ComponentFacts
  <2> QED BY <2>1, <2>3, <2>4, <2>5
<1>3. ASSUME NEW c \in Component, NEW f \in FeeRates, NEW pf \in FeeRates,
             Absorb(c, f, pf)
      PROVE  Collateralized'
  BY <1>3, AbsorbEffect, CollateralEdit
<1>4. ASSUME NEW c \in Component, NEW d \in Component, NEW u \in TradeUnits,
             NEW m \in TradeUnits, NEW t \in Receivable, NEW r \in Receivable,
             NEW f \in FeeRates, Trade(c, u, d, m, t, r, f)
      PROVE  Collateralized'
  BY <1>4, TradeEffect, CollateralEdit
<1>5. ASSUME NEW c \in Component, NEW u \in RequestedUnits,
             AdjustDefaultPositionUnit(c, u)
      PROVE  Collateralized'
  BY <1>5, AdjustEffect, CollateralEdit
<1>6. ASSUME NEW pf \in FeeRates, AccrueFee(pf) PROVE Collateralized'
  BY <1>6, ChargeEffect, CollateralFrame DEF AccrueFee
<1>7. ASSUME NEW f \in StreamingRates, NEW pf \in FeeRates,
             UpdateStreamingFee(f, pf)
      PROVE  Collateralized'
  BY <1>7, ChargeEffect, CollateralFrame DEF UpdateStreamingFee
<1> QED BY <1>1, <1>2, <1>3, <1>4, <1>5, <1>6, <1>7, CollateralIssue,
           CollateralRedeem DEF Next

\* A fully collateralized Set stays so through every step that leaves the
\* position multiplier alone.
THEOREM CollateralIsPreserved == Spec => CollateralPreserved
<1>1. ASSUME TypeOK, ComponentsTracked, [Next]_vars
      PROVE  [positionMultiplier' = positionMultiplier /\ Collateralized
                => Collateralized']_vars
  <2>1. CASE Next
    BY <1>1, <2>1, CollateralStep
  <2>2. CASE UNCHANGED vars
    BY <2>2
  <2> QED BY <1>1, <2>1, <2>2
<1> QED BY <1>1, TypeCorrect, ListsConsistent, PTL
        DEF Spec, CollateralPreserved

\* accrueFee charges each instant once and at the rate in force then.
THEOREM FeeIsNotRetroactive == Spec => []FeeMatchesHistory
<1>1. Init => FeeMatchesHistory
  BY DEF Init, FeeMatchesHistory
<1>2. ASSUME TypeOK, FeeMatchesHistory, Next PROVE FeeMatchesHistory'
  <2>0. elapsed \in Nat /\ streamingFee \in Nat /\ unaccrued \in Nat
    BY <1>2 DEF TypeOK
  <2>1. ASSUME Tick PROVE FeeMatchesHistory'
    <3>1. (elapsed + 1) * streamingFee = elapsed * streamingFee + streamingFee
      BY <2>0
    <3> QED BY <1>2, <2>1, <3>1 DEF Tick, FeeMatchesHistory
  <2>2. ASSUME \/ \E mf, f \in StreamingRates : InitializeStreaming(mf, f)
               \/ RemoveStreaming
               \/ \E pf \in FeeRates : AccrueFee(pf)
               \/ \E f \in StreamingRates, pf \in FeeRates :
                    UpdateStreamingFee(f, pf)
        PROVE  FeeMatchesHistory'
    <3>1. elapsed' = 0 /\ unaccrued' = 0
      BY <2>2 DEF InitializeStreaming, RemoveStreaming, AccrueFee,
                  UpdateStreamingFee
    <3>2. TypeOK'
      BY <1>2, TypeStep
    <3>3. streamingFee' \in Int
      BY <3>2 DEF TypeOK
    <3>4. \A x \in Int : 0 * x = 0
      BY ZeroTimes
    <3>5. 0 * streamingFee' = 0
      BY <3>3, <3>4, Zenon
    <3> QED BY <3>1, <3>5 DEF FeeMatchesHistory
  <2>3. ASSUME UNCHANGED <<elapsed, streamingFee, unaccrued>>
        PROVE  FeeMatchesHistory'
    BY <1>2, <2>3 DEF FeeMatchesHistory
  <2>4. ASSUME NEW c \in Component, NEW d \in Component, NEW u \in TradeUnits,
               NEW m \in TradeUnits, NEW t \in Receivable,
               NEW r \in Receivable, NEW f \in FeeRates,
               Trade(c, u, d, m, t, r, f)
        PROVE  FeeMatchesHistory'
    <3>1. UNCHANGED <<elapsed, streamingFee, unaccrued>>
      BY <2>4 DEF Trade, streamingVars
    <3> QED BY <3>1, <2>3
  <2>5. ASSUME \/ \E q \in Quantities : Issue(q)
               \/ \E q \in Quantities, f \in FeeRates : Redeem(q, f)
               \/ Pause
               \/ Unpause
               \/ \E c \in Component, a \in Donations : Donate(c, a)
               \/ \E c \in Component, f, pf \in FeeRates : Absorb(c, f, pf)
               \/ \E c \in Component, u \in RequestedUnits :
                    AdjustDefaultPositionUnit(c, u)
        PROVE  FeeMatchesHistory'
    <3>1. UNCHANGED <<elapsed, streamingFee, unaccrued>>
      BY <2>5 DEF Issue, Redeem, Pause, Unpause, Donate, Absorb,
                  AdjustDefaultPositionUnit, streamingVars
    <3> QED BY <3>1, <2>3
  <2> QED BY <1>2, <2>1, <2>2, <2>4, <2>5 DEF Next
<1>3. FeeMatchesHistory /\ UNCHANGED vars => FeeMatchesHistory'
  BY DEF FeeMatchesHistory, vars, streamingVars
<1> QED BY <1>1, <1>2, <1>3, TypeCorrect, PTL DEF Spec

-----------------------------------------------------------------------------
(* Rebalancing.  An index trade is one more exchange, and every other step *)
(* of GeneralIndex is a step of SetAccounting or leaves its variables      *)
(* alone.                                                                  *)

\* Types of what trade sizes and permissions depend on.
IndexTypeOK ==
  /\ targetUnit \in [Component -> Nat]
  /\ maxSize \in [Component -> Nat]
  /\ rebalanceMultiplier \in Nat
  /\ raiseTargetPercentage \in Nat
  /\ tradersHistory \in Seq(Trader)
  /\ tradeAllowList \subseteq Trader
  /\ anyoneTrade \in BOOLEAN
  /\ indexOn \in BOOLEAN

\* A step that SetAccounting knows, or a position edit of an exchange.
AccountingStep ==
  \/ Next
  \/ UNCHANGED vars
  \/ /\ \E edited : EditEffect(edited)
     /\ UNCHANGED <<paused, streamingVars, unaccrued>>

-----------------------------------------------------------------------------
(* Permissions.                                                            *)

\* setTraderStatus keeps list and mapping together.
LEMMA StatusTracked ==
  ASSUME IndexTypeOK, PermissionsTracked, NEW t \in Trader, NEW s \in BOOLEAN,
         SetTraderStatus(t, s)
  PROVE  /\ PermissionsTracked'
         /\ tradersHistory' \in Seq(Trader)
<1>1. /\ tradersHistory \in Seq(Trader) /\ ~HasDuplicate(tradersHistory)
      /\ Elements(tradersHistory) = tradeAllowList
  BY DEF IndexTypeOK, PermissionsTracked
<1>2. /\ tradersHistory' = UpdatedHistory(t, s)
      /\ tradeAllowList' = IF s THEN tradeAllowList \cup {t}
                                ELSE tradeAllowList \ {t}
      /\ indexOn /\ indexOn' = indexOn
  BY DEF SetTraderStatus
<1>3. CASE s /\ t \notin Elements(tradersHistory)
  <2>1. tradersHistory' = Append(tradersHistory, t)
    BY <1>2, <1>3 DEF UpdatedHistory
  <2>2. /\ Append(tradersHistory, t) \in Seq(Trader)
        /\ Elements(Append(tradersHistory, t)) = Elements(tradersHistory) \cup {t}
        /\ ~HasDuplicate(Append(tradersHistory, t))
    BY <1>1, <1>3, AppendAdds
  <2> QED BY <1>1, <1>2, <1>3, <2>1, <2>2 DEF PermissionsTracked
<1>4. CASE ~s /\ t \in Elements(tradersHistory)
  <2>1. tradersHistory' = RemoveStorage(tradersHistory, t)
    BY <1>2, <1>4 DEF UpdatedHistory
  <2>2. /\ RemoveStorage(tradersHistory, t) \in Seq(Trader)
        /\ Elements(RemoveStorage(tradersHistory, t))
             = Elements(tradersHistory) \ {t}
        /\ ~HasDuplicate(RemoveStorage(tradersHistory, t))
    BY <1>1, <1>4, RemoveStorageRemoves
  <2> QED BY <1>1, <1>2, <1>4, <2>1, <2>2 DEF PermissionsTracked
<1>5. CASE s <=> t \in Elements(tradersHistory)
  <2>1. tradersHistory' = tradersHistory
    BY <1>2, <1>5 DEF UpdatedHistory
  <2>2. tradeAllowList' = tradeAllowList
    BY <1>1, <1>2, <1>5
  <2> QED BY <1>1, <1>2, <2>1, <2>2 DEF PermissionsTracked
<1> QED BY <1>3, <1>4, <1>5

\* removeModule empties the mapping because the list names all of it.
LEMMA RemovalTracked ==
  ASSUME IndexTypeOK, PermissionsTracked, RemoveIndex
  PROVE  /\ PermissionsTracked'
         /\ tradersHistory' \in Seq(Trader)
<1>1. /\ tradersHistory' = <<>> /\ anyoneTrade' = FALSE
      /\ tradeAllowList' = {}
  BY DEF RemoveIndex, PermissionsTracked
<1>2. Elements(<<>>) = {} /\ ~HasDuplicate(<<>>)
  BY DEF Elements, HasDuplicate
<1> QED BY <1>1, <1>2 DEF PermissionsTracked

\* Steps that leave the permissions alone.
LEMMA PermissionsFrame ==
  ASSUME PermissionsTracked, UNCHANGED <<tradersHistory, tradeAllowList>>,
         \/ UNCHANGED <<anyoneTrade, indexOn>>
         \/ indexOn' = TRUE
  PROVE  PermissionsTracked'
  BY DEF PermissionsTracked

-----------------------------------------------------------------------------
(* Types.                                                                  *)

\* Before initialize, nobody may trade.
LEMMA IndexTypeInit == ASSUME IndexInit PROVE IndexTypeOK /\ PermissionsTracked
<1>1. /\ tradersHistory = <<>> /\ tradeAllowList = {} /\ anyoneTrade = FALSE
      /\ indexOn = FALSE
  BY DEF IndexInit
<1>2. Elements(<<>>) = {} /\ ~HasDuplicate(<<>>) /\ <<>> \in Seq(Trader)
  BY DEF Elements, HasDuplicate
<1>3. /\ targetUnit \in [Component -> Nat] /\ maxSize \in [Component -> Nat]
      /\ rebalanceMultiplier \in Nat /\ raiseTargetPercentage \in Nat
  BY DEF IndexInit
<1> QED BY <1>1, <1>2, <1>3 DEF IndexTypeOK, PermissionsTracked

\* With a multiplier logged, units and notional amounts are natural numbers.
LEMMA NotionalTypes ==
  ASSUME TypeOK, IndexTypeOK, NEW c \in Component, rebalanceMultiplier > 0
  PROVE  /\ GetNormalizedTargetUnit(c) \in Nat
         /\ CurrentNotional(c) \in Nat
         /\ TargetNotional(c) \in Nat
<1>1. /\ targetUnit[c] \in Nat /\ positionMultiplier \in Nat
      /\ rebalanceMultiplier \in Nat \ {0}
      /\ totalSupply \in Nat /\ DefaultRealUnit(c) \in Nat
  BY ComponentFacts DEF IndexTypeOK
<1>2. targetUnit[c] * positionMultiplier \in Nat
  BY <1>1
<1>3. GetNormalizedTargetUnit(c) \in Nat
  BY <1>1, <1>2, DivBounds DEF GetNormalizedTargetUnit
<1> QED BY <1>1, <1>3, PreciseMulBounds, PreciseMulCeilBounds
        DEF CurrentNotional, TargetNotional

\* The size of a trade is a natural number, the fee being below one on a buy.
LEMMA TradeSizeType ==
  ASSUME TypeOK, IndexTypeOK, NEW c \in Component, NEW f \in Nat,
         rebalanceMultiplier > 0,
         IsSendTokenFixed(c) \/ f < PreciseUnit
  PROVE  TotalFixedQuantity(c, f) \in Nat
<1>1. /\ CurrentNotional(c) \in Nat /\ TargetNotional(c) \in Nat
      /\ maxSize[c] \in Nat /\ PreciseUnit \in Nat
  BY NotionalTypes, ComponentFacts DEF IndexTypeOK
<1>2. CASE IsSendTokenFixed(c)
  <2>1. CurrentNotional(c) - TargetNotional(c) \in Nat
    BY <1>1, <1>2 DEF IsSendTokenFixed
  <2> QED BY <1>1, <1>2, <2>1 DEF TotalFixedQuantity, Lesser
<1>3. CASE ~IsSendTokenFixed(c)
  <2>1. /\ TargetNotional(c) - CurrentNotional(c) \in Nat
        /\ PreciseUnit - f \in Nat \ {0}
    BY <1>1, <1>3 DEF IsSendTokenFixed
  <2>2. GrossOfFee(TargetNotional(c) - CurrentNotional(c), f) \in Nat
    BY <2>1, PreciseDivBounds DEF GrossOfFee
  <2> QED BY <1>1, <1>3, <2>2 DEF TotalFixedQuantity, Lesser
<1> QED BY <1>2, <1>3

\* Every operation keeps the types of the module's state and its permissions.
LEMMA IndexTypeStep ==
  ASSUME TypeOK, IndexTypeOK, PermissionsTracked, IndexNext
  PROVE  IndexTypeOK' /\ PermissionsTracked'
<1>0. /\ Targets \subseteq Nat /\ TradeMaximums \subseteq Nat
      /\ Multipliers \subseteq Nat /\ RaisePercentages \subseteq Nat
  BY IndexAssumption
<1>1. ASSUME InitializeIndex PROVE IndexTypeOK' /\ PermissionsTracked'
  <2>1. \A c \in Component : DefaultRealUnit(c) \in Nat
    BY ComponentFacts
  <2>2. targetUnit' \in [Component -> Nat]
    BY <1>1, <2>1 DEF InitializeIndex, IndexTypeOK
  <2>3. rebalanceMultiplier' \in Nat
    BY <1>1, MultiplierType DEF InitializeIndex
  <2>4. /\ UNCHANGED <<maxSize, raiseTargetPercentage, tradersHistory,
                       tradeAllowList, anyoneTrade>>
        /\ indexOn' = TRUE
    BY <1>1 DEF InitializeIndex, permissionVars
  <2> QED BY <2>2, <2>3, <2>4, PermissionsFrame DEF IndexTypeOK
<1>2. ASSUME RemoveIndex PROVE IndexTypeOK' /\ PermissionsTracked'
  <2>1. /\ UNCHANGED <<targetUnit, maxSize>>
        /\ rebalanceMultiplier' = 0 /\ raiseTargetPercentage' = 0
        /\ anyoneTrade' = FALSE /\ indexOn' = FALSE
        /\ tradeAllowList' \subseteq tradeAllowList
    BY <1>2 DEF RemoveIndex, executionVars
  <2>2. PermissionsTracked' /\ tradersHistory' \in Seq(Trader)
    BY <1>2, RemovalTracked
  <2> QED BY <2>1, <2>2 DEF IndexTypeOK
<1>3. ASSUME NEW new \in SUBSET Component, NEW t \in [Component -> Targets],
             NEW m \in Multipliers, StartRebalance(new, t, m)
      PROVE  IndexTypeOK' /\ PermissionsTracked'
  <2>1. targetUnit' \in [Component -> Nat]
    BY <1>0, <1>3 DEF StartRebalance, IndexTypeOK
  <2>2. /\ UNCHANGED <<maxSize, raiseTargetPercentage, tradersHistory,
                       tradeAllowList, anyoneTrade, indexOn>>
        /\ rebalanceMultiplier' = m
    BY <1>3 DEF StartRebalance, permissionVars
  <2> QED BY <1>0, <2>1, <2>2, PermissionsFrame DEF IndexTypeOK
<1>4. ASSUME \/ \E c \in Traded, s \in TradeMaximums : SetTradeMaximum(c, s)
             \/ \E c \in Traded, p \in CoolOffPeriods : SetCoolOffPeriod(c, p)
             \/ \E p \in RaisePercentages : SetRaiseTargetPercentage(p)
      PROVE  IndexTypeOK' /\ PermissionsTracked'
  <2>1. /\ UNCHANGED <<targetUnit, rebalanceMultiplier, tradersHistory,
                       tradeAllowList, anyoneTrade, indexOn>>
        /\ maxSize' \in [Component -> Nat]
        /\ raiseTargetPercentage' \in Nat
    BY <1>0, <1>4 DEF SetTradeMaximum, SetCoolOffPeriod, SetRaiseTargetPercentage,
                      IndexTypeOK, executionVars, rebalanceVars, permissionVars
  <2> QED BY <2>1, PermissionsFrame DEF IndexTypeOK
<1>5. ASSUME NEW t \in Trader, NEW s \in BOOLEAN, SetTraderStatus(t, s)
      PROVE  IndexTypeOK' /\ PermissionsTracked'
  <2>1. /\ UNCHANGED <<targetUnit, maxSize, rebalanceMultiplier,
                       raiseTargetPercentage, anyoneTrade, indexOn>>
        /\ tradeAllowList' \subseteq tradeAllowList \cup {t}
    BY <1>5 DEF SetTraderStatus, executionVars, rebalanceVars
  <2>2. PermissionsTracked' /\ tradersHistory' \in Seq(Trader)
    BY <1>5, StatusTracked
  <2> QED BY <2>1, <2>2 DEF IndexTypeOK
<1>6. ASSUME NEW s \in BOOLEAN, SetAnyoneTrade(s)
      PROVE  IndexTypeOK' /\ PermissionsTracked'
  <2>1. /\ UNCHANGED <<targetUnit, maxSize, rebalanceMultiplier, tradersHistory,
                       raiseTargetPercentage, tradeAllowList>>
        /\ anyoneTrade' = s /\ indexOn /\ indexOn' = TRUE
    BY <1>6 DEF SetAnyoneTrade, executionVars, rebalanceVars, IndexTypeOK
  <2> QED BY <2>1, PermissionsFrame DEF IndexTypeOK
<1>7. ASSUME UNCHANGED <<targetUnit, maxSize, rebalanceMultiplier,
                         raiseTargetPercentage, permissionVars, indexOn>>
      PROVE  IndexTypeOK' /\ PermissionsTracked'
  BY <1>7, PermissionsFrame DEF IndexTypeOK, permissionVars
<1>8. ASSUME \/ \E t \in Trader, c \in Traded, r \in Floating, f \in TradeFees :
                  SellComponent(t, c, r, f)
             \/ \E t \in Trader, c \in Traded, s \in Floating, f \in TradeFees :
                  BuyComponent(t, c, s, f)
             \/ \E t \in Trader, c \in Traded, r \in Floating, f \in TradeFees :
                  TradeRemainingWETH(t, c, r, f)
      PROVE  IndexTypeOK' /\ PermissionsTracked'
  <2>1. UNCHANGED <<targetUnit, maxSize, rebalanceMultiplier,
                    raiseTargetPercentage, permissionVars, indexOn>>
    BY <1>8 DEF SellComponent, BuyComponent, TradeRemainingWETH, Execute,
                rebalanceVars
  <2> QED BY <1>7, <2>1
<1>9. ASSUME NEW t \in Trader, RaiseAssetTargets(t)
      PROVE  IndexTypeOK' /\ PermissionsTracked'
  <2>1. /\ rebalanceMultiplier' =
             PreciseDiv(rebalanceMultiplier, PreciseUnit + raiseTargetPercentage)
        /\ UNCHANGED <<targetUnit, maxSize, raiseTargetPercentage,
                       permissionVars, indexOn>>
    BY <1>9 DEF RaiseAssetTargets, executionVars
  <2>2. PreciseUnit + raiseTargetPercentage \in Nat \ {0}
        /\ rebalanceMultiplier \in Nat
    BY PreciseUnitAssumption DEF IndexTypeOK
  <2>3. rebalanceMultiplier' \in Nat
    BY <2>1, <2>2, PreciseDivBounds
  <2> QED BY <2>1, <2>3, PermissionsFrame DEF IndexTypeOK, permissionVars
<1>10. ASSUME TimePasses \/ Others PROVE IndexTypeOK' /\ PermissionsTracked'
  <2>1. UNCHANGED <<targetUnit, maxSize, rebalanceMultiplier,
                    raiseTargetPercentage, permissionVars, indexOn>>
    BY <1>10 DEF TimePasses, Others, moduleVars, executionVars, rebalanceVars
  <2> QED BY <1>7, <2>1
<1> QED BY <1>1, <1>2, <1>3, <1>4, <1>5, <1>6, <1>8, <1>9, <1>10 DEF IndexNext

-----------------------------------------------------------------------------
(* Trades as position edits.                                               *)

\* What an index trade does to the positions is backed by what it leaves in
\* the SetToken, the protocol fee deducted.
LEMMA ExecuteEffect ==
  ASSUME TypeOK, NEW c \in Component, NEW s \in Component, NEW r \in Component,
         NEW taken \in Nat, NEW delivered \in Nat, NEW f \in Nat,
         Execute(c, s, taken, r, delivered, f)
  PROVE  /\ EditEffect({s, r})
         /\ UNCHANGED <<paused, streamingVars, unaccrued>>
<1> DEFINE post  == AfterExchange(s, taken, r, delivered)
           fee   == PreciseMul(delivered, f)
           final == [post EXCEPT ![r] = @ - fee]
<1>1. fee \in Nat /\ balance \in [Component -> Nat]
  BY PreciseMulBounds DEF TypeOK
<1>2. /\ taken <= balance[s]
      /\ UpdateAccepted(s, r, final)
      /\ SetPositions(TradedPositions(s, r, final))
      /\ balance' = final
      /\ UNCHANGED <<positionMultiplier, totalSupply, issued>>
      /\ UNCHANGED <<paused, streamingVars, unaccrued>>
  BY DEF Execute, BalancesAfterFee
<1>3. /\ post \in [Component -> Nat]
      /\ \A e \in Component \ {s, r} : post[e] = balance[e]
  BY <1>1, <1>2 DEF AfterExchange
<1>4. final \in [Component -> Int] /\ final[r] >= balance[r]
      /\ \A e \in Component \ {r} : final[e] = post[e]
  <2>1. final[r] >= balance[r]
    BY <1>2 DEF UpdateAccepted
  <2> HIDE DEF post, fee
  <2> QED BY <1>1, <1>3, <2>1
<1> HIDE DEF post, fee
<1>5. final \in [Component -> Nat]
  <2>1. final[r] \in Nat
    BY <1>1, <1>4
  <2>2. \A e \in Component : final[e] \in Nat
    BY <1>3, <1>4, <2>1
  <2> QED BY <1>4, <2>2
<1>6. \A e \in Component \ {s, r} : final[e] = balance[e]
  BY <1>3, <1>4
<1> HIDE DEF final
<1> QED BY <1>2, <1>5, <1>6, ExchangeEffect

\* Every step of the module is one that the accounting knows.
LEMMA IndexAccounting ==
  ASSUME TypeOK, IndexTypeOK, IndexNext
  PROVE  AccountingStep
<1>0. /\ TradeFees \subseteq Nat /\ Floating \subseteq Nat
      /\ Weth \in Component /\ Traded \subseteq Component
  BY IndexAssumption DEF Traded
<1>1. ASSUME NEW t \in Trader, NEW c \in Traded, NEW a \in Floating,
             NEW f \in TradeFees, SellComponent(t, c, a, f)
      PROVE  AccountingStep
  <2>1. /\ rebalanceMultiplier > 0 /\ IsSendTokenFixed(c)
        /\ Execute(c, c, TotalFixedQuantity(c, f), Weth, a, f)
    BY <1>1 DEF SellComponent, ValidTradeParameters
  <2>2. TotalFixedQuantity(c, f) \in Nat
    BY <1>0, <2>1, TradeSizeType
  <2> QED BY <1>0, <2>1, <2>2, ExecuteEffect DEF AccountingStep
<1>2. ASSUME NEW t \in Trader, NEW c \in Traded, NEW a \in Floating,
             NEW f \in TradeFees, BuyComponent(t, c, a, f)
      PROVE  AccountingStep
  <2>1. /\ rebalanceMultiplier > 0 /\ f < PreciseUnit
        /\ Execute(c, Weth, a, c, TotalFixedQuantity(c, f), f)
    BY <1>2 DEF BuyComponent, ValidTradeParameters
  <2>2. TotalFixedQuantity(c, f) \in Nat
    BY <1>0, <2>1, TradeSizeType
  <2> QED BY <1>0, <2>1, <2>2, ExecuteEffect DEF AccountingStep
<1>3. ASSUME NEW t \in Trader, NEW c \in Traded, NEW a \in Floating,
             NEW f \in TradeFees, TradeRemainingWETH(t, c, a, f)
      PROVE  AccountingStep
  <2>1. /\ rebalanceMultiplier > 0 /\ CurrentNotional(Weth) > WethToKeep
        /\ Execute(c, Weth, CurrentNotional(Weth) - WethToKeep, c, a, f)
    BY <1>3 DEF TradeRemainingWETH, ValidTradeParameters
  <2>2. CurrentNotional(Weth) \in Nat /\ WethToKeep \in Nat
    BY <1>0, <2>1, NotionalTypes DEF WethToKeep
  <2>3. CurrentNotional(Weth) - WethToKeep \in Nat
    BY <2>1, <2>2
  <2> QED BY <1>0, <2>1, <2>3, ExecuteEffect DEF AccountingStep
<1>4. ASSUME TimePasses \/ Others PROVE AccountingStep
  BY <1>4 DEF TimePasses, Others, AccountingStep, Next
<1>5. ASSUME \/ InitializeIndex
             \/ RemoveIndex
             \/ \E new \in SUBSET Component, t \in [Component -> Targets],
                   m \in Multipliers : StartRebalance(new, t, m)
             \/ \E c \in Traded, s \in TradeMaximums : SetTradeMaximum(c, s)
             \/ \E c \in Traded, p \in CoolOffPeriods : SetCoolOffPeriod(c, p)
             \/ \E p \in RaisePercentages : SetRaiseTargetPercentage(p)
             \/ \E t \in Trader, s \in BOOLEAN : SetTraderStatus(t, s)
             \/ \E s \in BOOLEAN : SetAnyoneTrade(s)
             \/ \E t \in Trader : RaiseAssetTargets(t)
      PROVE  AccountingStep
  <2>1. UNCHANGED vars
    BY <1>5 DEF InitializeIndex, RemoveIndex, StartRebalance, SetTradeMaximum,
                SetCoolOffPeriod, SetRaiseTargetPercentage, SetTraderStatus,
                SetAnyoneTrade, RaiseAssetTargets
  <2> QED BY <2>1 DEF AccountingStep
<1> QED BY <1>1, <1>2, <1>3, <1>4, <1>5 DEF IndexNext

\* Such a step keeps the types, the component list and the unrounded claims.
LEMMA AccountingInductive ==
  ASSUME TypeOK, ComponentsTracked, ClaimsBacked, AccountingStep
  PROVE  TypeOK' /\ ComponentsTracked' /\ ClaimsBacked'
<1>1. CASE Next
  BY <1>1, TypeStep, TrackedStep, ClaimsStep
<1>2. CASE UNCHANGED vars
  <2>1. TypeOK'
    BY <1>2 DEF TypeOK, vars, positionVars, streamingVars
  <2>2. ComponentsTracked'
    BY <1>2, TrackedFrame DEF vars
  <2>3. ClaimsBacked'
    BY <1>2 DEF ClaimsBacked, vars, positionVars
  <2> QED BY <2>1, <2>2, <2>3
<1>3. ASSUME NEW edited, EditEffect(edited),
             UNCHANGED <<paused, streamingVars, unaccrued>>
      PROVE  TypeOK' /\ ComponentsTracked' /\ ClaimsBacked'
  <2>1. TypeOK'
    BY <1>3, EffectTypes DEF TypeOK, streamingVars
  <2> QED BY <1>3, <2>1, TrackedEdit, ClaimsEdit
<1> QED BY <1>1, <1>2, <1>3 DEF AccountingStep

\* And it keeps a fully collateralized Set so, the multiplier standing still.
LEMMA AccountingCollateral ==
  ASSUME TypeOK, ComponentsTracked, AccountingStep, Collateralized,
         positionMultiplier' = positionMultiplier
  PROVE  Collateralized'
<1>1. CASE Next
  BY <1>1, CollateralStep
<1>2. CASE UNCHANGED vars
  BY <1>2, CollateralFrame DEF vars, positionVars
<1>3. ASSUME NEW edited, EditEffect(edited) PROVE Collateralized'
  BY <1>3, CollateralEdit
<1> QED BY <1>1, <1>2, <1>3 DEF AccountingStep

-----------------------------------------------------------------------------
(* The theorems.                                                           *)

\* What every reachable state of the composition satisfies.
IndexInvariant ==
  /\ TypeOK
  /\ ComponentsTracked
  /\ ClaimsBacked
  /\ IndexTypeOK
  /\ PermissionsTracked

\* It holds initially and every step, of the module or of the others, keeps it.
LEMMA IndexInductive == IndexSpec => []IndexInvariant
<1>1. ASSUME IndexInit PROVE IndexInvariant
  <2>1. Init
    BY <1>1 DEF IndexInit
  <2> QED BY <1>1, <2>1, TypeInit, TrackedInit, ClaimsInit, IndexTypeInit
          DEF IndexInvariant
<1>2. ASSUME IndexInvariant, IndexNext PROVE IndexInvariant'
  BY <1>2, IndexAccounting, AccountingInductive, IndexTypeStep
     DEF IndexInvariant
<1>3. ASSUME IndexInvariant, UNCHANGED indexVars PROVE IndexInvariant'
  <2>1. AccountingStep
    BY <1>3 DEF indexVars, AccountingStep
  <2>2. TypeOK' /\ ComponentsTracked' /\ ClaimsBacked'
    BY <1>3, <2>1, AccountingInductive DEF IndexInvariant
  <2>3. IndexTypeOK' /\ PermissionsTracked'
    BY <1>3, PermissionsFrame
       DEF IndexInvariant, IndexTypeOK, indexVars, moduleVars, executionVars,
           rebalanceVars, permissionVars
  <2> QED BY <2>2, <2>3 DEF IndexInvariant
<1> QED BY <1>1, <1>2, <1>3, PTL DEF IndexSpec

\* The allow list and the history of traders agree in every state, so that
\* removeModule, which clears the one by the other, leaves nobody a permission.
THEOREM PermissionsAreTracked == IndexSpec => []PermissionsTracked
<1>1. IndexInvariant => PermissionsTracked
  BY DEF IndexInvariant
<1> QED BY <1>1, IndexInductive, PTL

\* Rebalancing, whatever targets, sizes and fees, keeps the component list in
\* step with the units.
THEOREM RebalancingTracksComponents == IndexSpec => []ComponentsTracked
<1>1. IndexInvariant => ComponentsTracked
  BY DEF IndexInvariant
<1> QED BY <1>1, IndexInductive, PTL

\* Rebalancing adds nothing to what rounding may cost the holders.
THEOREM RebalancingLossBounded == IndexSpec => []LossBounded
<1>1. IndexInvariant => LossBounded
  BY LossFromClaims DEF IndexInvariant
<1> QED BY <1>1, IndexInductive, PTL

\* No trade of a rebalance makes a fully collateralized Set
\* under-collateralized: the units it writes are those that the balances left
\* after the exchange and the protocol fee cover.
THEOREM RebalancingKeepsCollateral == IndexSpec => CollateralPreserved
<1>1. ASSUME IndexInvariant, [IndexNext]_indexVars
      PROVE  [positionMultiplier' = positionMultiplier /\ Collateralized
                => Collateralized']_vars
  <2>1. CASE IndexNext
    BY <1>1, <2>1, IndexAccounting, AccountingCollateral DEF IndexInvariant
  <2>2. CASE UNCHANGED indexVars
    BY <2>2 DEF indexVars
  <2> QED BY <1>1, <2>1, <2>2
<1> QED BY <1>1, IndexInductive, PTL DEF IndexSpec, CollateralPreserved

-----------------------------------------------------------------------------
(* Targets.  A trade is sized in notional amounts and recorded in units,   *)
(* and each conversion rounds: the four facts below say what the roundings *)
(* add up to once a whole Set exists.                                      *)

\* A notional amount of at least the target's is recorded as at least the
\* target unit.
LEMMA UnitReachesTarget ==
  ASSUME NEW S \in Nat \ {0}, NEW T \in Nat, NEW W \in Nat,
         PreciseMulCeil(S, T) <= W
  PROVE  PreciseDiv(W, S) >= T
<1> DEFINE G == PreciseMulCeil(S, T)
           N == PreciseDiv(W, S)
<1>1. G \in Nat /\ S * T <= PreciseUnit * G
  BY PreciseMulCeilBounds
<1>2. N \in Nat /\ W * PreciseUnit < S * N + S
  BY PreciseDivBounds
<1> HIDE DEF G, N
<1>3. PreciseUnit * G <= W * PreciseUnit
  <2>1. G <= W
    BY DEF G
  <2> QED BY <1>1, <2>1, PreciseUnitAssumption
<1>4. S * T < S * (N + 1)
  BY <1>1, <1>2, <1>3, PreciseUnitAssumption
<1>5. T < N + 1
  BY <1>2, <1>4
<1> QED BY <1>2, <1>5 DEF N

\* One of at most the target's is recorded as at most the target unit: with a
\* whole Set, one base unit of notional is no more than one unit.
LEMMA UnitWithinTarget ==
  ASSUME NEW S \in Nat \ {0}, S >= PreciseUnit, NEW T \in Nat, NEW W \in Nat,
         W <= PreciseMulCeil(S, T)
  PROVE  PreciseDiv(W, S) <= T
<1> DEFINE G == PreciseMulCeil(S, T)
           N == PreciseDiv(W, S)
<1>1. G \in Nat /\ PreciseUnit * G < S * T + PreciseUnit
  BY PreciseMulCeilBounds
<1>2. N \in Nat /\ S * N <= W * PreciseUnit
  BY PreciseDivBounds
<1> HIDE DEF G, N
<1>3. W * PreciseUnit <= PreciseUnit * G
  <2>1. W <= G
    BY DEF G
  <2> QED BY <1>1, <2>1, PreciseUnitAssumption
<1>4. S * N < S * (T + 1)
  BY <1>1, <1>2, <1>3, PreciseUnitAssumption
<1>5. N < T + 1
  BY <1>2, <1>4
<1> QED BY <1>2, <1>5 DEF N

\* What is left of a position after a sale is recorded as no more than it was.
LEMMA UnitAfterSale ==
  ASSUME NEW S \in Nat \ {0}, NEW U \in Nat, NEW W \in Nat,
         W <= PreciseMul(U, S)
  PROVE  PreciseDiv(W, S) <= U
<1> DEFINE C == PreciseMul(U, S)
           N == PreciseDiv(W, S)
<1>1. C \in Nat /\ PreciseUnit * C <= U * S
  BY PreciseMulBounds
<1>2. N \in Nat /\ S * N <= W * PreciseUnit
  BY PreciseDivBounds
<1> HIDE DEF C, N
<1>3. W * PreciseUnit <= PreciseUnit * C
  <2>1. W <= C
    BY DEF C
  <2> QED BY <1>1, <2>1, PreciseUnitAssumption
<1>4. S * N <= S * U
  BY <1>1, <1>2, <1>3, PreciseUnitAssumption
<1>5. N <= U
  BY <1>2, <1>4
<1> QED BY <1>5 DEF N

\* A position that gained a base unit is recorded as no less than it was.
LEMMA UnitAfterPurchase ==
  ASSUME NEW S \in Nat \ {0}, NEW U \in Nat, NEW W \in Nat,
         PreciseMul(U, S) < W
  PROVE  PreciseDiv(W, S) >= U
<1> DEFINE C == PreciseMul(U, S)
           N == PreciseDiv(W, S)
<1>1. C \in Nat /\ U * S < PreciseUnit * C + PreciseUnit
  BY PreciseMulBounds
<1>2. N \in Nat /\ W * PreciseUnit < S * N + S
  BY PreciseDivBounds
<1> HIDE DEF C, N
<1>3. PreciseUnit * C + PreciseUnit <= W * PreciseUnit
  <2>1. C + 1 <= W
    BY <1>1 DEF C
  <2>2. PreciseUnit * (C + 1) <= W * PreciseUnit
    BY <1>1, <2>1, PreciseUnitAssumption
  <2> QED BY <1>1, <2>2, PreciseUnitAssumption
<1>4. S * U < S * (N + 1)
  BY <1>1, <1>2, <1>3, PreciseUnitAssumption
<1>5. U < N + 1
  BY <1>2, <1>4
<1> QED BY <1>2, <1>5 DEF N

\* Notional amounts follow the order of the units.
LEMMA NotionalOrder ==
  ASSUME NEW S \in Nat \ {0}, S >= PreciseUnit, NEW U \in Nat, NEW T \in Nat
  PROVE  /\ PreciseMulCeil(S, T) < PreciseMul(U, S) => T < U
         /\ PreciseMul(U, S) < PreciseMulCeil(S, T) => U <= T
         /\ PreciseMulCeil(S, T) = 0 => T = 0
         /\ PreciseMul(U, S) = 0 => U = 0
<1> DEFINE C == PreciseMul(U, S)
           G == PreciseMulCeil(S, T)
<1>1. /\ C \in Nat /\ PreciseUnit * C <= U * S
      /\ U * S < PreciseUnit * C + PreciseUnit
  BY PreciseMulBounds
<1>2. /\ G \in Nat /\ S * T <= PreciseUnit * G
      /\ PreciseUnit * G < S * T + PreciseUnit
  BY PreciseMulCeilBounds
<1> HIDE DEF C, G
<1>3. ASSUME G < C PROVE T < U
  <2>1. PreciseUnit * G < PreciseUnit * C
    BY <1>1, <1>2, <1>3, PreciseUnitAssumption
  <2>2. S * T < S * U
    BY <1>1, <1>2, <2>1, PreciseUnitAssumption
  <2> QED BY <2>2
<1>4. ASSUME C < G PROVE U <= T
  <2>1. PreciseUnit * (C + 1) <= PreciseUnit * G
    BY <1>1, <1>2, <1>4, PreciseUnitAssumption
  <2>2. PreciseUnit * (C + 1) = PreciseUnit * C + PreciseUnit
    BY <1>1, PreciseUnitAssumption
  <2>3. U * S < S * T + PreciseUnit
    BY <1>1, <1>2, <2>1, <2>2, PreciseUnitAssumption
  <2>4. S * U < S * (T + 1)
    BY <2>3, PreciseUnitAssumption
  <2>5. U < T + 1
    BY <2>4
  <2> QED BY <2>5
<1>5. ASSUME G = 0 PROVE T = 0
  <2>1. S * T <= 0
    BY <1>2, <1>5, PreciseUnitAssumption
  <2> QED BY <2>1
<1>6. ASSUME C = 0 PROVE U = 0
  <2>1. U * S < PreciseUnit
    BY <1>1, <1>6, PreciseUnitAssumption
  <2>2. S * U < S * 1
    BY <2>1, PreciseUnitAssumption
  <2> QED BY <2>2
<1> QED BY <1>3, <1>4, <1>5, <1>6 DEF C, G

-----------------------------------------------------------------------------
(* What an index trade records.                                            *)

\* u is what a SetToken reports for a position whose notional amount is w:
\* the unit of it, less at most the one that a virtual unit may lose.
ReportedFor(u, w) ==
  /\ w \in Nat /\ u \in Nat
  /\ u <= PreciseDiv(w, totalSupply)
  /\ PreciseDiv(w, totalSupply) <= u + 1

\* calculateAndEditDefaultPosition records what the position's notional amount
\* became, and an emptied balance as no position.
LEMMA EditedUnit ==
  ASSUME TypeOK, NEW p, IsPositions(p), NEW e \in Component,
         p.units[e] = virtualUnit[e],
         NEW pre \in Nat, NEW cur \in Nat,
         CalculateAndEditAccepted(p, e, pre, cur)
  PROVE  LET q == CalculateAndEditDefaultPosition(p, e, pre, cur)
         IN  /\ IsPositions(q)
             /\ \A d \in Component \ {e} : q.units[d] = p.units[d]
             /\ cur = 0 => RealUnit(q, e) = 0
             /\ cur # 0 => ReportedFor(RealUnit(q, e),
                                       CurrentNotional(e) + (cur - pre))
<1> DEFINE u == CalculateDefaultEditPositionUnit(p, e, pre, cur)
           q == CalculateAndEditDefaultPosition(p, e, pre, cur)
           v == ConvertRealToVirtualUnit(u, positionMultiplier)
<1>1. u \in Nat
  BY CalculatedUnitBacked
<1>2. q = EditDefaultPosition(p, e, u)
  BY DEF CalculateAndEditDefaultPosition
<1>3. /\ IsPositions(q)
      /\ RealUnit(q, e) <= u
      /\ \A d \in Component \ {e} : q.units[d] = p.units[d]
  <2> HIDE DEF u, q
  <2> QED BY <1>1, <1>2, EditPositions
<1>4. RealUnit(q, e) \in Nat
  BY <1>3, RealUnitType
<1>5. RealUnit(q, e) = ConvertVirtualToRealUnit(v, positionMultiplier)
  <2>1. q.units = [p.units EXCEPT ![e] = v]
    BY DEF EditDefaultPosition, CalculateAndEditDefaultPosition
  <2>2. q.units[e] = v
    BY <2>1 DEF IsPositions
  <2> QED BY <2>2 DEF RealUnit
<1>6. u <= RealUnit(q, e) + 1
  <2>1. positionMultiplier \in 1 .. PreciseUnit
    BY DEF TypeOK
  <2> HIDE DEF u, q
  <2> QED BY <1>1, <1>5, <2>1, RoundTripLosesAtMostOne
<1>7. cur = 0 => u = 0
  BY DEF CalculateDefaultEditPositionUnit
<1>8. ASSUME cur # 0
      PROVE  /\ CurrentNotional(e) + (cur - pre) \in Nat
             /\ u = PreciseDiv(CurrentNotional(e) + (cur - pre), totalSupply)
  <2>1. RealUnit(p, e) = DefaultRealUnit(e)
    BY RealUnits DEF RealUnit
  <2>2. AirdroppedAmount(p, e, pre) = pre - CurrentNotional(e)
    BY <2>1 DEF AirdroppedAmount, CurrentNotional
  <2>3. CurrentNotional(e) \in Nat
    <3>1. DefaultRealUnit(e) \in Nat /\ totalSupply \in Nat
      BY ComponentFacts
    <3> QED BY <3>1, PreciseMulBounds DEF CurrentNotional
  <2>4. cur >= pre - CurrentNotional(e)
    BY <1>8, <2>2 DEF CalculateAndEditAccepted
  <2>5. cur - (pre - CurrentNotional(e)) = CurrentNotional(e) + (cur - pre)
    BY <2>3
  <2>6. u = PreciseDiv(cur - (pre - CurrentNotional(e)), totalSupply)
    BY <1>8, <2>2 DEF CalculateDefaultEditPositionUnit
  <2> QED BY <2>3, <2>4, <2>5, <2>6
<1> HIDE DEF u, q
<1>9. cur = 0 => RealUnit(q, e) = 0
  BY <1>1, <1>3, <1>4, <1>7
<1>10. cur # 0 => ReportedFor(RealUnit(q, e), CurrentNotional(e) + (cur - pre))
  BY <1>3, <1>4, <1>6, <1>8 DEF ReportedFor
<1> QED BY <1>3, <1>9, <1>10 DEF q

\* Both sides of a trade are recorded for what their balances became; nothing
\* else moves.
LEMMA ExecutedUnits ==
  ASSUME TypeOK, NEW c \in Component, NEW s \in Component, NEW r \in Component,
         s # r, NEW taken \in Nat, NEW delivered \in Nat, NEW f \in Nat,
         Execute(c, s, taken, r, delivered, f)
  PROVE  /\ balance[s] \in Nat /\ balance[r] \in Nat
         /\ taken <= balance[s]
         /\ balance'[s] = balance[s] - taken
         /\ balance'[r] = balance[r] + delivered - PreciseMul(delivered, f)
         /\ balance'[r] >= balance[r]
         /\ \A e \in Component \ {s, r} : virtualUnit'[e] = virtualUnit[e]
         /\ \A e \in {s, r} :
              /\ balance'[e] = 0 => DefaultRealUnit(e)' = 0
              /\ balance'[e] # 0 =>
                   ReportedFor(DefaultRealUnit(e)',
                               CurrentNotional(e) + (balance'[e] - balance[e]))
         /\ UNCHANGED <<positionMultiplier, totalSupply, targetUnit,
                        rebalanceMultiplier>>
<1> DEFINE post  == AfterExchange(s, taken, r, delivered)
           fee   == PreciseMul(delivered, f)
           final == [post EXCEPT ![r] = @ - fee]
           p1 == CalculateAndEditDefaultPosition(
                   Positions, s, balance[s], final[s])
           p2 == CalculateAndEditDefaultPosition(
                   p1, r, balance[r], final[r])
<1>1. fee \in Nat /\ balance \in [Component -> Nat]
  BY PreciseMulBounds DEF TypeOK
<1>2. /\ taken <= balance[s]
      /\ UpdateAccepted(s, r, final)
      /\ SetPositions(TradedPositions(s, r, final))
      /\ balance' = final
      /\ UNCHANGED <<positionMultiplier, totalSupply, targetUnit,
                     rebalanceMultiplier>>
  BY DEF Execute, BalancesAfterFee, rebalanceVars
<1>3. /\ post \in [Component -> Nat]
      /\ post[s] = balance[s] - taken
      /\ post[r] = balance[r] + delivered
  BY <1>1, <1>2 DEF AfterExchange
<1> HIDE DEF post, fee
<1>4. /\ final \in [Component -> Int]
      /\ final[s] = balance[s] - taken
      /\ final[r] = balance[r] + delivered - fee
  BY <1>1, <1>3
<1>5. /\ CalculateAndEditAccepted(Positions, s, balance[s], final[s])
      /\ CalculateAndEditAccepted(p1, r, balance[r], final[r])
      /\ final[r] >= balance[r]
      /\ SetPositions(p2)
  BY <1>2 DEF UpdateAccepted, TradedPositions
<1>6. balance[s] \in Nat /\ balance[r] \in Nat /\ final[s] \in Nat /\ final[r] \in Nat
  BY <1>1, <1>2, <1>4, <1>5
<1> HIDE DEF final
<1>7. /\ IsPositions(Positions)
      /\ \A d \in Component : Positions.units[d] = virtualUnit[d]
  BY CurrentPositions DEF Positions
<1>8. /\ IsPositions(p1)
      /\ \A d \in Component \ {s} : p1.units[d] = virtualUnit[d]
      /\ final[s] = 0 => RealUnit(p1, s) = 0
      /\ final[s] # 0 => ReportedFor(RealUnit(p1, s),
                                     CurrentNotional(s) + (final[s] - balance[s]))
  BY <1>5, <1>6, <1>7, EditedUnit
<1> HIDE DEF p1
<1>9. /\ IsPositions(p2)
      /\ \A d \in Component \ {r} : p2.units[d] = p1.units[d]
      /\ final[r] = 0 => RealUnit(p2, r) = 0
      /\ final[r] # 0 => ReportedFor(RealUnit(p2, r),
                                     CurrentNotional(r) + (final[r] - balance[r]))
  BY <1>5, <1>6, <1>8, EditedUnit
<1> HIDE DEF p2
<1>10. virtualUnit' = p2.units
  BY <1>5 DEF SetPositions
<1>11. RealUnit(p2, s) = RealUnit(p1, s)
  BY <1>9 DEF RealUnit
<1>12. \A e \in {s, r} : DefaultRealUnit(e)' = RealUnit(p2, e)
  BY <1>2, <1>10, RealUnits DEF RealUnit
<1>13. \A e \in Component \ {s, r} : virtualUnit'[e] = virtualUnit[e]
  BY <1>8, <1>9, <1>10
<1>14. \A e \in {s, r} :
         /\ balance'[e] = 0 => DefaultRealUnit(e)' = 0
         /\ balance'[e] # 0 =>
              ReportedFor(DefaultRealUnit(e)',
                          CurrentNotional(e) + (balance'[e] - balance[e]))
  BY <1>2, <1>8, <1>9, <1>11, <1>12
<1> QED BY <1>2, <1>4, <1>5, <1>6, <1>13, <1>14 DEF fee

\* What is left after the protocol fee of a purchase sized with GrossOfFee: no
\* more than the amount wanted, all of it when the purchase is not cut short,
\* and something of every purchase.
LEMMA NetOfFee ==
  ASSUME NEW f \in Nat, f < PreciseUnit, NEW w \in Nat, NEW x \in Nat \ {0},
         x <= GrossOfFee(w, f)
  PROVE  LET net == x - PreciseMul(x, f)
         IN  /\ net \in Nat \ {0}
             /\ net <= w
             /\ x = GrossOfFee(w, f) => net = w
<1> DEFINE y == PreciseUnit - f
           g == GrossOfFee(w, f)
           fee == PreciseMul(x, f)
           net == x - fee
<1>0. y \in Nat \ {0} /\ y <= PreciseUnit /\ PreciseUnit \in Nat \ {0}
  BY PreciseUnitAssumption
<1>1. g \in Nat /\ y * g <= w * PreciseUnit /\ w * PreciseUnit < y * g + y
  <2> HIDE DEF y
  <2>1. g = PreciseDiv(w, y)
    BY DEF GrossOfFee, y
  <2> HIDE DEF g
  <2> QED BY <1>0, <2>1, PreciseDivBounds
<1>2. /\ fee \in Nat /\ PreciseUnit * fee <= x * f
      /\ x * f < PreciseUnit * fee + PreciseUnit
  BY PreciseMulBounds
<1>3. x <= g
  OBVIOUS
<1> HIDE DEF g, fee
<1>4. y * x = PreciseUnit * x - x * f /\ x * f \in Nat /\ y * x \in Nat
  BY <1>0
<1>5. y * x <= y * g
  BY <1>0, <1>1, <1>3
<1>6. PreciseUnit * net = PreciseUnit * x - PreciseUnit * fee /\ net \in Int
  BY <1>0, <1>2
<1> HIDE DEF y, net
<1> DEFINE A == PreciseUnit * x
           B == PreciseUnit * fee
           F == x * f
           K == y * x
           L == y * g
           M == w * PreciseUnit
<1>7. A \in Nat /\ B \in Nat /\ F \in Nat /\ K \in Nat /\ L \in Nat /\ M \in Nat
  BY <1>0, <1>1, <1>2, <1>4
<1>8. /\ L <= M /\ M < L + y /\ B <= F /\ F < B + PreciseUnit
      /\ K = A - F /\ K <= L /\ PreciseUnit * net = A - B
  BY <1>1, <1>2, <1>4, <1>5, <1>6
<1>9. x = g => K = L
  OBVIOUS
<1>10. K > 0
  BY <1>0
<1> HIDE DEF A, B, F, K, L
<1>11. /\ PreciseUnit * net > 0
       /\ PreciseUnit * net < M + PreciseUnit
       /\ x = g => PreciseUnit * net > M - PreciseUnit
  BY <1>0, <1>7, <1>8, <1>9, <1>10
<1>12. /\ PreciseUnit * net < PreciseUnit * (w + 1)
       /\ x = g => PreciseUnit * net > PreciseUnit * (w - 1)
  BY <1>0, <1>6, <1>7, <1>11
<1>13. net > 0
  BY <1>0, <1>6, <1>11
<1>14. net < w + 1
  BY <1>0, <1>6, <1>12
<1>15. ASSUME x = g PROVE net > w - 1
  BY <1>0, <1>6, <1>12, <1>15
<1> QED BY <1>6, <1>13, <1>14, <1>15 DEF net, g, fee

\* The numbers that trade sizes are computed from.
LEMMA TradeFacts ==
  ASSUME IndexInvariant, totalSupply >= PreciseUnit, rebalanceMultiplier > 0,
         NEW c \in Component
  PROVE  /\ totalSupply \in Nat \ {0}
         /\ balance[c] \in Nat
         /\ DefaultRealUnit(c) \in Nat
         /\ GetNormalizedTargetUnit(c) \in Nat
         /\ CurrentNotional(c) \in Nat
         /\ TargetNotional(c) \in Nat
         /\ CurrentNotional(c) = PreciseMul(DefaultRealUnit(c), totalSupply)
         /\ TargetNotional(c)
              = PreciseMulCeil(totalSupply, GetNormalizedTargetUnit(c))
<1>1. TypeOK /\ IndexTypeOK
  BY DEF IndexInvariant
<1>2. totalSupply \in Nat \ {0} /\ DefaultRealUnit(c) \in Nat /\ balance[c] \in Nat
  BY <1>1, ComponentFacts, PreciseUnitAssumption DEF TypeOK
<1> QED BY <1>1, <1>2, NotionalTypes DEF CurrentNotional, TargetNotional

\* A sale of a component that is held in full ends between its target and
\* where it was, and at its target unless the maximum cuts it short.
LEMMA SaleEnds ==
  ASSUME IndexInvariant, totalSupply >= PreciseUnit,
         NEW t \in Trader, NEW c \in Traded, NEW a \in Floating,
         NEW f \in TradeFees, HeldInFull(c), SellComponent(t, c, a, f)
  PROVE  LET T == GetNormalizedTargetUnit(c)
         IN  /\ T \in Nat /\ DefaultRealUnit(c) \in Nat
             /\ DefaultRealUnit(c)' \in Nat
             /\ GetNormalizedTargetUnit(c)' = T
             /\ T < DefaultRealUnit(c)
             /\ T - 1 <= DefaultRealUnit(c)'
             /\ DefaultRealUnit(c)' <= DefaultRealUnit(c)
             /\ TotalFixedQuantity(c, f) < maxSize[c] => DefaultRealUnit(c)' <= T
<1> DEFINE S == totalSupply
           T == GetNormalizedTargetUnit(c)
           U == DefaultRealUnit(c)
           R == DefaultRealUnit(c)'
           C == CurrentNotional(c)
           G == TargetNotional(c)
           X == TotalFixedQuantity(c, f)
<1>0. /\ c \in Component /\ Weth \in Component /\ c # Weth
      /\ a \in Nat /\ f \in Nat /\ TypeOK /\ IndexTypeOK
  BY IndexAssumption DEF Traded, IndexInvariant
<1>1. /\ rebalanceMultiplier > 0 /\ G < C /\ IsSendTokenFixed(c)
      /\ Execute(c, c, X, Weth, a, f)
  BY DEF SellComponent, ValidTradeParameters, IsSendTokenFixed
<1>2. /\ S \in Nat \ {0} /\ balance[c] \in Nat /\ U \in Nat /\ T \in Nat
      /\ C \in Nat /\ G \in Nat
      /\ C = PreciseMul(U, S) /\ G = PreciseMulCeil(S, T)
  BY <1>0, <1>1, TradeFacts
<1>3. X \in Nat /\ X <= C - G /\ (X < maxSize[c] => X = C - G)
  <2>1. X = Lesser(maxSize[c], C - G)
    BY <1>1 DEF TotalFixedQuantity
  <2>2. X \in Nat /\ maxSize[c] \in Nat
    BY <1>0, <1>1, TradeSizeType DEF IndexTypeOK
  <2> HIDE DEF X, C, G
  <2> QED BY <1>2, <2>1, <2>2 DEF Lesser
<1>4. /\ balance'[c] = balance[c] - X
      /\ balance'[c] = 0 => R = 0
      /\ balance'[c] # 0 => ReportedFor(R, C + (balance'[c] - balance[c]))
      /\ UNCHANGED <<positionMultiplier, targetUnit, rebalanceMultiplier>>
  BY <1>0, <1>1, <1>3, ExecutedUnits
<1>5. GetNormalizedTargetUnit(c)' = T
  BY <1>4 DEF GetNormalizedTargetUnit
<1>6. T < U
  BY <1>1, <1>2, NotionalOrder
<1>7. C <= balance[c]
  BY DEF HeldInFull
<1> HIDE DEF S, T, U, R, C, G, X
<1>8. CASE balance'[c] = 0
  <2>1. G = 0
    BY <1>2, <1>3, <1>4, <1>7, <1>8
  <2>2. T = 0
    BY <1>2, <2>1, NotionalOrder DEF S
  <2> QED BY <1>2, <1>4, <1>5, <1>6, <1>8, <2>2 DEF T, U, R, X
<1>9. CASE balance'[c] # 0
  <2> DEFINE W == C - X
             N == PreciseDiv(W, S)
  <2>1. W \in Nat /\ G <= W /\ W <= C /\ (X < maxSize[c] => W <= G)
    BY <1>2, <1>3
  <2>2. C + (balance'[c] - balance[c]) = W
    BY <1>2, <1>3, <1>4
  <2>3. R \in Nat /\ R <= N /\ N <= R + 1
    BY <1>4, <1>9, <2>2 DEF ReportedFor, S
  <2> HIDE DEF W
  <2>4. N \in Nat
    BY <1>2, <2>1, PreciseDivBounds
  <2>5. T <= N
    BY <1>2, <2>1, UnitReachesTarget
  <2>6. N <= U
    BY <1>2, <2>1, UnitAfterSale
  <2>7. X < maxSize[c] => N <= T
    BY <1>2, <2>1, UnitWithinTarget DEF S
  <2> HIDE DEF N
  <2>8. T - 1 <= R /\ R <= U /\ (X < maxSize[c] => R <= T)
    BY <1>2, <2>3, <2>4, <2>5, <2>6, <2>7
  <2> QED BY <1>2, <1>5, <1>6, <2>3, <2>8 DEF T, U, R, X
<1> QED BY <1>8, <1>9

\* A purchase ends between where the component was, less a rounding, and its
\* target, and at the target unless the maximum cuts it short.
LEMMA PurchaseEnds ==
  ASSUME IndexInvariant, totalSupply >= PreciseUnit,
         NEW t \in Trader, NEW c \in Traded, NEW a \in Floating,
         NEW f \in TradeFees, BuyComponent(t, c, a, f)
  PROVE  LET T == GetNormalizedTargetUnit(c)
         IN  /\ T \in Nat \ {0} /\ DefaultRealUnit(c) \in Nat
             /\ DefaultRealUnit(c)' \in Nat
             /\ GetNormalizedTargetUnit(c)' = T
             /\ DefaultRealUnit(c) <= T
             /\ DefaultRealUnit(c) - 1 <= DefaultRealUnit(c)'
             /\ DefaultRealUnit(c)' <= T
             /\ TotalFixedQuantity(c, f) < maxSize[c]
                  => T - 1 <= DefaultRealUnit(c)'
<1> DEFINE S == totalSupply
           T == GetNormalizedTargetUnit(c)
           U == DefaultRealUnit(c)
           R == DefaultRealUnit(c)'
           C == CurrentNotional(c)
           G == TargetNotional(c)
           X == TotalFixedQuantity(c, f)
           net == X - PreciseMul(X, f)
<1>0. /\ c \in Component /\ Weth \in Component /\ c # Weth
      /\ a \in Nat /\ f \in Nat /\ TypeOK /\ IndexTypeOK
  BY IndexAssumption DEF Traded, IndexInvariant
<1>1. /\ rebalanceMultiplier > 0 /\ ~(G < C) /\ ~IsSendTokenFixed(c)
      /\ f < PreciseUnit /\ X > 0
      /\ Execute(c, Weth, a, c, X, f)
  BY DEF BuyComponent, ValidTradeParameters, IsSendTokenFixed
<1>2. /\ S \in Nat \ {0} /\ balance[c] \in Nat /\ U \in Nat /\ T \in Nat
      /\ C \in Nat /\ G \in Nat
      /\ C = PreciseMul(U, S) /\ G = PreciseMulCeil(S, T)
  BY <1>0, <1>1, TradeFacts
<1>3. /\ G - C \in Nat
      /\ X \in Nat \ {0} /\ X <= GrossOfFee(G - C, f)
      /\ X < maxSize[c] => X = GrossOfFee(G - C, f)
  <2>1. X = Lesser(maxSize[c], GrossOfFee(G - C, f))
    BY <1>1 DEF TotalFixedQuantity
  <2>2. X \in Nat /\ maxSize[c] \in Nat
    BY <1>0, <1>1, TradeSizeType DEF IndexTypeOK
  <2>3. G - C \in Nat
    BY <1>1, <1>2
  <2>4. PreciseUnit - f \in Nat \ {0}
    BY <1>0, <1>1, PreciseUnitAssumption
  <2>5. GrossOfFee(G - C, f) \in Nat
    BY <2>3, <2>4, PreciseDivBounds DEF GrossOfFee
  <2> HIDE DEF X, C, G
  <2> QED BY <1>1, <2>1, <2>2, <2>3, <2>5 DEF Lesser
<1>4. /\ balance'[c] = balance[c] + X - PreciseMul(X, f)
      /\ balance'[c] # 0 => ReportedFor(R, C + (balance'[c] - balance[c]))
      /\ UNCHANGED <<positionMultiplier, targetUnit, rebalanceMultiplier>>
  BY <1>0, <1>1, <1>3, ExecutedUnits
<1>5. GetNormalizedTargetUnit(c)' = T
  BY <1>4 DEF GetNormalizedTargetUnit
<1>6. PreciseMul(X, f) \in Nat
  BY <1>0, <1>3, PreciseMulBounds
<1> HIDE DEF S, T, U, R, C, G, X
<1>7. net \in Nat \ {0} /\ net <= G - C /\ (X < maxSize[c] => net = G - C)
  BY <1>0, <1>1, <1>3, NetOfFee
<1>8. balance'[c] = balance[c] + net /\ balance'[c] # 0
  BY <1>2, <1>3, <1>4, <1>6, <1>7
<1> HIDE DEF net
<1> DEFINE W == C + net
           N == PreciseDiv(W, S)
<1>9. W \in Nat /\ C < W /\ W <= G /\ (X < maxSize[c] => G <= W)
  BY <1>2, <1>7
<1>10. C + (balance'[c] - balance[c]) = W
  BY <1>2, <1>7, <1>8
<1>11. R \in Nat /\ R <= N /\ N <= R + 1
  BY <1>4, <1>8, <1>10 DEF ReportedFor, S
<1>12. U <= T
  <2>1. C < G
    BY <1>2, <1>9
  <2> QED BY <1>2, <2>1, NotionalOrder DEF S
<1> HIDE DEF W
<1>13. N \in Nat
  BY <1>2, <1>9, PreciseDivBounds
<1>14. U <= N
  BY <1>2, <1>9, UnitAfterPurchase
<1>15. N <= T
  BY <1>2, <1>9, UnitWithinTarget DEF S
<1>16. X < maxSize[c] => T <= N
  BY <1>2, <1>9, UnitReachesTarget
<1>17. T # 0
  <2>1. ASSUME T = 0 PROVE G = 0
    BY <2>1, <1>2 DEF PreciseMulCeil
  <2> QED BY <2>1, <1>2, <1>9
<1> HIDE DEF N
<1>18. U - 1 <= R /\ R <= T /\ (X < maxSize[c] => T - 1 <= R)
  BY <1>2, <1>11, <1>13, <1>14, <1>15, <1>16
<1> QED BY <1>2, <1>5, <1>11, <1>12, <1>17, <1>18 DEF T, U, R, X

\* tradeRemainingWETH spends WETH down to its target, held in full, and adds
\* to a component that is not above its own.
LEMMA RemainderEnds ==
  ASSUME IndexInvariant, totalSupply >= PreciseUnit,
         NEW t \in Trader, NEW c \in Traded, NEW a \in Floating,
         NEW f \in TradeFees, TradeRemainingWETH(t, c, a, f)
  PROVE  /\ HeldInFull(Weth) =>
              DefaultRealUnit(Weth)' >= GetNormalizedTargetUnit(Weth) - 1
         /\ DefaultRealUnit(c) <= GetNormalizedTargetUnit(c)
         /\ HeldInFull(c) /\ balance'[c] # balance[c] =>
              /\ DefaultRealUnit(c)' \in Nat
              /\ DefaultRealUnit(c) \in Nat
              /\ GetNormalizedTargetUnit(c) \in Nat
              /\ DefaultRealUnit(c) - 1 <= DefaultRealUnit(c)'
              /\ DefaultRealUnit(c)' <= GetNormalizedTargetUnit(c)
<1> DEFINE S == totalSupply
           T == GetNormalizedTargetUnit(Weth)
           U == DefaultRealUnit(Weth)
           R == DefaultRealUnit(Weth)'
           C == CurrentNotional(Weth)
           G == TargetNotional(Weth)
           X == C - G
           Tc == GetNormalizedTargetUnit(c)
           Uc == DefaultRealUnit(c)
           Rc == DefaultRealUnit(c)'
           Cc == CurrentNotional(c)
<1>0. /\ c \in Component /\ Weth \in Component /\ c # Weth
      /\ a \in Nat /\ f \in Nat /\ TypeOK /\ IndexTypeOK
  BY IndexAssumption DEF Traded, IndexInvariant
<1>1. /\ rebalanceMultiplier > 0 /\ C > G
      /\ Execute(c, Weth, X, c, a, f)
      /\ c \in rebalanceComponents /\ NoTokensToSell
      /\ Rc <= Tc
  BY DEF TradeRemainingWETH, ValidTradeParameters, WethToKeep
<1>2. /\ S \in Nat \ {0} /\ balance[Weth] \in Nat /\ U \in Nat /\ T \in Nat
      /\ C \in Nat /\ G \in Nat
      /\ C = PreciseMul(U, S) /\ G = PreciseMulCeil(S, T)
      /\ balance[c] \in Nat /\ Uc \in Nat /\ Tc \in Nat /\ Cc \in Nat
      /\ Cc = PreciseMul(Uc, S)
  BY <1>0, <1>1, TradeFacts
<1>3. X \in Nat
  BY <1>1, <1>2
<1>4. /\ balance'[Weth] = balance[Weth] - X
      /\ balance'[Weth] = 0 => R = 0
      /\ balance'[Weth] # 0 => ReportedFor(R, C + (balance'[Weth] - balance[Weth]))
      /\ balance'[c] >= balance[c]
      /\ balance'[c] = balance[c] + a - PreciseMul(a, f)
      /\ balance'[c] # 0 => ReportedFor(Rc, Cc + (balance'[c] - balance[c]))
  BY <1>0, <1>1, <1>3, ExecutedUnits
<1>5. Uc <= Tc
  BY <1>0, <1>1, <1>2 DEF NoTokensToSell, CanSell
<1> HIDE DEF S, T, U, R, C, G, Tc, Uc, Rc, Cc
<1>6. ASSUME C <= balance[Weth] PROVE R >= T - 1
  <2>1. CASE balance'[Weth] = 0
    <3>1. G = 0
      BY <1>2, <1>4, <1>6, <2>1
    <3>2. T = 0
      BY <1>2, <3>1, NotionalOrder DEF S
    <3> QED BY <1>4, <2>1, <3>2
  <2>2. CASE balance'[Weth] # 0
    <3>1. C + (balance'[Weth] - balance[Weth]) = G
      BY <1>2, <1>4
    <3>2. R \in Nat /\ PreciseDiv(G, S) <= R + 1
      BY <1>4, <2>2, <3>1 DEF ReportedFor, S
    <3>3. T <= PreciseDiv(G, S)
      BY <1>2, UnitReachesTarget
    <3>4. PreciseDiv(G, S) \in Nat
      BY <1>2, PreciseDivBounds
    <3> QED BY <1>2, <3>2, <3>3, <3>4
  <2> QED BY <2>1, <2>2
<1>7. ASSUME balance'[c] # balance[c]
      PROVE  Rc \in Nat /\ Uc - 1 <= Rc
  <2> DEFINE W == Cc + (balance'[c] - balance[c])
  <2>1. PreciseMul(a, f) \in Nat
    BY <1>0, PreciseMulBounds
  <2>2. balance'[c] # 0 /\ W \in Nat /\ Cc < W
    BY <1>0, <1>2, <1>4, <1>7, <2>1
  <2>3. Rc \in Nat /\ PreciseDiv(W, S) <= Rc + 1
    BY <1>4, <2>2 DEF ReportedFor, S
  <2> HIDE DEF W
  <2>4. Uc <= PreciseDiv(W, S)
    BY <1>2, <2>2, UnitAfterPurchase
  <2>5. PreciseDiv(W, S) \in Nat
    BY <1>2, <2>2, PreciseDivBounds
  <2> QED BY <1>2, <2>3, <2>4, <2>5
<1> QED BY <1>1, <1>2, <1>5, <1>6, <1>7
        DEF HeldInFull, T, R, C, Tc, Uc, Rc

\* Only a trade of a component edits its position: issuance, redemption, the
\* streaming fee and the settings leave all virtual units alone, and a trade
\* edits WETH and the component it names.
LEMMA OnlyTradesEdit ==
  ASSUME IndexInvariant, IndexNext, NEW c \in Traded,
         virtualUnit'[c] # virtualUnit[c]
  PROVE  \E t \in Trader, a \in Floating, f \in TradeFees :
           \/ SellComponent(t, c, a, f)
           \/ BuyComponent(t, c, a, f)
           \/ TradeRemainingWETH(t, c, a, f)
<1>0. /\ TradeFees \subseteq Nat /\ Floating \subseteq Nat /\ TypeOK /\ IndexTypeOK
      /\ Weth \in Component /\ Traded \subseteq Component /\ Weth \notin Traded
  BY IndexAssumption DEF Traded, IndexInvariant
<1>1. ASSUME NEW t \in Trader, NEW d \in Traded, NEW a \in Floating,
             NEW f \in TradeFees, SellComponent(t, d, a, f)
      PROVE  d = c
  <2>1. /\ rebalanceMultiplier > 0 /\ IsSendTokenFixed(d)
        /\ Execute(d, d, TotalFixedQuantity(d, f), Weth, a, f)
    BY <1>1 DEF SellComponent, ValidTradeParameters
  <2>2. TotalFixedQuantity(d, f) \in Nat
    BY <1>0, <2>1, TradeSizeType
  <2>3. \A e \in Component \ {d, Weth} : virtualUnit'[e] = virtualUnit[e]
    BY <1>0, <2>1, <2>2, ExecutedUnits
  <2> QED BY <1>0, <2>3
<1>2. ASSUME NEW t \in Trader, NEW d \in Traded, NEW a \in Floating,
             NEW f \in TradeFees, BuyComponent(t, d, a, f)
      PROVE  d = c
  <2>1. /\ rebalanceMultiplier > 0 /\ f < PreciseUnit
        /\ Execute(d, Weth, a, d, TotalFixedQuantity(d, f), f)
    BY <1>2 DEF BuyComponent, ValidTradeParameters
  <2>2. TotalFixedQuantity(d, f) \in Nat
    BY <1>0, <2>1, TradeSizeType
  <2>3. \A e \in Component \ {Weth, d} : virtualUnit'[e] = virtualUnit[e]
    BY <1>0, <2>1, <2>2, ExecutedUnits
  <2> QED BY <1>0, <2>3
<1>3. ASSUME NEW t \in Trader, NEW d \in Traded, NEW a \in Floating,
             NEW f \in TradeFees, TradeRemainingWETH(t, d, a, f)
      PROVE  d = c
  <2>1. /\ rebalanceMultiplier > 0 /\ CurrentNotional(Weth) > WethToKeep
        /\ Execute(d, Weth, CurrentNotional(Weth) - WethToKeep, d, a, f)
    BY <1>3 DEF TradeRemainingWETH, ValidTradeParameters
  <2>2. CurrentNotional(Weth) \in Nat /\ WethToKeep \in Nat
    BY <1>0, <2>1, NotionalTypes DEF WethToKeep
  <2>3. CurrentNotional(Weth) - WethToKeep \in Nat
    BY <2>1, <2>2
  <2>4. \A e \in Component \ {Weth, d} : virtualUnit'[e] = virtualUnit[e]
    BY <1>0, <2>1, <2>3, ExecutedUnits
  <2> QED BY <1>0, <2>4
<1>4. ASSUME TimePasses \/ Others PROVE virtualUnit' = virtualUnit
  <2>1. ASSUME TimePasses PROVE virtualUnit' = virtualUnit
    BY <2>1 DEF TimePasses, Tick, positionVars, vars
  <2>2. ASSUME NEW q \in Quantities, Issue(q) PROVE virtualUnit' = virtualUnit
    BY <2>2 DEF Issue, positionVars
  <2>3. ASSUME NEW q \in Quantities, NEW f \in FeeRates, Redeem(q, f)
        PROVE  virtualUnit' = virtualUnit
    BY <2>3 DEF Redeem, positionVars
  <2>4. ASSUME NEW m \in StreamingRates, NEW f \in StreamingRates,
               InitializeStreaming(m, f)
        PROVE  virtualUnit' = virtualUnit
    BY <2>4 DEF InitializeStreaming, positionVars
  <2>5. ASSUME NEW pf \in FeeRates, AccrueFee(pf) PROVE virtualUnit' = virtualUnit
    BY <2>5 DEF AccrueFee
  <2> QED BY <1>4, <2>1, <2>2, <2>3, <2>4, <2>5 DEF Others
<1>5. ASSUME UNCHANGED vars PROVE FALSE
  BY <1>5 DEF vars, positionVars
<1>6. \/ \E t \in Trader, d \in Traded, a \in Floating, f \in TradeFees :
           \/ SellComponent(t, d, a, f)
           \/ BuyComponent(t, d, a, f)
           \/ TradeRemainingWETH(t, d, a, f)
      \/ TimePasses \/ Others
      \/ UNCHANGED vars
  BY DEF IndexNext, InitializeIndex, RemoveIndex, StartRebalance,
         SetTradeMaximum, SetCoolOffPeriod, SetRaiseTargetPercentage,
         SetTraderStatus, SetAnyoneTrade, RaiseAssetTargets
<1> QED BY <1>1, <1>2, <1>3, <1>4, <1>5, <1>6

\* No trade of a rebalance takes a component past its target, for every scale,
\* fee, maximum, multiplier and supply of at least one Set.
THEOREM TargetsAreNotCrossed == IndexSpec => TargetNotCrossed
<1> DEFINE Moved(c) ==
             /\ HeldInFull(c)
             /\ virtualUnit'[c] # virtualUnit[c]
             /\ balance'[c] # balance[c]
           Within(c) ==
             LET target == GetNormalizedTargetUnit(c) IN
             IF DefaultRealUnit(c) <= target
             THEN DefaultRealUnit(c)' \in (DefaultRealUnit(c) - 1) .. target
             ELSE DefaultRealUnit(c)' \in (target - 1) .. DefaultRealUnit(c)
<1>1. ASSUME IndexInvariant, [IndexNext]_indexVars, totalSupply >= PreciseUnit,
             NEW c \in Traded, Moved(c)
      PROVE  Within(c)
  <2>1. IndexNext
    BY <1>1 DEF indexVars, vars, positionVars
  <2>2. PICK t \in Trader, a \in Floating, f \in TradeFees :
           \/ SellComponent(t, c, a, f)
           \/ BuyComponent(t, c, a, f)
           \/ TradeRemainingWETH(t, c, a, f)
    BY <1>1, <2>1, OnlyTradesEdit
  <2>3. CASE SellComponent(t, c, a, f)
    BY <1>1, <2>3, SaleEnds
  <2>4. CASE BuyComponent(t, c, a, f)
    BY <1>1, <2>4, PurchaseEnds
  <2>5. CASE TradeRemainingWETH(t, c, a, f)
    BY <1>1, <2>5, RemainderEnds
  <2> QED BY <2>2, <2>3, <2>4, <2>5
<1>2. ASSUME IndexInvariant, [IndexNext]_indexVars
      PROVE  [totalSupply >= PreciseUnit =>
                \A c \in Traded : Moved(c) => Within(c)]_indexVars
  BY <1>1, <1>2
<1> QED BY <1>2, IndexInductive, PTL DEF IndexSpec, TargetNotCrossed

\* tradeRemainingWETH keeps the WETH target, also after fees or raised targets
\* have moved it since the rebalance began.
THEOREM WethTargetIsKept == IndexSpec => WethTargetKept
<1>1. ASSUME IndexInvariant
      PROVE  [totalSupply >= PreciseUnit /\ HeldInFull(Weth) =>
                \A t \in Trader, c \in Traded, r \in Floating, f \in TradeFees :
                  TradeRemainingWETH(t, c, r, f) =>
                    DefaultRealUnit(Weth)' >= GetNormalizedTargetUnit(Weth) - 1]_indexVars
  BY <1>1, RemainderEnds
<1> QED BY <1>1, IndexInductive, PTL DEF IndexSpec, WethTargetKept

\* A trade that the maximum does not cut short meets its target, the protocol
\* fee of a purchase included.
THEOREM UncappedTradesMeetTargets == IndexSpec => UncappedTradeMeetsTarget
<1> DEFINE Uncapped(t, c, a, f) ==
             /\ HeldInFull(c)
             /\ SellComponent(t, c, a, f) \/ BuyComponent(t, c, a, f)
             /\ TotalFixedQuantity(c, f) < maxSize[c]
<1>1. ASSUME IndexInvariant, totalSupply >= PreciseUnit,
             NEW t \in Trader, NEW c \in Traded, NEW a \in Floating,
             NEW f \in TradeFees, Uncapped(t, c, a, f)
      PROVE  ~TargetUnmet(c)'
  <2> DEFINE T == GetNormalizedTargetUnit(c)
             R == DefaultRealUnit(c)'
  <2>1. /\ T \in Nat /\ R \in Nat /\ GetNormalizedTargetUnit(c)' = T
        /\ T - 1 <= R /\ R <= T
    BY <1>1, SaleEnds, PurchaseEnds
  <2>2. TargetUnmet(c)' <=>
          /\ c # Weth
          /\ IF GetNormalizedTargetUnit(c)' > 0
             THEN R \notin (GetNormalizedTargetUnit(c)' - 1) .. (GetNormalizedTargetUnit(c)' + 1)
             ELSE R # 0
    BY DEF TargetUnmet
  <2> HIDE DEF T, R
  <2> QED BY <2>1, <2>2
<1>2. ASSUME IndexInvariant
      PROVE  [totalSupply >= PreciseUnit =>
                \A t \in Trader, c \in Traded, a \in Floating, f \in TradeFees :
                  Uncapped(t, c, a, f) => ~TargetUnmet(c)']_indexVars
  BY <1>1, <1>2
<1> QED BY <1>2, IndexInductive, PTL DEF IndexSpec, UncappedTradeMeetsTarget

==============================================================================
