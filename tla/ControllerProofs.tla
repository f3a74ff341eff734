--------------------------- MODULE ControllerProofs ---------------------------
(***************************************************************************)
(* The Controller's arrays, mappings and resource identifiers agree, for   *)
(* any number of addresses and any sequence of governance calls, except    *)
(* for addresses that initialize was given twice.                          *)
(***************************************************************************)
EXTENDS Controller, LibraryProofs

\* The inductive invariant.
ControllerInv ==
  /\ TypeOK /\ ListsMatchMappings /\ ResourceIdsExact
  /\ ~isInitialized => repeated = {}

\* A new Controller has nothing enabled.
LEMMA ControllerInit == Init => ControllerInv
<1> SUFFICES ASSUME Init PROVE ControllerInv
  OBVIOUS
<1> USE ControllerAssumption
<1>1. TypeOK
  <2>1. fees \in [ModuleAddr -> [FeeType -> Percentage]]
    BY DEF Init
  <2>2. resourceId \in [ResourceId -> ResourceAddr \cup {Zero}]
    BY DEF Init
  <2>3. /\ sets \in Seq(SetAddr) /\ factories \in Seq(FactoryAddr)
        /\ modules \in Seq(ModuleAddr) /\ resources \in Seq(ResourceAddr)
    BY DEF Init
  <2> QED BY <2>1, <2>2, <2>3 DEF Init, TypeOK
<1>2. ListsMatchMappings
  BY DEF Init, ListsMatchMappings, Agrees, Elements, Repeated
<1>3. ResourceIdsExact
  BY DEF Init, ResourceIdsExact
<1> QED BY <1>1, <1>2, <1>3 DEF Init, ControllerInv

\* A push to an array with the matching entry of its mapping (addSet,
\* addFactory, addModule, addResource) keeps the two in agreement.
LEMMA AgreesAfterAdd ==
  ASSUME NEW S, NEW list \in Seq(S), NEW mapping, NEW except, NEW a \in S,
         Agrees(list, mapping, except), a \notin mapping
  PROVE  Append(list, a) \in Seq(S) /\ Agrees(Append(list, a), mapping \cup {a}, except)
<1> DEFINE B == Append(list, a)
           n == Len(list)
<1>1. /\ B \in Seq(S) /\ n \in Nat /\ DOMAIN B = 1 .. n + 1 /\ DOMAIN list = 1 .. n
      /\ \A i \in 1 .. n : B[i] = list[i]
      /\ B[n + 1] = a
  OBVIOUS
<1> HIDE DEF B, n
<1>2. /\ mapping \subseteq Elements(list) /\ Elements(list) \ except \subseteq mapping
      /\ Repeated(list) \subseteq except
  BY DEF Agrees
<1>3. Elements(B) = Elements(list) \cup {a}
  <2>1. \A i \in 1 .. n + 1 : i \in 1 .. n \/ i = n + 1
    BY <1>1
  <2>2. \A i \in 1 .. n : i \in 1 .. n + 1
    BY <1>1
  <2>3. n + 1 \in 1 .. n + 1
    BY <1>1
  <2> QED BY <1>1, <2>1, <2>2, <2>3 DEF Elements
<1>4. ASSUME NEW x \in Repeated(B) PROVE x \in except
  <2>1. PICK i \in 1 .. n + 1, j \in 1 .. n + 1 : i # j /\ B[i] = x /\ B[j] = x
    BY <1>1, <1>4 DEF Repeated
  <2>2. CASE i \in 1 .. n /\ j \in 1 .. n
    <3>1. x \in Repeated(list)
      BY <1>1, <2>1, <2>2 DEF Repeated
    <3> QED BY <1>2, <3>1
  <2>3. CASE ~(i \in 1 .. n /\ j \in 1 .. n)
    <3>1. \E p \in 1 .. n : B[p] = x
      BY <1>1, <2>1, <2>3
    <3>2. x = a
      BY <1>1, <2>1, <2>3
    <3>3. x \in Elements(list)
      BY <1>1, <3>1 DEF Elements
    <3> QED BY <1>2, <3>2, <3>3
  <2> QED BY <2>2, <2>3
<1>5. Agrees(B, mapping \cup {a}, except)
  BY <1>2, <1>3, <1>4 DEF Agrees
<1> QED BY <1>1, <1>5 DEF B

\* So does a removal from both (removeSet, removeFactory, removeModule,
\* removeResource).
LEMMA AgreesAfterRemove ==
  ASSUME NEW S, NEW list \in Seq(S), NEW mapping, NEW except, NEW a \in Elements(list),
         Agrees(list, mapping, except)
  PROVE  Remove(list, a) \in Seq(S) /\ Agrees(Remove(list, a), mapping \ {a}, except)
<1> DEFINE B == Remove(list, a)
           k == IndexOf(list, a)
<1>1. /\ B \in Seq(S) /\ Elements(list) \ {a} \subseteq Elements(B)
      /\ \A i \in DOMAIN B : \E p \in DOMAIN list \ {k} :
           /\ B[i] = list[p]
           /\ \A j \in DOMAIN B : i < j => \E q \in DOMAIN list : p < q /\ B[j] = list[q]
  BY RemoveShifts
<1>2. k \in DOMAIN list /\ list[k] = a
  BY IndexOfHolds
<1>3. DOMAIN B \subseteq Nat /\ DOMAIN list \subseteq Nat
  BY <1>1
<1> HIDE DEF B, k
<1>4. /\ mapping \subseteq Elements(list) /\ Elements(list) \ except \subseteq mapping
      /\ Repeated(list) \subseteq except
  BY DEF Agrees
<1>5. ASSUME NEW x \in Elements(B) PROVE x \in Elements(list) /\ (x = a => a \in except)
  <2>1. PICK p \in DOMAIN list \ {k} : x = list[p]
    BY <1>1, <1>5 DEF Elements
  <2>2. x = a => a \in Repeated(list)
    BY <1>2, <2>1 DEF Repeated
  <2> QED BY <1>4, <2>1, <2>2 DEF Elements
<1>6. ASSUME NEW x \in Repeated(B) PROVE x \in except
  <2>1. PICK i \in DOMAIN B, j \in DOMAIN B : i < j /\ B[i] = x /\ B[j] = x
    <3>1. PICK i \in DOMAIN B, j \in DOMAIN B : i # j /\ B[i] = x /\ B[j] = x
      BY <1>6 DEF Repeated
    <3>2. i < j \/ j < i
      BY <1>3, <3>1
    <3> QED BY <3>1, <3>2
  <2>2. PICK p \in DOMAIN list, q \in DOMAIN list : p < q /\ x = list[p] /\ x = list[q]
    BY <1>1, <2>1
  <2>3. p # q
    BY <1>3, <2>2
  <2> QED BY <1>4, <2>2, <2>3 DEF Repeated
<1>7. Agrees(B, mapping \ {a}, except)
  BY <1>1, <1>4, <1>5, <1>6 DEF Agrees
<1> QED BY <1>1, <1>7 DEF B

\* An array without address(0) is an array of the proper addresses.
LEMMA NonZeroList ==
  ASSUME NEW S, NEW A \in Seq(S \cup {Zero}), Zero \notin Elements(A)
  PROVE  A \in Seq(S) /\ Elements(A) \subseteq S
<1>1. /\ Len(A) \in Nat
      /\ DOMAIN A = 1 .. Len(A)
      /\ A \in [1 .. Len(A) -> S \cup {Zero}]
  OBVIOUS
<1>2. \A i \in 1 .. Len(A) : A[i] \in S
  BY <1>1 DEF Elements
<1>3. A \in [1 .. Len(A) -> S]
  BY <1>1, <1>2
<1>4. A \in Seq(S)
  BY <1>1, <1>3
<1>5. Elements(A) \subseteq S
  BY <1>1, <1>2 DEF Elements
<1> QED BY <1>4, <1>5

\* initialize establishes the agreement, and remembers what was repeated.
LEMMA InitializeEstablishes ==
  ASSUME ControllerInv, NEW lists \in InitialLists, Initialize(lists)
  PROVE  ControllerInv'
<1> DEFINE R   == lists.resources
           ids == lists.ids
<1>1. TypeOK /\ ListsMatchMappings /\ ResourceIdsExact
  BY DEF ControllerInv
<1>2. /\ lists.factories \in Seq(FactoryAddr)
      /\ Elements(lists.factories) \subseteq FactoryAddr
  BY ControllerAssumption, NonZeroList DEF Initialize
<1>3. /\ lists.modules \in Seq(ModuleAddr)
      /\ Elements(lists.modules) \subseteq ModuleAddr
  BY ControllerAssumption, NonZeroList DEF Initialize
<1>4. R \in Seq(ResourceAddr) /\ Elements(R) \subseteq ResourceAddr
  BY ControllerAssumption, NonZeroList DEF Initialize
<1>5. ids \in Seq(ResourceId) /\ ~HasDuplicate(ids) /\ Len(R) = Len(ids)
  BY ControllerAssumption DEF Initialize, RegisterInitialLists
<1>6. /\ repeated = {}
      /\ repeated' = Repeated(lists.factories) \cup Repeated(lists.modules) \cup Repeated(R)
  BY DEF ControllerInv, Initialize, RegisterInitialLists
<1>7. /\ factories' = lists.factories /\ isFactory' = Elements(lists.factories)
      /\ modules' = lists.modules /\ isModule' = Elements(lists.modules)
      /\ resources' = R /\ isResource' = Elements(R)
      /\ resourceId' = [id \in ResourceId |->
                          IF Contains(ids, id) THEN R[IndexOf(ids, id)] ELSE Zero]
      /\ isInitialized' = TRUE
      /\ UNCHANGED <<sets, isSet, fees, feeRecipient>>
  BY DEF Initialize, RegisterInitialLists, setVars, feeVars
<1> HIDE DEF R, ids
<1>8. /\ DOMAIN R = 1 .. Len(ids) /\ DOMAIN ids = 1 .. Len(ids) /\ Len(ids) \in Nat
      /\ \A i \in 1 .. Len(ids) : R[i] \in ResourceAddr /\ ids[i] \in ResourceId
  BY <1>4, <1>5
<1>9. \A id \in ResourceId : Contains(ids, id) =>
        /\ IndexOf(ids, id) \in 1 .. Len(ids)
        /\ ids[IndexOf(ids, id)] = id
  <2> SUFFICES ASSUME NEW id \in ResourceId, Contains(ids, id)
               PROVE  /\ IndexOf(ids, id) \in 1 .. Len(ids)
                      /\ ids[IndexOf(ids, id)] = id
    OBVIOUS
  <2>1. id \in Elements(ids)
    BY DEF Contains, Elements
  <2> QED BY <1>5, <2>1, IndexOfFinds
<1>10. \A i \in 1 .. Len(ids) :
         Contains(ids, ids[i]) /\ IndexOf(ids, ids[i]) = i
  <2> SUFFICES ASSUME NEW i \in 1 .. Len(ids)
               PROVE  Contains(ids, ids[i]) /\ IndexOf(ids, ids[i]) = i
    OBVIOUS
  <2>1. Contains(ids, ids[i]) /\ ids[i] \in Elements(ids)
    BY <1>8 DEF Contains, Elements
  <2> QED BY <1>5, <2>1, IndexOfFinds
<1>11. \A id \in ResourceId :
         resourceId'[id] = IF Contains(ids, id) THEN R[IndexOf(ids, id)] ELSE Zero
  BY <1>7
<1>12. resourceId' \in [ResourceId -> ResourceAddr \cup {Zero}]
  BY <1>7, <1>8, <1>9
<1>13. TypeOK'
  BY <1>1, <1>2, <1>3, <1>4, <1>7, <1>12 DEF TypeOK
<1>14. ListsMatchMappings'
  <2>1. Agrees(sets', isSet', repeated')
    BY <1>1, <1>6, <1>7 DEF ListsMatchMappings, Agrees
  <2>2. /\ Agrees(factories', isFactory', repeated')
        /\ Agrees(modules', isModule', repeated')
        /\ Agrees(resources', isResource', repeated')
    BY <1>6, <1>7 DEF Agrees
  <2> QED BY <2>1, <2>2 DEF ListsMatchMappings
<1>15. ResourceIdsExact'
  <2>1. ASSUME NEW r \in isResource' PROVE \E id \in ResourceId : resourceId'[id] = r
    <3>1. PICK i \in 1 .. Len(ids) : r = R[i]
      BY <1>7, <1>8, <2>1 DEF Elements
    <3>2. resourceId'[ids[i]] = r /\ ids[i] \in ResourceId
      BY <1>8, <1>10, <1>11, <3>1
    <3> QED BY <3>2
  <2>2. ASSUME NEW id \in ResourceId, resourceId'[id] # Zero
        PROVE  resourceId'[id] \in isResource' /\ Contains(ids, id)
    <3>1. Contains(ids, id) /\ resourceId'[id] = R[IndexOf(ids, id)]
      BY <1>11, <2>2
    <3> QED BY <1>7, <1>8, <1>9, <3>1 DEF Elements
  <2>3. ASSUME NEW i \in ResourceId, NEW j \in ResourceId,
               i # j, resourceId'[i] = resourceId'[j], resourceId'[i] # Zero
        PROVE  resourceId'[i] \in repeated'
    <3>1. Contains(ids, i) /\ Contains(ids, j)
      BY <2>2, <2>3
    <3>2. resourceId'[i] = R[IndexOf(ids, i)] /\ R[IndexOf(ids, i)] = R[IndexOf(ids, j)]
      BY <1>11, <2>3, <3>1
    <3>3. /\ IndexOf(ids, i) \in DOMAIN R /\ IndexOf(ids, j) \in DOMAIN R
          /\ IndexOf(ids, i) # IndexOf(ids, j)
      BY <1>8, <1>9, <2>3, <3>1
    <3>4. resourceId'[i] \in Repeated(R)
      BY <3>2, <3>3 DEF Repeated
    <3> QED BY <1>6, <3>4
  <2> QED BY <2>1, <2>2, <2>3 DEF ResourceIdsExact
<1> QED BY <1>7, <1>13, <1>14, <1>15 DEF ControllerInv

\* addResource gives a new resource a free identifier.
LEMMA AddResourceKeeps ==
  ASSUME ControllerInv, NEW r \in ResourceAddr, NEW id \in ResourceId,
         AddResource(r, id)
  PROVE  ControllerInv'
<1>1. TypeOK /\ ListsMatchMappings /\ ResourceIdsExact
  BY DEF ControllerInv
<1>2. /\ resourceId[id] = Zero /\ r \notin isResource
      /\ isResource' = isResource \cup {r}
      /\ resourceId' = [resourceId EXCEPT ![id] = r]
      /\ resources' = Append(resources, r)
      /\ UNCHANGED <<isInitialized, repeated, sets, isSet, factories, isFactory,
                     modules, isModule, fees, feeRecipient>>
  BY DEF AddResource, AddResourceUnderAnyId, initVars, setVars, factoryVars, moduleVars, feeVars
<1>3. resources' \in Seq(ResourceAddr) /\ Agrees(resources', isResource', repeated)
  BY <1>1, <1>2, AgreesAfterAdd DEF TypeOK, ListsMatchMappings
<1>4. resourceId' \in [ResourceId -> ResourceAddr \cup {Zero}]
  BY <1>1, <1>2 DEF TypeOK
<1>5. TypeOK'
  BY <1>1, <1>2, <1>3, <1>4 DEF TypeOK
<1>6. ListsMatchMappings'
  BY <1>1, <1>2, <1>3 DEF ListsMatchMappings
<1>8. \A i \in ResourceId : resourceId'[i] = IF i = id THEN r ELSE resourceId[i]
  BY <1>1, <1>2 DEF TypeOK
<1>9. \A i \in ResourceId : resourceId[i] = r => r \in repeated \cup {Zero}
  BY <1>1, <1>2 DEF ResourceIdsExact
<1>10. ASSUME NEW x \in isResource', x # Zero
       PROVE  \E i \in ResourceId : resourceId'[i] = x
  <2>1. CASE x = r
    BY <1>8, <2>1
  <2>2. CASE x # r
    <3>1. PICK i \in ResourceId : resourceId[i] = x
      BY <1>1, <1>2, <1>10, <2>2 DEF ResourceIdsExact
    <3>2. i # id
      BY <1>2, <1>10, <3>1
    <3> QED BY <1>8, <3>1, <3>2
  <2> QED BY <2>1, <2>2
<1>11. ASSUME NEW i \in ResourceId, resourceId'[i] \notin repeated \cup {Zero}
       PROVE  resourceId'[i] \in isResource'
  BY <1>1, <1>2, <1>8, <1>11 DEF ResourceIdsExact
<1>12. \A i, j \in ResourceId :
         i # j /\ resourceId'[i] = resourceId'[j] => resourceId'[i] \in repeated \cup {Zero}
  BY <1>1, <1>8, <1>9 DEF ResourceIdsExact
<1>13. ResourceIdsExact'
  BY <1>2, <1>10, <1>11, <1>12 DEF ResourceIdsExact
<1> QED BY <1>2, <1>5, <1>6, <1>13 DEF ControllerInv

\* removeResource frees the one identifier of the resource it removes.
LEMMA RemoveResourceKeeps ==
  ASSUME ControllerInv, NEW id \in ResourceId, RemoveResource(id)
  PROVE  ControllerInv'
<1> DEFINE r == resourceId[id]
<1>1. TypeOK /\ ListsMatchMappings /\ ResourceIdsExact
  BY DEF ControllerInv
<1>2. /\ r # Zero
      /\ resources' = Remove(resources, r)
      /\ resourceId' = [resourceId EXCEPT ![id] = Zero]
      /\ isResource' = isResource \ {r}
      /\ UNCHANGED <<isInitialized, repeated, sets, isSet, factories, isFactory,
                     modules, isModule, fees, feeRecipient>>
  BY DEF RemoveResource, initVars, setVars, factoryVars, moduleVars, feeVars
<1>3. r \in Elements(resources)
  BY DEF RemoveResource, Contains, Elements
<1>4. resources' \in Seq(ResourceAddr) /\ Agrees(resources', isResource', repeated)
  BY <1>1, <1>2, <1>3, AgreesAfterRemove DEF TypeOK, ListsMatchMappings
<1>5. resourceId' \in [ResourceId -> ResourceAddr \cup {Zero}]
  BY <1>1, <1>2 DEF TypeOK
<1>6. TypeOK'
  BY <1>1, <1>2, <1>4, <1>5 DEF TypeOK
<1>7. ListsMatchMappings'
  BY <1>1, <1>2, <1>4 DEF ListsMatchMappings
<1>8. \A i \in ResourceId :
        resourceId'[i] = IF i = id THEN Zero ELSE resourceId[i]
  BY <1>1, <1>2 DEF TypeOK
<1>9. ASSUME NEW x \in isResource', x # Zero
      PROVE  \E i \in ResourceId : resourceId'[i] = x
  <2>1. PICK i \in ResourceId : resourceId[i] = x
    BY <1>1, <1>2, <1>9 DEF ResourceIdsExact
  <2>2. i # id
    BY <1>2, <1>9, <2>1
  <2> QED BY <1>8, <2>1, <2>2
<1>10. ASSUME NEW i \in ResourceId, resourceId'[i] \notin repeated \cup {Zero}
       PROVE  resourceId'[i] \in isResource'
  <2>1. i # id /\ resourceId'[i] = resourceId[i]
    BY <1>8, <1>10
  <2>2. resourceId[i] # r
    BY <1>1, <1>10, <2>1 DEF ResourceIdsExact
  <2> QED BY <1>1, <1>2, <1>10, <2>1, <2>2 DEF ResourceIdsExact
<1>11. \A i, j \in ResourceId :
         i # j /\ resourceId'[i] = resourceId'[j] => resourceId'[i] \in repeated \cup {Zero}
  BY <1>1, <1>8 DEF ResourceIdsExact
<1>12. ResourceIdsExact'
  BY <1>2, <1>9, <1>10, <1>11 DEF ResourceIdsExact
<1> QED BY <1>2, <1>6, <1>7, <1>12 DEF ControllerInv

\* Every governance or factory call preserves the inductive invariant.
LEMMA ControllerStep ==
  ControllerInv /\ [Next]_vars => ControllerInv'
<1> SUFFICES ASSUME ControllerInv, [Next]_vars PROVE ControllerInv'
  OBVIOUS
<1>0. TypeOK /\ ListsMatchMappings /\ ResourceIdsExact /\ (~isInitialized => repeated = {})
  BY DEF ControllerInv
<1> USE DEF initVars, setVars, factoryVars, moduleVars, resourceVars, feeVars
<1>1. ASSUME NEW lists \in InitialLists, Initialize(lists) PROVE ControllerInv'
  BY <1>1, InitializeEstablishes
<1>2. ASSUME NEW f \in FactoryAddr \ {Zero}, NEW s \in SetAddr, AddSet(f, s)
      PROVE  ControllerInv'
  <2>1. sets' \in Seq(SetAddr) /\ Agrees(sets', isSet', repeated)
    BY <1>0, <1>2, AgreesAfterAdd DEF AddSet, TypeOK, ListsMatchMappings
  <2>2. TypeOK'
    BY <1>0, <1>2, <2>1 DEF AddSet, TypeOK
  <2>3. ListsMatchMappings' /\ ResourceIdsExact'
    BY <1>0, <1>2, <2>1 DEF AddSet, ListsMatchMappings, ResourceIdsExact
  <2> QED BY <1>0, <1>2, <2>2, <2>3 DEF ControllerInv, AddSet
<1>3. ASSUME NEW s \in SetAddr, RemoveSet(s) PROVE ControllerInv'
  <2>1. sets' \in Seq(SetAddr) /\ Agrees(sets', isSet', repeated)
    <3>1. sets \in Seq(SetAddr) /\ Agrees(sets, isSet, repeated)
      BY <1>0 DEF TypeOK, ListsMatchMappings
    <3>2. s \in Elements(sets) /\ sets' = Remove(sets, s) /\ isSet' = isSet \ {s}
      BY <1>3, <3>1 DEF RemoveSet, Agrees
    <3> QED BY <3>1, <3>2, AgreesAfterRemove
  <2>2. TypeOK'
    BY <1>0, <1>3, <2>1 DEF RemoveSet, TypeOK
  <2>3. ListsMatchMappings' /\ ResourceIdsExact'
    BY <1>0, <1>3, <2>1 DEF RemoveSet, ListsMatchMappings, ResourceIdsExact
  <2> QED BY <1>0, <1>3, <2>2, <2>3 DEF ControllerInv, RemoveSet
<1>4. ASSUME NEW f \in FactoryAddr, AddFactory(f) PROVE ControllerInv'
  <2>1. factories' \in Seq(FactoryAddr) /\ Agrees(factories', isFactory', repeated)
    BY <1>0, <1>4, AgreesAfterAdd DEF AddFactory, TypeOK, ListsMatchMappings
  <2>2. TypeOK'
    BY <1>0, <1>4, <2>1 DEF AddFactory, TypeOK
  <2>3. ListsMatchMappings' /\ ResourceIdsExact'
    BY <1>0, <1>4, <2>1 DEF AddFactory, ListsMatchMappings, ResourceIdsExact
  <2> QED BY <1>0, <1>4, <2>2, <2>3 DEF ControllerInv, AddFactory
<1>5. ASSUME NEW f \in FactoryAddr, RemoveFactory(f) PROVE ControllerInv'
  <2>1. factories' \in Seq(FactoryAddr) /\ Agrees(factories', isFactory', repeated)
    <3>1. factories \in Seq(FactoryAddr) /\ Agrees(factories, isFactory, repeated)
      BY <1>0 DEF TypeOK, ListsMatchMappings
    <3>2. f \in Elements(factories) /\ factories' = Remove(factories, f) /\ isFactory' = isFactory \ {f}
      BY <1>5, <3>1 DEF RemoveFactory, Agrees
    <3> QED BY <3>1, <3>2, AgreesAfterRemove
  <2>2. TypeOK'
    BY <1>0, <1>5, <2>1 DEF RemoveFactory, TypeOK
  <2>3. ListsMatchMappings' /\ ResourceIdsExact'
    BY <1>0, <1>5, <2>1 DEF RemoveFactory, ListsMatchMappings, ResourceIdsExact
  <2> QED BY <1>0, <1>5, <2>2, <2>3 DEF ControllerInv, RemoveFactory
<1>6. ASSUME NEW m \in ModuleAddr, AddModule(m) PROVE ControllerInv'
  <2>1. modules' \in Seq(ModuleAddr) /\ Agrees(modules', isModule', repeated)
    BY <1>0, <1>6, AgreesAfterAdd DEF AddModule, TypeOK, ListsMatchMappings
  <2>2. TypeOK'
    BY <1>0, <1>6, <2>1 DEF AddModule, TypeOK
  <2>3. ListsMatchMappings' /\ ResourceIdsExact'
    BY <1>0, <1>6, <2>1 DEF AddModule, ListsMatchMappings, ResourceIdsExact
  <2> QED BY <1>0, <1>6, <2>2, <2>3 DEF ControllerInv, AddModule
<1>7. ASSUME NEW m \in ModuleAddr, RemoveModule(m) PROVE ControllerInv'
  <2>1. modules' \in Seq(ModuleAddr) /\ Agrees(modules', isModule', repeated)
    <3>1. modules \in Seq(ModuleAddr) /\ Agrees(modules, isModule, repeated)
      BY <1>0 DEF TypeOK, ListsMatchMappings
    <3>2. m \in Elements(modules) /\ modules' = Remove(modules, m) /\ isModule' = isModule \ {m}
      BY <1>7, <3>1 DEF RemoveModule, Agrees
    <3> QED BY <3>1, <3>2, AgreesAfterRemove
  <2>2. TypeOK'
    BY <1>0, <1>7, <2>1 DEF RemoveModule, TypeOK
  <2>3. ListsMatchMappings' /\ ResourceIdsExact'
    BY <1>0, <1>7, <2>1 DEF RemoveModule, ListsMatchMappings, ResourceIdsExact
  <2> QED BY <1>0, <1>7, <2>2, <2>3 DEF ControllerInv, RemoveModule
<1>8. ASSUME NEW r \in ResourceAddr, NEW id \in ResourceId, AddResource(r, id)
      PROVE  ControllerInv'
  BY <1>8, AddResourceKeeps
<1>9. ASSUME NEW id \in ResourceId, RemoveResource(id) PROVE ControllerInv'
  BY <1>9, RemoveResourceKeeps
<1>10. ASSUME NEW m \in ModuleAddr, NEW t \in FeeType, NEW p \in Percentage,
              AddFee(m, t, p) \/ EditFee(m, t, p)
       PROVE  ControllerInv'
  <2>1. fees' = [fees EXCEPT ![m][t] = p]
    BY <1>10 DEF AddFee, EditFee
  <2>2. fees' \in [ModuleAddr -> [FeeType -> Percentage]]
    BY <1>0, <2>1 DEF TypeOK
  <2>3. UNCHANGED <<initVars, setVars, factoryVars, moduleVars,
                    resourceVars, feeRecipient>>
    BY <1>10 DEF AddFee, EditFee
  <2>4. TypeOK'
    BY <1>0, <2>2, <2>3 DEF TypeOK
  <2>5. ListsMatchMappings' /\ ResourceIdsExact'
    BY <1>0, <2>3 DEF ListsMatchMappings, ResourceIdsExact
  <2> QED BY <1>0, <2>3, <2>4, <2>5 DEF ControllerInv
<1>11. ASSUME NEW r \in Recipient \cup {Zero}, EditFeeRecipient(r)
       PROVE  ControllerInv'
  <2>1. TypeOK'
    BY <1>0, <1>11 DEF EditFeeRecipient, TypeOK
  <2>2. ListsMatchMappings' /\ ResourceIdsExact'
    BY <1>0, <1>11 DEF EditFeeRecipient, ListsMatchMappings, ResourceIdsExact
  <2> QED BY <1>0, <1>11, <2>1, <2>2 DEF ControllerInv, EditFeeRecipient
<1>12. CASE UNCHANGED vars
  <2>1. TypeOK'
    BY <1>0, <1>12 DEF vars, TypeOK
  <2>2. ListsMatchMappings' /\ ResourceIdsExact'
    BY <1>0, <1>12 DEF vars, ListsMatchMappings, ResourceIdsExact
  <2> QED BY <1>0, <1>12, <2>1, <2>2 DEF ControllerInv, vars
<1> QED BY <1>1, <1>2, <1>3, <1>4, <1>5, <1>6, <1>7, <1>8, <1>9, <1>10, <1>11,
           <1>12 DEF Next

\* The arrays that the getters return and the mappings that modules and
\* factories are tested against agree, after any sequence of calls: an array
\* only ever keeps an address that is not enabled if initialize was given that
\* address twice.
THEOREM ListsAgree == Spec => []ListsMatchMappings
<1>1. ControllerInv => ListsMatchMappings
  BY DEF ControllerInv
<1>2. ControllerInv /\ [Next]_vars => ControllerInv'
  BY ControllerStep
<1> QED BY <1>1, <1>2, ControllerInit, PTL DEF Spec

\* Every enabled resource has an identifier, and identifiers lead to enabled
\* resources only, each to another, but for resources that initialize was
\* given twice; addResource may be called with any address, address(0)
\* included, which is the one that stays without an identifier.
THEOREM ResourceIdsAgree == Spec => []ResourceIdsExact
<1>1. ControllerInv => ResourceIdsExact
  BY DEF ControllerInv
<1>2. ControllerInv /\ [Next]_vars => ControllerInv'
  BY ControllerStep
<1> QED BY <1>1, <1>2, ControllerInit, PTL DEF Spec
==============================================================================
