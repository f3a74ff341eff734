----------------------------- MODULE Controller -----------------------------
(***************************************************************************)
(* The registry of the protocol (contracts/protocol/Controller.sol): which *)
(* SetTokens, factories, modules and resources are enabled, the protocol   *)
(* fees of each module and their recipient.  Every list is kept twice, as  *)
(* an array to enumerate and as a mapping to test, and each operation      *)
(* updates both.  A mapping to bool is the set of the addresses it maps to *)
(* true; only the owner calls, except for addSet.  The add functions take  *)
(* address(0) like any other address, so the sets of addresses below may   *)
(* hold it; only initialize refuses it.                                    *)
(***************************************************************************)
EXTENDS AddressArrayUtils

CONSTANTS
  SetAddr,        \* SetTokens
  FactoryAddr,    \* contracts that create SetTokens
  ModuleAddr,     \* modules
  ResourceAddr,   \* resources: integration registry, price oracle, ...
  ResourceId,     \* identifiers of resources
  FeeType,        \* fee types of a module
  Percentage,     \* fee percentages the owner picks from
  Recipient,      \* recipients of the protocol fee
  Zero,           \* address(0)
  InitialLists    \* arguments the owner may give to initialize

ASSUME ControllerAssumption ==
  /\ 0 \in Percentage /\ Percentage \subseteq Nat
  /\ \A lists \in InitialLists :
       /\ lists.factories \in Seq(FactoryAddr \cup {Zero})
       /\ lists.modules \in Seq(ModuleAddr \cup {Zero})
       /\ lists.resources \in Seq(ResourceAddr \cup {Zero})
       /\ lists.ids \in Seq(ResourceId)

\* The addresses that a list names more than once.
Repeated(list) ==
  {list[i] : i \in {k \in DOMAIN list : \E j \in DOMAIN list \ {k} : list[j] = list[k]}}

VARIABLES
  isInitialized,
  sets, factories, modules, resources,         \* the arrays
  isSet, isFactory, isModule, isResource,      \* the mappings
  resourceId,                                  \* identifier -> resource
  fees,                                        \* module -> fee type -> fee
  feeRecipient,
  repeated                                     \* history: the addresses that
                                               \* initialize was given twice

initVars == <<isInitialized, repeated>>
setVars == <<sets, isSet>>
factoryVars == <<factories, isFactory>>
moduleVars == <<modules, isModule>>
resourceVars == <<resources, isResource, resourceId>>
feeVars == <<fees, feeRecipient>>
vars == <<initVars, setVars, factoryVars, moduleVars, resourceVars, feeVars>>

\* The constructor stores its recipient unchecked, so it may be address(0).
Init ==
  /\ isInitialized = FALSE /\ repeated = {}
  /\ sets = <<>> /\ isSet = {}
  /\ factories = <<>> /\ isFactory = {}
  /\ modules = <<>> /\ isModule = {}
  /\ resources = <<>> /\ isResource = {}
  /\ resourceId = [id \in ResourceId |-> Zero]
  /\ fees = [m \in ModuleAddr |-> [t \in FeeType |-> 0]]
  /\ feeRecipient \in Recipient \cup {Zero}

-----------------------------------------------------------------------------
(* initialize: the lists are stored as given.                              *)

RegisterInitialLists(lists) ==
  /\ ~isInitialized
  /\ Len(lists.resources) = Len(lists.ids)
  /\ ~HasDuplicate(lists.ids)   \* "Resource ID already exists"
  /\ factories' = lists.factories /\ isFactory' = Elements(lists.factories)
  /\ modules' = lists.modules /\ isModule' = Elements(lists.modules)
  /\ resources' = lists.resources /\ isResource' = Elements(lists.resources)
  /\ resourceId' = [id \in ResourceId |->
                      IF Contains(lists.ids, id)
                      THEN lists.resources[IndexOf(lists.ids, id)]
                      ELSE Zero]
  /\ isInitialized' = TRUE
  /\ repeated' = Repeated(lists.factories) \cup Repeated(lists.modules)
                   \cup Repeated(lists.resources)
  /\ UNCHANGED <<setVars, feeVars>>

\* Only the zero address and a repeated resource identifier are refused: a
\* repeated address is not.
Initialize(lists) ==
  /\ Zero \notin Elements(lists.factories) \cup Elements(lists.modules)
                   \cup Elements(lists.resources)
  /\ RegisterInitialLists(lists)

-----------------------------------------------------------------------------
\* The caller is never address(0), even when that is an enabled factory.
AddSet(caller, s) ==
  /\ isInitialized
  /\ caller \in isFactory
  /\ s \notin isSet
  /\ isSet' = isSet \cup {s}
  /\ sets' = Append(sets, s)
  /\ UNCHANGED <<initVars, factoryVars, moduleVars, resourceVars, feeVars>>

RemoveSet(s) ==
  /\ isInitialized
  /\ s \in isSet
  /\ sets' = Remove(sets, s)
  /\ isSet' = isSet \ {s}
  /\ UNCHANGED <<initVars, factoryVars, moduleVars, resourceVars, feeVars>>

AddFactory(f) ==
  /\ isInitialized
  /\ f \notin isFactory
  /\ isFactory' = isFactory \cup {f}
  /\ factories' = Append(factories, f)
  /\ UNCHANGED <<initVars, setVars, moduleVars, resourceVars, feeVars>>

RemoveFactory(f) ==
  /\ isInitialized
  /\ f \in isFactory
  /\ factories' = Remove(factories, f)
  /\ isFactory' = isFactory \ {f}
  /\ UNCHANGED <<initVars, setVars, moduleVars, resourceVars, feeVars>>

AddModuleAgain(m) ==
  /\ isInitialized
  /\ isModule' = isModule \cup {m}
  /\ modules' = Append(modules, m)
  /\ UNCHANGED <<initVars, setVars, factoryVars, resourceVars, feeVars>>

AddModule(m) ==
  /\ isInitialized
  /\ m \notin isModule
  /\ isModule' = isModule \cup {m}
  /\ modules' = Append(modules, m)
  /\ UNCHANGED <<initVars, setVars, factoryVars, resourceVars, feeVars>>

\* The module's fees stay: they apply again when the module is added back.
RemoveModule(m) ==
  /\ isInitialized
  /\ m \in isModule
  /\ modules' = Remove(modules, m)
  /\ isModule' = isModule \ {m}
  /\ UNCHANGED <<initVars, setVars, factoryVars, resourceVars, feeVars>>

AddResourceUnderAnyId(r, id) ==
  /\ isInitialized
  /\ r \notin isResource
  /\ isResource' = isResource \cup {r}
  /\ resourceId' = [resourceId EXCEPT ![id] = r]
  /\ resources' = Append(resources, r)
  /\ UNCHANGED <<initVars, setVars, factoryVars, moduleVars, feeVars>>

\* Neither the guards nor the updates treat address(0) apart: added as a
\* resource it is enabled and listed, while its identifier still reads as free.
AddResource(r, id) ==
  /\ resourceId[id] = Zero
  /\ AddResourceUnderAnyId(r, id)

RemoveResource(id) ==
  /\ isInitialized
  /\ resourceId[id] # Zero
  /\ Contains(resources, resourceId[id])
  /\ resources' = Remove(resources, resourceId[id])
  /\ resourceId' = [resourceId EXCEPT ![id] = Zero]
  /\ isResource' = isResource \ {resourceId[id]}
  /\ UNCHANGED <<initVars, setVars, factoryVars, moduleVars, feeVars>>

-----------------------------------------------------------------------------
(* Protocol fees.  No percentage is refused, not even one above 100%.      *)

AddFee(m, type, percentage) ==
  /\ isInitialized
  /\ m \in isModule
  /\ fees[m][type] = 0
  /\ fees' = [fees EXCEPT ![m][type] = percentage]
  /\ UNCHANGED <<initVars, setVars, factoryVars, moduleVars, resourceVars,
                 feeRecipient>>

EditFee(m, type, percentage) ==
  /\ isInitialized
  /\ m \in isModule
  /\ fees[m][type] # 0
  /\ fees' = [fees EXCEPT ![m][type] = percentage]
  /\ UNCHANGED <<initVars, setVars, factoryVars, moduleVars, resourceVars,
                 feeRecipient>>

EditFeeRecipient(recipient) ==
  /\ isInitialized
  /\ recipient # Zero
  /\ feeRecipient' = recipient
  /\ UNCHANGED <<initVars, setVars, factoryVars, moduleVars, resourceVars,
                 fees>>

-----------------------------------------------------------------------------
Next ==
  \/ \E lists \in InitialLists : Initialize(lists)
  \/ \E f \in FactoryAddr \ {Zero}, s \in SetAddr : AddSet(f, s)
  \/ \E s \in SetAddr : RemoveSet(s)
  \/ \E f \in FactoryAddr : AddFactory(f)
  \/ \E f \in FactoryAddr : RemoveFactory(f)
  \/ \E m \in ModuleAddr : AddModule(m)
  \/ \E m \in ModuleAddr : RemoveModule(m)
  \/ \E r \in ResourceAddr, id \in ResourceId : AddResource(r, id)
  \/ \E id \in ResourceId : RemoveResource(id)
  \/ \E m \in ModuleAddr, t \in FeeType, p \in Percentage : AddFee(m, t, p)
  \/ \E m \in ModuleAddr, t \in FeeType, p \in Percentage : EditFee(m, t, p)
  \/ \E r \in Recipient \cup {Zero} : EditFeeRecipient(r)

Spec == Init /\ [][Next]_vars

-----------------------------------------------------------------------------
(* Properties.                                                             *)

\* Types: every list holds addresses of its own kind, whatever the owner
\* passes to initialize.
TypeOK ==
  /\ isInitialized \in BOOLEAN
  /\ sets \in Seq(SetAddr) /\ isSet \in SUBSET SetAddr
  /\ factories \in Seq(FactoryAddr) /\ isFactory \in SUBSET FactoryAddr
  /\ modules \in Seq(ModuleAddr) /\ isModule \in SUBSET ModuleAddr
  /\ resources \in Seq(ResourceAddr) /\ isResource \in SUBSET ResourceAddr
  /\ resourceId \in [ResourceId -> ResourceAddr \cup {Zero}]
  /\ fees \in [ModuleAddr -> [FeeType -> Percentage]]
  /\ feeRecipient \in Recipient \cup {Zero}

\* An array and its mapping agree: what is enabled is listed, and what is
\* listed is enabled and listed once, except for some addresses.
Agrees(list, mapping, except) ==
  /\ mapping \subseteq Elements(list)
  /\ Elements(list) \ except \subseteq mapping
  /\ Repeated(list) \subseteq except

\* After any order of additions, removals and re-additions, getSets,
\* getFactories, getModules and getResources enumerate what isSet, isFactory,
\* isModule and isResource answer for (Controller.sol).  initialize refuses no
\* repetition: an address it was given twice stays listed after its removal,
\* and no other address is touched by that.
ListsMatchMappings ==
  /\ Agrees(sets, isSet, repeated)
  /\ Agrees(factories, isFactory, repeated)
  /\ Agrees(modules, isModule, repeated)
  /\ Agrees(resources, isResource, repeated)

\* Every enabled resource is found under an identifier, no identifier leads
\* to a resource that is not enabled and no two lead to the same:
\* ResourceIdentifier's look-ups never return a resource governance has
\* removed.  The exceptions are the resources that initialize was given twice,
\* under two identifiers of which a removal clears one, and address(0), which
\* addResource accepts and enables although its identifier still reads as free.
ResourceIdsExact ==
  /\ isResource \ {Zero} \subseteq {resourceId[id] : id \in ResourceId}
  /\ {resourceId[id] : id \in ResourceId} \ (repeated \cup {Zero}) \subseteq isResource
  /\ \A i, j \in ResourceId :
       i # j /\ resourceId[i] = resourceId[j] => resourceId[i] \in repeated \cup {Zero}
==============================================================================
