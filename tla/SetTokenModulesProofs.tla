------------------------- MODULE SetTokenModulesProofs -------------------------
(***************************************************************************)
(* The module life cycle of a SetToken, for any modules, accounts and      *)
(* order of transactions, and the registration of issuance hooks that      *)
(* rests on it.                                                            *)
(*                                                                         *)
(* The inductive invariant of the life cycle is the conjunction of the     *)
(* three invariants that TLC checks: the list of modules must be free of   *)
(* repetitions for a removal to be exact, and exact for a lock to be held  *)
(* by a listed module.  The one of the hooks adds what no single property  *)
(* says: a removed issuer leaves no registration behind, only initialized  *)
(* modules owe debt, and until governance disables a module every          *)
(* registered hook is initialized.                                         *)
(***************************************************************************)
EXTENDS IssuanceHooks, LibraryProofs

\* The inductive invariant.
LifecycleInv == TypeOK /\ ModulesListExact /\ LockHeldByModule

\* A new SetToken has no initialized module and no lock.
LEMMA LifecycleInit == Init => LifecycleInv
<1> SUFFICES ASSUME Init PROVE LifecycleInv
  OBVIOUS
<1>1. TypeOK
  <2>1. moduleStates \in [Module -> ModuleState]
    <3>1. PICK pending : moduleStates = [m \in Module |->
                           IF m \in pending THEN "PENDING" ELSE "NONE"]
      BY DEF Init
    <3> QED BY <3>1 DEF ModuleState
  <2>2. modules \in Seq(Module)
    BY DEF Init
  <2>3. isModule \in SUBSET Module
    BY DEF Init
  <2> QED BY <2>1, <2>2, <2>3 DEF Init, TypeOK
<1>2. Elements(modules) = {} /\ ~HasDuplicate(modules)
  BY DEF Init, Elements, HasDuplicate
<1>3. \A m \in Module : moduleStates[m] # "INITIALIZED"
  BY DEF Init
<1>4. ModulesListExact
  BY <1>2, <1>3 DEF ModulesListExact
<1>5. LockHeldByModule
  BY DEF Init, LockHeldByModule
<1> QED BY <1>1, <1>4, <1>5 DEF LifecycleInv

\* addModule, removePendingModule and every operation that moves a module
\* between NONE and PENDING leave the list of initialized modules exact.
LEMMA PendingKeepsList ==
  ASSUME LifecycleInv, NEW m \in Module, NEW s \in {"NONE", "PENDING"},
         moduleStates[m] # "INITIALIZED",
         moduleStates' = [moduleStates EXCEPT ![m] = s],
         UNCHANGED <<isModule, modules, locker, isLocked, manager>>
  PROVE  LifecycleInv'
<1>1. TypeOK /\ ModulesListExact /\ LockHeldByModule
  BY DEF LifecycleInv
<1>2. TypeOK'
  BY <1>1 DEF TypeOK, ModuleState
<1>3. \A x \in Module : moduleStates'[x] = "INITIALIZED"
                          <=> moduleStates[x] = "INITIALIZED"
  BY <1>1 DEF TypeOK
<1>4. ModulesListExact'
  BY <1>1, <1>3 DEF ModulesListExact
<1>5. LockHeldByModule'
  BY <1>1 DEF LockHeldByModule
<1> QED BY <1>2, <1>4, <1>5 DEF LifecycleInv

\* initializeModule appends a module that is not in the list yet.
LEMMA InitializeKeeps ==
  ASSUME LifecycleInv, NEW a \in Account, NEW m \in Module,
         InitializeModule(a, m)
  PROVE  LifecycleInv'
<1>1. TypeOK /\ ModulesListExact /\ LockHeldByModule
  BY DEF LifecycleInv
<1>2. modules \in Seq(Module) /\ ~HasDuplicate(modules) /\ m \notin Elements(modules)
  BY <1>1 DEF TypeOK, ModulesListExact, InitializeModule
<1>3. /\ modules' \in Seq(Module)
      /\ Elements(modules') = Elements(modules) \cup {m}
      /\ ~HasDuplicate(modules')
  BY <1>2, AppendAdds DEF InitializeModule
<1>4. moduleStates' = [moduleStates EXCEPT ![m] = "INITIALIZED"]
      /\ UNCHANGED <<isModule, locker, isLocked, manager>>
  BY DEF InitializeModule
<1>5. TypeOK'
  BY <1>1, <1>3, <1>4 DEF TypeOK, ModuleState
<1>6. \A x \in Module : moduleStates'[x] = "INITIALIZED"
                          <=> moduleStates[x] = "INITIALIZED" \/ x = m
  BY <1>1, <1>4 DEF TypeOK
<1>7. ModulesListExact'
  BY <1>1, <1>3, <1>6 DEF ModulesListExact
<1>8. LockHeldByModule'
  BY <1>1, <1>3, <1>4 DEF LockHeldByModule
<1> QED BY <1>5, <1>7, <1>8 DEF LifecycleInv

\* removeModule takes exactly the removed module out of the list, and finds
\* the SetToken unlocked, so it strands no lock.
LEMMA RemoveKeeps ==
  ASSUME LifecycleInv, NEW a \in Account, NEW m \in Module,
         RemoveModule(a, m)
  PROVE  LifecycleInv'
<1>1. TypeOK /\ ModulesListExact /\ LockHeldByModule
  BY DEF LifecycleInv
<1>2. modules \in Seq(Module) /\ ~HasDuplicate(modules) /\ m \in Elements(modules)
  BY <1>1 DEF TypeOK, ModulesListExact, RemoveModule
<1>3. /\ modules' \in Seq(Module)
      /\ Elements(modules') = Elements(modules) \ {m}
      /\ ~HasDuplicate(modules')
  BY <1>2, RemoveStorageRemoves DEF RemoveModule
<1>4. moduleStates' = [moduleStates EXCEPT ![m] = "NONE"]
      /\ ~isLocked
      /\ UNCHANGED <<isModule, locker, isLocked, manager>>
  BY DEF RemoveModule
<1>5. TypeOK'
  BY <1>1, <1>3, <1>4 DEF TypeOK, ModuleState
<1>6. \A x \in Module : moduleStates'[x] = "INITIALIZED"
                          <=> moduleStates[x] = "INITIALIZED" /\ x # m
  BY <1>1, <1>4 DEF TypeOK
<1>7. ModulesListExact'
  BY <1>1, <1>3, <1>6 DEF ModulesListExact
<1>8. LockHeldByModule'
  BY <1>1, <1>4 DEF LockHeldByModule
<1> QED BY <1>5, <1>7, <1>8 DEF LifecycleInv

\* Every transaction preserves the inductive invariant.
LEMMA LifecycleStep == LifecycleInv /\ [Next]_lifecycleVars => LifecycleInv'
<1> SUFFICES ASSUME LifecycleInv, [Next]_lifecycleVars PROVE LifecycleInv'
  OBVIOUS
<1>0. TypeOK /\ ModulesListExact /\ LockHeldByModule
  BY DEF LifecycleInv
<1>1. ASSUME NEW m \in Module, EnableModule(m) PROVE LifecycleInv'
  BY <1>0, <1>1
     DEF EnableModule, LifecycleInv, TypeOK, ModulesListExact, LockHeldByModule
<1>2. ASSUME NEW m \in Module, DisableModule(m) PROVE LifecycleInv'
  BY <1>0, <1>2
     DEF DisableModule, LifecycleInv, TypeOK, ModulesListExact, LockHeldByModule
<1>3. ASSUME NEW a \in Account, NEW m \in Module, AddModule(a, m)
      PROVE  LifecycleInv'
  <2>1. /\ moduleStates[m] # "INITIALIZED"
        /\ moduleStates' = [moduleStates EXCEPT ![m] = "PENDING"]
        /\ UNCHANGED <<isModule, modules, locker, isLocked, manager>>
    BY <1>3 DEF AddModule
  <2> QED BY <2>1, PendingKeepsList
<1>4. ASSUME NEW a \in Account, NEW m \in Module, RemoveModule(a, m)
      PROVE  LifecycleInv'
  BY <1>4, RemoveKeeps
<1>5. ASSUME NEW a \in Account, NEW m \in Module, RemovePendingModule(a, m)
      PROVE  LifecycleInv'
  <2>1. /\ moduleStates[m] # "INITIALIZED"
        /\ moduleStates' = [moduleStates EXCEPT ![m] = "NONE"]
        /\ UNCHANGED <<isModule, modules, locker, isLocked, manager>>
    BY <1>5 DEF RemovePendingModule
  <2> QED BY <2>1, PendingKeepsList
<1>6. ASSUME NEW a \in Account, NEW m \in Module, InitializeModule(a, m)
      PROVE  LifecycleInv'
  BY <1>6, InitializeKeeps
<1>7. ASSUME NEW a \in Account, NEW b \in Account, SetManager(a, b)
      PROVE  LifecycleInv'
  BY <1>0, <1>7
     DEF SetManager, LifecycleInv, TypeOK, ModulesListExact, LockHeldByModule
<1>8. ASSUME NEW m \in Module, Lock(m) PROVE LifecycleInv'
  <2>1. TypeOK' /\ ModulesListExact'
    BY <1>0, <1>8 DEF Lock, TypeOK, ModulesListExact
  <2>2. m \in Elements(modules)
    BY <1>0, <1>8 DEF Lock, OnlyModule, ModulesListExact
  <2>3. LockHeldByModule'
    BY <1>8, <2>2 DEF Lock, LockHeldByModule
  <2> QED BY <2>1, <2>3 DEF LifecycleInv
<1>9. ASSUME NEW m \in Module, Unlock(m) PROVE LifecycleInv'
  BY <1>0, <1>9
     DEF Unlock, LifecycleInv, TypeOK, ModulesListExact, LockHeldByModule
<1>10. CASE UNCHANGED lifecycleVars
  BY <1>0, <1>10
     DEF lifecycleVars, LifecycleInv, TypeOK, ModulesListExact, LockHeldByModule
<1> QED BY <1>1, <1>2, <1>3, <1>4, <1>5, <1>6, <1>7, <1>8, <1>9, <1>10 DEF Next

\* The inductive invariant holds in every reachable state.
LEMMA LifecycleAlways == Spec => []LifecycleInv
BY LifecycleInit, LifecycleStep, PTL DEF Spec

\* SetToken.modules lists exactly the initialized modules, each once, after
\* any sequence of additions, initializations and removals.
THEOREM ModulesListIsExact == Spec => []ModulesListExact
<1>1. LifecycleInv => ModulesListExact
  BY DEF LifecycleInv
<1> QED BY <1>1, LifecycleAlways, PTL

\* A lock is always held by a module that is still initialized on the
\* SetToken: lock, unlock, removeModule and setManager together strand none.
THEOREM LockIsHeld == Spec => []LockHeldByModule
<1>1. LifecycleInv => LockHeldByModule
  BY DEF LifecycleInv
<1> QED BY <1>1, LifecycleAlways, PTL

\* While a module holds the lock, neither the manager nor another module
\* changes the manager, the module list, the locker or an added module.
THEOREM LockIsExclusive == Spec => LockFreezes
<1> DEFINE Frozen == isLocked /\ isLocked' =>
                       /\ UNCHANGED <<manager, modules, locker>>
                       /\ \A m \in Module : moduleStates[m] # "NONE"
                            => moduleStates'[m] = moduleStates[m]
<1>1. LifecycleInv /\ [Next]_lifecycleVars => [Frozen]_lifecycleVars
  <2> SUFFICES ASSUME LifecycleInv, Next, isLocked, isLocked'
               PROVE  /\ UNCHANGED <<manager, modules, locker>>
                      /\ \A m \in Module : moduleStates[m] # "NONE"
                           => moduleStates'[m] = moduleStates[m]
    OBVIOUS
  <2>0. moduleStates \in [Module -> ModuleState] /\ isLocked \in BOOLEAN
    BY DEF LifecycleInv, TypeOK
  <2>1. CASE \E m \in Module : EnableModule(m) \/ DisableModule(m)
    BY <2>1 DEF EnableModule, DisableModule
  <2>2. CASE \E a \in Account, m \in Module : AddModule(a, m)
    BY <2>0, <2>2 DEF AddModule
  <2>3. CASE \E a \in Account, m \in Module :
               \/ RemoveModule(a, m)
               \/ RemovePendingModule(a, m)
               \/ InitializeModule(a, m)
    BY <2>3 DEF RemoveModule, RemovePendingModule, InitializeModule
  <2>4. CASE \E a, b \in Account : SetManager(a, b)
    BY <2>4 DEF SetManager
  <2>5. CASE \E m \in Module : Lock(m) \/ Unlock(m)
    BY <2>5 DEF Lock, Unlock
  <2> QED BY <2>1, <2>2, <2>3, <2>4, <2>5 DEF Next
<1> QED BY <1>1, LifecycleAlways, PTL DEF Spec, LockFreezes
-----------------------------------------------------------------------------
(* The registration of hooks.                                              *)

\* The arrays and mappings of the issuers name leverage modules, and only a
\* module that owes debt can have an outdated one.
HooksTypeOK ==
  /\ moduleIssuanceHooks \in [Issuer -> Seq(Hook)]
  /\ isModuleHook \in [Issuer -> SUBSET Hook]
  /\ owes \in SUBSET Hook
  /\ drifted \subseteq owes

\* An issuer that is not initialized has no hooks left, so that a later
\* initialize finds the mapping as empty as the list; a module that owes debt
\* has not been removed.
NothingLeftBehind ==
  /\ \A d \in Issuer : ~Initialized(d) => isModuleHook[d] = {}
  /\ \A h \in owes : Initialized(h)

\* Until governance disables a module, every module of the SetToken is
\* enabled, and every registered hook is still initialized.
UndisturbedHooks ==
  everDisabled = {} =>
    /\ \A m \in Module : moduleStates[m] # "NONE" => m \in isModule
    /\ \A d \in Issuer : \A h \in isModuleHook[d] : Initialized(h)

\* The inductive invariant.
HooksInv ==
  /\ LifecycleInv
  /\ HooksTypeOK
  /\ HookListsExact
  /\ HooksComplete
  /\ IssuedOnFreshDebt
  /\ NothingLeftBehind
  /\ UndisturbedHooks

\* A new SetToken has no initialized module, no hooks and no debt.
LEMMA HooksInitInv == HooksInit => HooksInv
<1> SUFFICES ASSUME HooksInit PROVE HooksInv
  OBVIOUS
<1>1. LifecycleInv
  BY LifecycleInit DEF HooksInit
<1>2. PICK pending \in SUBSET isModule :
        moduleStates = [m \in Module |-> IF m \in pending THEN "PENDING" ELSE "NONE"]
  BY DEF HooksInit, Init
<1>3. \A m \in Module : moduleStates[m] # "NONE" => m \in isModule
  BY <1>2
<1>4. \A m \in Module : ~Initialized(m)
  BY <1>2 DEF Initialized
<1>5. /\ moduleIssuanceHooks = [d \in Issuer |-> <<>>]
      /\ isModuleHook = [d \in Issuer |-> {}]
      /\ owes = {} /\ drifted = {} /\ mispriced = {}
  BY DEF HooksInit
<1>6. HooksTypeOK
  <2>1. <<>> \in Seq(Hook)
    OBVIOUS
  <2> QED BY <1>5, <2>1 DEF HooksTypeOK
<1>7. HookListsExact
  <2>1. ~HasDuplicate(<<>>) /\ Elements(<<>>) = {}
    BY DEF HasDuplicate, Elements
  <2> QED BY <1>5, <2>1 DEF HookListsExact
<1>8. HooksComplete
  BY <1>4, HooksAssumption DEF HooksComplete
<1>9. NothingLeftBehind /\ UndisturbedHooks /\ IssuedOnFreshDebt
  BY <1>3, <1>5 DEF NothingLeftBehind, UndisturbedHooks, IssuedOnFreshDebt
<1> QED BY <1>1, <1>6, <1>7, <1>8, <1>9 DEF HooksInv

\* A step of the life cycle that initializes and removes no module.
LEMMA PendingKeepsHooks ==
  ASSUME HooksInv, LifecycleInv', UndisturbedHooks',
         \A m \in Module : Initialized(m)' <=> Initialized(m),
         UNCHANGED <<registrationVars, debtVars, unhooked, mispriced>>
  PROVE  HooksInv'
<1>1. UNCHANGED <<moduleIssuanceHooks, isModuleHook, owes, drifted, unhooked, mispriced>>
  BY DEF registrationVars, debtVars
<1>2. HooksTypeOK' /\ HookListsExact' /\ IssuedOnFreshDebt'
  BY <1>1 DEF HooksInv, HooksTypeOK, HookListsExact, IssuedOnFreshDebt
<1>3. HooksComplete'
  BY <1>1, HooksAssumption DEF HooksInv, HooksComplete
<1>4. owes \subseteq Module
  BY HooksAssumption DEF HooksInv, HooksTypeOK
<1>5. NothingLeftBehind'
  BY <1>1, <1>4, HooksAssumption DEF HooksInv, NothingLeftBehind
<1> QED BY <1>2, <1>3, <1>5 DEF HooksInv

\* A step that changes no module and no registration, whatever it does to
\* debts of initialized modules.
LEMMA DebtKeepsHooks ==
  ASSUME HooksInv,
         UNCHANGED <<lifecycleVars, registrationVars, everDisabled, unhooked, mispriced>>,
         owes' \subseteq Hook, drifted' \subseteq owes',
         \A h \in owes' : Initialized(h)
  PROVE  HooksInv'
<1>1. UNCHANGED <<isModule, moduleStates, modules, locker, isLocked, manager,
                  moduleIssuanceHooks, isModuleHook, everDisabled, unhooked, mispriced>>
  BY DEF lifecycleVars, registrationVars
<1>2. LifecycleInv'
  BY <1>1 DEF HooksInv, LifecycleInv, TypeOK, ModulesListExact, LockHeldByModule
<1>3. HooksTypeOK' /\ HookListsExact' /\ IssuedOnFreshDebt'
  BY <1>1 DEF HooksInv, HooksTypeOK, HookListsExact, IssuedOnFreshDebt
<1>4. HooksComplete' /\ NothingLeftBehind' /\ UndisturbedHooks'
  BY <1>1 DEF HooksInv, HooksComplete, NothingLeftBehind, UndisturbedHooks, Initialized
<1> QED BY <1>2, <1>3, <1>4 DEF HooksInv

\* Governance, addModule and removePendingModule.
LEMMA PendingInv ==
  ASSUME HooksInv, NEW m \in Module,
         \/ GovernanceEnables(m)
         \/ GovernanceDisables(m)
         \/ \E a \in Account : ManagerAdds(a, m) \/ ManagerRemovesPending(a, m)
  PROVE  HooksInv'
<1>1. moduleStates \in [Module -> ModuleState] /\ LifecycleInv
  BY DEF HooksInv, LifecycleInv, TypeOK
<1>2. /\ [Next]_lifecycleVars
      /\ UNCHANGED <<registrationVars, debtVars, unhooked, mispriced>>
  BY DEF GovernanceEnables, GovernanceDisables, ManagerAdds, ManagerRemovesPending, Next
<1>3. LifecycleInv'
  BY <1>1, <1>2, LifecycleStep
<1>4. \A k \in Module : Initialized(k)' <=> Initialized(k)
  BY <1>1 DEF GovernanceEnables, GovernanceDisables, ManagerAdds, ManagerRemovesPending,
              EnableModule, DisableModule, AddModule, RemovePendingModule, Initialized
<1>5. UndisturbedHooks'
  <2> SUFFICES ASSUME everDisabled' = {}
               PROVE  /\ \A k \in Module : moduleStates'[k] # "NONE" => k \in isModule'
                      /\ \A d \in Issuer : \A h \in isModuleHook'[d] : Initialized(h)'
    BY DEF UndisturbedHooks
  <2>1. ~GovernanceDisables(m)
    BY DEF GovernanceDisables
  <2>2. everDisabled = {} /\ isModuleHook' = isModuleHook
    BY <2>1 DEF GovernanceEnables, ManagerAdds, ManagerRemovesPending, registrationVars
  <2>3. \A k \in Module : moduleStates'[k] # "NONE" => k \in isModule'
    BY <1>1, <2>1, <2>2
       DEF HooksInv, UndisturbedHooks, GovernanceEnables, ManagerAdds,
           ManagerRemovesPending, EnableModule, AddModule, RemovePendingModule
  <2>4. \A d \in Issuer : isModuleHook[d] \subseteq Module
    BY HooksAssumption DEF HooksInv, HooksTypeOK
  <2>5. \A d \in Issuer : \A h \in isModuleHook[d] : Initialized(h)
    BY <2>2 DEF HooksInv, UndisturbedHooks
  <2> QED BY <1>4, <2>2, <2>3, <2>4, <2>5
<1> QED BY <1>2, <1>3, <1>4, <1>5, PendingKeepsHooks

\* Debt moves only between initialized modules and the lending protocol.
LEMMA DebtInv ==
  ASSUME HooksInv,
         \/ GovernanceRemovesSet
         \/ \E a \in Account, h \in Hook : Lever(a, h) \/ Delever(a, h)
         \/ \E h \in Hook : InterestAccrues(h) \/ Sync(h)
         \/ UNCHANGED hookVars
  PROVE  HooksInv'
<1>1. owes \subseteq Hook /\ drifted \subseteq owes /\ \A h \in owes : Initialized(h)
  BY DEF HooksInv, HooksTypeOK, NothingLeftBehind
<1>2. CASE GovernanceRemovesSet \/ UNCHANGED hookVars
  BY <1>1, <1>2, DebtKeepsHooks DEF GovernanceRemovesSet, hookVars, debtVars
<1>3. ASSUME NEW a \in Account, NEW h \in Hook, Lever(a, h) PROVE HooksInv'
  <2>1. owes' \subseteq Hook /\ drifted' \subseteq owes' /\ \A k \in owes' : Initialized(k)
    BY <1>1, <1>3 DEF Lever, OnlyModule, Initialized
  <2> QED BY <1>3, <2>1, DebtKeepsHooks DEF Lever
<1>4. ASSUME NEW a \in Account, NEW h \in Hook, Delever(a, h) PROVE HooksInv'
  <2>1. owes' \subseteq Hook /\ drifted' \subseteq owes' /\ \A k \in owes' : Initialized(k)
    BY <1>1, <1>4 DEF Delever
  <2> QED BY <1>4, <2>1, DebtKeepsHooks DEF Delever
<1>5. ASSUME NEW h \in Hook, InterestAccrues(h) \/ Sync(h) PROVE HooksInv'
  <2>1. owes' \subseteq Hook /\ drifted' \subseteq owes' /\ \A k \in owes' : Initialized(k)
    BY <1>1, <1>5 DEF InterestAccrues, Sync
  <2> QED BY <1>5, <2>1, DebtKeepsHooks DEF InterestAccrues, Sync
<1> QED BY <1>2, <1>3, <1>4, <1>5

\* An issue or a redemption leaves no registered hook out of date but a lazy
\* one, and every module that owes debt to an issuer of the SetToken is
\* registered with it or recorded as an exception.
LEMMA CallHooksInv ==
  ASSUME HooksInv, NEW d \in Issuer, NEW lagging, CallHooks(d, lagging)
  PROVE  HooksInv'
<1>1. /\ owes \subseteq Hook /\ drifted \subseteq owes
      /\ \A h \in owes : Initialized(h)
      /\ mispriced = {}
  BY DEF HooksInv, HooksTypeOK, NothingLeftBehind, IssuedOnFreshDebt
<1>2. PICK stored \in SUBSET lagging :
        drifted' = drifted \ (Elements(moduleIssuanceHooks[d]) \ stored)
  BY DEF CallHooks
<1>3. ASSUME NEW h \in drifted' \ lagging PROVE <<d, h>> \in unhooked
  <2>1. h \in owes /\ h \in Hook /\ h \notin Elements(moduleIssuanceHooks[d])
    BY <1>1, <1>2
  <2>2. Initialized(d) /\ Initialized(h)
    BY <1>1, <2>1 DEF CallHooks, MayCallHooks, OnlyModule, Initialized
  <2> QED BY <2>1, <2>2 DEF HooksInv, HooksComplete
<1>4. mispriced' = mispriced
  BY <1>1, <1>3 DEF CallHooks
<1>5. /\ owes' = owes /\ drifted' \subseteq owes
      /\ UNCHANGED <<lifecycleVars, registrationVars, everDisabled, unhooked>>
  BY <1>1, <1>2 DEF CallHooks
<1> QED BY <1>1, <1>4, <1>5, DebtKeepsHooks

\* Issuers and leverage modules are different modules.
LEMMA HookKinds ==
  /\ \A d \in Issuer : d \in Module /\ d \notin Hook
  /\ \A h \in Hook : h \in Module /\ h \notin Issuer
  BY HooksAssumption

\* initializeModule and removeModule as predicates on modules.
LEMMA InitializedAfter ==
  ASSUME HooksInv, NEW a \in Account, NEW m \in Module
  PROVE  /\ InitializeModule(a, m) =>
              /\ LifecycleInv'
              /\ ~Initialized(m) /\ moduleStates[m] # "NONE"
              /\ isModule' = isModule
              /\ \A k \in Module : Initialized(k)' <=> Initialized(k) \/ k = m
              /\ \A k \in Module : moduleStates'[k] # "NONE" <=> moduleStates[k] # "NONE"
         /\ RemoveModule(a, m) =>
              /\ LifecycleInv'
              /\ Initialized(m) /\ moduleStates[m] # "NONE"
              /\ isModule' = isModule
              /\ \A k \in Module : Initialized(k)' <=> Initialized(k) /\ k # m
              /\ \A k \in Module : moduleStates'[k] # "NONE" => moduleStates[k] # "NONE"
<1>1. LifecycleInv /\ moduleStates \in [Module -> ModuleState]
  BY DEF HooksInv, LifecycleInv, TypeOK
<1>2. ASSUME InitializeModule(a, m)
      PROVE  /\ LifecycleInv'
             /\ ~Initialized(m) /\ moduleStates[m] # "NONE"
             /\ isModule' = isModule
             /\ \A k \in Module : Initialized(k)' <=> Initialized(k) \/ k = m
             /\ \A k \in Module : moduleStates'[k] # "NONE" <=> moduleStates[k] # "NONE"
  BY <1>1, <1>2, InitializeKeeps DEF InitializeModule, Initialized
<1>3. ASSUME RemoveModule(a, m)
      PROVE  /\ LifecycleInv'
             /\ Initialized(m) /\ moduleStates[m] # "NONE"
             /\ isModule' = isModule
             /\ \A k \in Module : Initialized(k)' <=> Initialized(k) /\ k # m
             /\ \A k \in Module : moduleStates'[k] # "NONE" => moduleStates[k] # "NONE"
  BY <1>1, <1>3, RemoveKeeps DEF RemoveModule, Initialized
<1> QED BY <1>2, <1>3

\* Resetting the list of an issuer leaves list and mapping in agreement when
\* the mapping is empty already.
LEMMA EmptiedList ==
  ASSUME HooksInv, NEW d \in Issuer, isModuleHook[d] = {},
         moduleIssuanceHooks' = [moduleIssuanceHooks EXCEPT ![d] = <<>>],
         isModuleHook' = isModuleHook, owes' = owes, drifted' = drifted
  PROVE  HooksTypeOK' /\ HookListsExact'
<1>1. HooksTypeOK /\ HookListsExact
  BY DEF HooksInv
<1>2. <<>> \in Seq(Hook) /\ ~HasDuplicate(<<>>) /\ Elements(<<>>) = {}
  BY DEF HasDuplicate, Elements
<1>3. HooksTypeOK'
  BY <1>1, <1>2 DEF HooksTypeOK
<1>4. HookListsExact'
  BY <1>1, <1>2 DEF HooksTypeOK, HookListsExact
<1> QED BY <1>3, <1>4

\* DebtIssuanceModule.initialize: every leverage module that is there already
\* is an exception until it registers.
LEMMA InitializeIssuerInv ==
  ASSUME HooksInv, NEW a \in Account, NEW d \in Issuer, InitializeIssuer(a, d)
  PROVE  HooksInv'
<1>1. /\ d \in Module /\ d \notin Hook
      /\ HookListsExact /\ HooksComplete /\ NothingLeftBehind /\ UndisturbedHooks
      /\ IssuedOnFreshDebt /\ HooksTypeOK
  BY HookKinds DEF HooksInv
<1>2. /\ LifecycleInv' /\ ~Initialized(d)
      /\ isModule' = isModule
      /\ \A k \in Module : Initialized(k)' <=> Initialized(k) \/ k = d
      /\ \A k \in Module : moduleStates'[k] # "NONE" <=> moduleStates[k] # "NONE"
  BY <1>1, InitializedAfter DEF InitializeIssuer
<1>3. /\ moduleIssuanceHooks' = [moduleIssuanceHooks EXCEPT ![d] = <<>>]
      /\ unhooked' = unhooked \cup {<<d, h>> : h \in {h \in Hook : Initialized(h)}}
      /\ isModuleHook' = isModuleHook /\ owes' = owes /\ drifted' = drifted
      /\ everDisabled' = everDisabled /\ mispriced' = mispriced
  BY DEF InitializeIssuer, debtVars
<1>4. isModuleHook[d] = {}
  BY <1>1, <1>2 DEF NothingLeftBehind
<1>5. HooksTypeOK' /\ HookListsExact'
  BY <1>3, <1>4, EmptiedList
<1>6. ASSUME NEW e \in Issuer, NEW h \in Hook,
             Initialized(e)', Initialized(h)', <<e, h>> \notin unhooked'
      PROVE  h \in Elements(moduleIssuanceHooks'[e])
  <2>1. Initialized(h)
    BY <1>1, <1>2, <1>6, HookKinds
  <2>2. e # d /\ <<e, h>> \notin unhooked
    BY <1>3, <1>6, <2>1
  <2>3. Initialized(e)
    BY <1>2, <1>6, <2>2, HookKinds
  <2>4. moduleIssuanceHooks'[e] = moduleIssuanceHooks[e]
    BY <1>1, <1>3, <2>2 DEF HooksTypeOK
  <2> QED BY <1>1, <2>1, <2>2, <2>3, <2>4 DEF HooksComplete
<1>7. HooksComplete' /\ IssuedOnFreshDebt'
  BY <1>1, <1>3, <1>6 DEF HooksComplete, IssuedOnFreshDebt
<1>8. NothingLeftBehind'
  BY <1>1, <1>2, <1>3, HookKinds DEF NothingLeftBehind, HooksTypeOK
<1>9. UndisturbedHooks'
  BY <1>1, <1>2, <1>3, HookKinds DEF UndisturbedHooks, HooksTypeOK
<1> QED BY <1>2, <1>5, <1>7, <1>8, <1>9 DEF HooksInv

\* DebtIssuanceModule.removeModule refuses while a hook is registered, so the
\* mapping that survives the deletion of the settings is empty.
LEMMA RemoveIssuerInv ==
  ASSUME HooksInv, NEW a \in Account, NEW d \in Issuer, RemoveIssuer(a, d)
  PROVE  HooksInv'
<1>1. /\ d \in Module /\ d \notin Hook
      /\ HookListsExact /\ HooksComplete /\ NothingLeftBehind /\ UndisturbedHooks
      /\ IssuedOnFreshDebt /\ HooksTypeOK
  BY HookKinds DEF HooksInv
<1>2. /\ LifecycleInv'
      /\ isModule' = isModule
      /\ \A k \in Module : Initialized(k)' <=> Initialized(k) /\ k # d
      /\ \A k \in Module : moduleStates'[k] # "NONE" => moduleStates[k] # "NONE"
  BY <1>1, InitializedAfter DEF RemoveIssuer, RemoveIssuerWithHooks
<1>3. /\ moduleIssuanceHooks[d] = <<>>
      /\ moduleIssuanceHooks' = [moduleIssuanceHooks EXCEPT ![d] = <<>>]
      /\ unhooked' = unhooked \ ({d} \X Hook)
      /\ isModuleHook' = isModuleHook /\ owes' = owes /\ drifted' = drifted
      /\ everDisabled' = everDisabled /\ mispriced' = mispriced
  BY DEF RemoveIssuer, RemoveIssuerWithHooks, debtVars
<1>4. isModuleHook[d] = {}
  BY <1>1, <1>3 DEF HookListsExact, Elements
<1>5. HooksTypeOK' /\ HookListsExact'
  BY <1>3, <1>4, EmptiedList
<1>6. ASSUME NEW e \in Issuer, NEW h \in Hook,
             Initialized(e)', Initialized(h)', <<e, h>> \notin unhooked'
      PROVE  h \in Elements(moduleIssuanceHooks'[e])
  <2>1. e # d /\ Initialized(e) /\ Initialized(h)
    BY <1>2, <1>6, HookKinds
  <2>2. <<e, h>> \notin unhooked
    BY <1>3, <1>6, <2>1
  <2>3. moduleIssuanceHooks'[e] = moduleIssuanceHooks[e]
    BY <1>1, <1>3, <2>1 DEF HooksTypeOK
  <2> QED BY <1>1, <2>1, <2>2, <2>3 DEF HooksComplete
<1>7. HooksComplete' /\ IssuedOnFreshDebt'
  BY <1>1, <1>3, <1>6 DEF HooksComplete, IssuedOnFreshDebt
<1>8. NothingLeftBehind'
  BY <1>1, <1>2, <1>3, <1>4, HookKinds DEF NothingLeftBehind, HooksTypeOK
<1>9. UndisturbedHooks'
  BY <1>1, <1>2, <1>3, HookKinds DEF UndisturbedHooks, HooksTypeOK
<1> QED BY <1>2, <1>5, <1>7, <1>8, <1>9 DEF HooksInv

\* registerToIssuanceModule at the issuers in R, each of which did not have
\* the hook.
LEMMA RegisteredLists ==
  ASSUME HooksInv, NEW h \in Hook, NEW R \in SUBSET Issuer,
         \A d \in R : h \notin isModuleHook[d],
         moduleIssuanceHooks' =
           [d \in Issuer |-> IF d \in R THEN Append(moduleIssuanceHooks[d], h)
                             ELSE moduleIssuanceHooks[d]],
         isModuleHook' =
           [d \in Issuer |-> IF d \in R THEN isModuleHook[d] \cup {h}
                             ELSE isModuleHook[d]],
         owes' = owes, drifted' = drifted
  PROVE  HooksTypeOK' /\ HookListsExact'
<1>1. HooksTypeOK /\ HookListsExact
  BY DEF HooksInv
<1>2. ASSUME NEW d \in Issuer
      PROVE  /\ moduleIssuanceHooks'[d] \in Seq(Hook)
             /\ ~HasDuplicate(moduleIssuanceHooks'[d])
             /\ Elements(moduleIssuanceHooks'[d]) = isModuleHook'[d]
             /\ isModuleHook'[d] \in SUBSET Hook
  <2>1. /\ moduleIssuanceHooks[d] \in Seq(Hook)
        /\ ~HasDuplicate(moduleIssuanceHooks[d])
        /\ Elements(moduleIssuanceHooks[d]) = isModuleHook[d]
        /\ isModuleHook[d] \in SUBSET Hook
    BY <1>1 DEF HooksTypeOK, HookListsExact
  <2>2. CASE d \in R
    <3>1. h \notin Elements(moduleIssuanceHooks[d])
      BY <2>1, <2>2
    <3>2. /\ Append(moduleIssuanceHooks[d], h) \in Seq(Hook)
          /\ Elements(Append(moduleIssuanceHooks[d], h)) = isModuleHook[d] \cup {h}
          /\ ~HasDuplicate(Append(moduleIssuanceHooks[d], h))
      BY <2>1, <3>1, AppendAdds
    <3> QED BY <2>1, <2>2, <3>2
  <2>3. CASE d \notin R
    BY <2>1, <2>3
  <2> QED BY <2>2, <2>3
<1>3. HooksTypeOK'
  BY <1>1, <1>2 DEF HooksTypeOK
<1>4. HookListsExact'
  BY <1>2 DEF HookListsExact
<1> QED BY <1>3, <1>4

\* initialize of a leverage module: the loop over the SetToken's modules finds
\* every initialized issuer, because that list is exact.
LEMMA InitializeHookInv ==
  ASSUME HooksInv, NEW a \in Account, NEW h \in Hook, InitializeHook(a, h)
  PROVE  HooksInv'
<1>1. /\ h \in Module /\ h \notin Issuer
      /\ HookListsExact /\ HooksComplete /\ NothingLeftBehind /\ UndisturbedHooks
      /\ IssuedOnFreshDebt /\ HooksTypeOK /\ ModulesListExact
  BY HookKinds DEF HooksInv, LifecycleInv
<1>2. /\ LifecycleInv' /\ ~Initialized(h)
      /\ isModule' = isModule
      /\ \A k \in Module : Initialized(k)' <=> Initialized(k) \/ k = h
      /\ \A k \in Module : moduleStates'[k] # "NONE" <=> moduleStates[k] # "NONE"
  BY <1>1, InitializedAfter DEF InitializeHook
<1> DEFINE R == {d \in ListedIssuers : Registers(d, h)}
           exceptions == {<<d, h>> : d \in {d \in ListedIssuers :
                                              d \notin R /\ h \notin isModuleHook[d]}}
<1>3. /\ moduleIssuanceHooks' =
           [d \in Issuer |-> IF d \in R THEN Append(moduleIssuanceHooks[d], h)
                             ELSE moduleIssuanceHooks[d]]
      /\ isModuleHook' =
           [d \in Issuer |-> IF d \in R THEN isModuleHook[d] \cup {h}
                             ELSE isModuleHook[d]]
      /\ unhooked' = unhooked \cup exceptions
      /\ owes' = owes /\ drifted' = drifted
      /\ everDisabled' = everDisabled /\ mispriced' = mispriced
  BY DEF InitializeHook, debtVars
<1>4. /\ R \subseteq Issuer
      /\ \A d \in R : h \notin isModuleHook[d] /\ Initialized(d)
  BY DEF ListedIssuers, Registers, MayCall
<1>5. \A d \in Issuer : d \in ListedIssuers <=> Initialized(d)
  BY <1>1, HookKinds DEF ListedIssuers, ModulesListExact, Initialized
<1>6. \A d \in ListedIssuers : d \in R \/ h \in isModuleHook[d] \/ <<d, h>> \in exceptions
  OBVIOUS
<1> HIDE DEF R, exceptions
<1>7. HooksTypeOK' /\ HookListsExact'
  BY <1>3, <1>4, RegisteredLists
<1>8. ASSUME NEW d \in Issuer
      PROVE  isModuleHook'[d] = IF d \in R THEN isModuleHook[d] \cup {h}
                                ELSE isModuleHook[d]
  BY <1>3
<1>9. ASSUME NEW d \in Issuer, NEW k \in Hook,
             Initialized(d)', Initialized(k)', <<d, k>> \notin unhooked'
      PROVE  k \in Elements(moduleIssuanceHooks'[d])
  <2>1. Initialized(d) /\ d \in ListedIssuers
    BY <1>1, <1>2, <1>5, <1>9, HookKinds
  <2>2. k \in isModuleHook'[d]
    <3>1. CASE k = h
      BY <1>3, <1>6, <1>8, <1>9, <2>1, <3>1
    <3>2. CASE k # h
      <4>1. Initialized(k) /\ <<d, k>> \notin unhooked
        BY <1>2, <1>3, <1>9, <3>2, HookKinds
      <4>2. k \in isModuleHook[d]
        BY <1>1, <2>1, <4>1 DEF HooksComplete, HookListsExact
      <4> QED BY <1>8, <4>2
    <3> QED BY <3>1, <3>2
  <2> QED BY <1>7, <2>2 DEF HookListsExact
<1>10. HooksComplete' /\ IssuedOnFreshDebt'
  BY <1>1, <1>3, <1>9 DEF HooksComplete, IssuedOnFreshDebt
<1>11. NothingLeftBehind'
  BY <1>1, <1>2, <1>3, <1>4, <1>8, HookKinds DEF NothingLeftBehind, HooksTypeOK
<1>12. UndisturbedHooks'
  BY <1>1, <1>2, <1>3, <1>8, HookKinds DEF UndisturbedHooks, HooksTypeOK
<1> QED BY <1>2, <1>7, <1>10, <1>11, <1>12 DEF HooksInv

\* registerToModule settles an exception.
LEMMA RegisterToModuleInv ==
  ASSUME HooksInv, NEW a \in Account, NEW h \in Hook, NEW d \in Issuer,
         RegisterToModule(a, h, d)
  PROVE  HooksInv'
<1>1. /\ HookListsExact /\ HooksComplete /\ NothingLeftBehind /\ UndisturbedHooks
      /\ IssuedOnFreshDebt /\ HooksTypeOK /\ LifecycleInv
  BY DEF HooksInv
<1>2. /\ moduleIssuanceHooks' =
           [moduleIssuanceHooks EXCEPT ![d] = Append(moduleIssuanceHooks[d], h)]
      /\ isModuleHook' = [isModuleHook EXCEPT ![d] = isModuleHook[d] \cup {h}]
      /\ unhooked' = unhooked \ {<<d, h>>}
      /\ owes' = owes /\ drifted' = drifted
      /\ everDisabled' = everDisabled /\ mispriced' = mispriced
      /\ h \notin isModuleHook[d] /\ Initialized(d) /\ Initialized(h)
  BY <1>1 DEF RegisterToModule, Registers, MayCall, debtVars, HooksTypeOK
<1>3. UNCHANGED <<isModule, moduleStates, modules, locker, isLocked, manager>>
  BY DEF RegisterToModule, lifecycleVars
<1>4. LifecycleInv'
  BY <1>1, <1>3 DEF LifecycleInv, TypeOK, ModulesListExact, LockHeldByModule
<1>5. HooksTypeOK' /\ HookListsExact'
  <2>1. /\ moduleIssuanceHooks' =
             [e \in Issuer |-> IF e \in {d} THEN Append(moduleIssuanceHooks[e], h)
                               ELSE moduleIssuanceHooks[e]]
        /\ isModuleHook' =
             [e \in Issuer |-> IF e \in {d} THEN isModuleHook[e] \cup {h}
                               ELSE isModuleHook[e]]
    BY <1>1, <1>2 DEF HooksTypeOK
  <2>2. owes' = owes /\ drifted' = drifted
    BY <1>2
  <2> DEFINE R == {d}
  <2>3. R \in SUBSET Issuer /\ \A e \in R : h \notin isModuleHook[e]
    BY <1>2
  <2>4. /\ moduleIssuanceHooks' =
             [e \in Issuer |-> IF e \in R THEN Append(moduleIssuanceHooks[e], h)
                               ELSE moduleIssuanceHooks[e]]
        /\ isModuleHook' =
             [e \in Issuer |-> IF e \in R THEN isModuleHook[e] \cup {h}
                               ELSE isModuleHook[e]]
    BY <2>1
  <2> HIDE DEF R
  <2> QED BY <2>2, <2>3, <2>4, RegisteredLists
<1>6. ASSUME NEW e \in Issuer
      PROVE  isModuleHook'[e] = IF e = d THEN isModuleHook[e] \cup {h} ELSE isModuleHook[e]
  BY <1>1, <1>2 DEF HooksTypeOK
<1>7. \A m \in Module : Initialized(m)' <=> Initialized(m)
  BY <1>3 DEF Initialized
<1>8. HooksComplete' /\ IssuedOnFreshDebt'
  <2>1. ASSUME NEW e \in Issuer, NEW k \in Hook,
               Initialized(e)', Initialized(k)', <<e, k>> \notin unhooked'
        PROVE  k \in Elements(moduleIssuanceHooks'[e])
    <3>1. k \in isModuleHook'[e]
      <4>1. CASE e = d /\ k = h
        BY <1>6, <4>1
      <4>2. CASE ~(e = d /\ k = h)
        <5>1. <<e, k>> \notin unhooked /\ Initialized(e) /\ Initialized(k)
          BY <1>2, <1>7, <2>1, <4>2, HookKinds
        <5>2. k \in isModuleHook[e]
          BY <1>1, <5>1 DEF HooksComplete, HookListsExact
        <5> QED BY <1>6, <5>2
      <4> QED BY <4>1, <4>2
    <3> QED BY <1>5, <3>1 DEF HookListsExact
  <2> QED BY <1>1, <1>2, <2>1 DEF HooksComplete, IssuedOnFreshDebt
<1>9. NothingLeftBehind'
  BY <1>1, <1>2, <1>6, <1>7, HookKinds DEF NothingLeftBehind, HooksTypeOK
<1>10. UndisturbedHooks'
  BY <1>1, <1>2, <1>3, <1>6, <1>7, HookKinds DEF UndisturbedHooks, HooksTypeOK
<1> QED BY <1>4, <1>5, <1>8, <1>9, <1>10 DEF HooksInv

\* removeModule of a leverage module unregisters it wherever it can; it can
\* everywhere unless governance has disabled it.
LEMMA RemoveHookInv ==
  ASSUME HooksInv, NEW a \in Account, NEW h \in Hook, RemoveHook(a, h)
  PROVE  HooksInv'
<1>1. /\ h \in Module /\ h \notin Issuer
      /\ HookListsExact /\ HooksComplete /\ NothingLeftBehind /\ UndisturbedHooks
      /\ IssuedOnFreshDebt /\ HooksTypeOK /\ ModulesListExact
  BY HookKinds DEF HooksInv, LifecycleInv
<1>2. /\ LifecycleInv' /\ Initialized(h) /\ moduleStates[h] # "NONE"
      /\ isModule' = isModule
      /\ \A k \in Module : Initialized(k)' <=> Initialized(k) /\ k # h
      /\ \A k \in Module : moduleStates'[k] # "NONE" => moduleStates[k] # "NONE"
  BY <1>1, InitializedAfter DEF RemoveHook
<1> DEFINE D == {d \in ListedIssuers : Unregisters(d, h)}
<1>3. /\ moduleIssuanceHooks' =
           [d \in Issuer |-> IF d \in D THEN RemoveStorage(moduleIssuanceHooks[d], h)
                             ELSE moduleIssuanceHooks[d]]
      /\ isModuleHook' =
           [d \in Issuer |-> IF d \in D THEN isModuleHook[d] \ {h}
                             ELSE isModuleHook[d]]
      /\ unhooked' = unhooked \ (Issuer \X {h})
      /\ owes' = owes /\ drifted' = drifted /\ h \notin owes
      /\ everDisabled' = everDisabled /\ mispriced' = mispriced
  BY DEF RemoveHook, debtVars
<1>4. /\ D \subseteq Issuer
      /\ \A d \in D : h \in isModuleHook[d] /\ Initialized(d)
  BY DEF ListedIssuers, Unregisters, MayCall
<1>5. ASSUME NEW d \in Issuer, h \in isModuleHook[d], h \in isModule PROVE d \in D
  <2>1. Initialized(d)
    BY <1>1, <1>5 DEF NothingLeftBehind
  <2>2. d \in ListedIssuers
    BY <1>1, <2>1, HookKinds DEF ListedIssuers, ModulesListExact, Initialized
  <2>3. isSet
    BY DEF RemoveHook
  <2> QED BY <1>5, <2>1, <2>2, <2>3 DEF Unregisters, MayCall
<1> HIDE DEF D
<1>6. ASSUME NEW d \in Issuer
      PROVE  /\ moduleIssuanceHooks'[d] \in Seq(Hook)
             /\ ~HasDuplicate(moduleIssuanceHooks'[d])
             /\ Elements(moduleIssuanceHooks'[d]) = isModuleHook'[d]
             /\ isModuleHook'[d] = IF d \in D THEN isModuleHook[d] \ {h}
                                   ELSE isModuleHook[d]
             /\ isModuleHook'[d] \in SUBSET Hook
  <2>1. /\ moduleIssuanceHooks[d] \in Seq(Hook)
        /\ ~HasDuplicate(moduleIssuanceHooks[d])
        /\ Elements(moduleIssuanceHooks[d]) = isModuleHook[d]
        /\ isModuleHook[d] \in SUBSET Hook
    BY <1>1 DEF HooksTypeOK, HookListsExact
  <2>2. CASE d \in D
    <3>1. h \in Elements(moduleIssuanceHooks[d])
      BY <1>4, <2>1, <2>2
    <3>2. /\ RemoveStorage(moduleIssuanceHooks[d], h) \in Seq(Hook)
          /\ Elements(RemoveStorage(moduleIssuanceHooks[d], h)) = isModuleHook[d] \ {h}
          /\ ~HasDuplicate(RemoveStorage(moduleIssuanceHooks[d], h))
      BY <2>1, <3>1, RemoveStorageRemoves
    <3> QED BY <1>3, <2>1, <2>2, <3>2
  <2>3. CASE d \notin D
    BY <1>3, <2>1, <2>3
  <2> QED BY <2>2, <2>3
<1>7. HooksTypeOK' /\ HookListsExact'
  <2>1. HooksTypeOK'
    BY <1>1, <1>3, <1>6 DEF HooksTypeOK
  <2>2. HookListsExact'
    BY <1>6 DEF HookListsExact
  <2> QED BY <2>1, <2>2
<1>8. ASSUME NEW d \in Issuer, NEW k \in Hook,
             Initialized(d)', Initialized(k)', <<d, k>> \notin unhooked'
      PROVE  k \in Elements(moduleIssuanceHooks'[d])
  <2>1. Initialized(d) /\ Initialized(k) /\ k # h
    BY <1>2, <1>8, HookKinds
  <2>2. <<d, k>> \notin unhooked
    BY <1>3, <1>8, <2>1
  <2>3. k \in isModuleHook[d]
    BY <1>1, <2>1, <2>2 DEF HooksComplete, HookListsExact
  <2> QED BY <1>6, <2>1, <2>3
<1>9. HooksComplete' /\ IssuedOnFreshDebt'
  BY <1>1, <1>3, <1>8 DEF HooksComplete, IssuedOnFreshDebt
<1>10. NothingLeftBehind'
  BY <1>1, <1>2, <1>3, <1>6, HookKinds DEF NothingLeftBehind, HooksTypeOK
<1>11. UndisturbedHooks'
  <2> SUFFICES ASSUME everDisabled' = {}
               PROVE  /\ \A k \in Module : moduleStates'[k] # "NONE" => k \in isModule'
                      /\ \A d \in Issuer : \A k \in isModuleHook'[d] : Initialized(k)'
    BY DEF UndisturbedHooks
  <2>1. /\ \A k \in Module : moduleStates[k] # "NONE" => k \in isModule
        /\ \A d \in Issuer : \A k \in isModuleHook[d] : Initialized(k)
    BY <1>1, <1>3 DEF UndisturbedHooks
  <2>2. h \in isModule
    BY <1>1, <1>2, <2>1
  <2>3. ASSUME NEW d \in Issuer, NEW k \in isModuleHook'[d] PROVE Initialized(k)'
    <3>1. k \in isModuleHook[d] /\ k \in Module
      BY <1>1, <1>6, <2>3, HookKinds DEF HooksTypeOK
    <3>2. k # h
      BY <1>5, <1>6, <2>2, <2>3
    <3> QED BY <1>2, <2>1, <3>1, <3>2
  <2> QED BY <1>2, <2>1, <2>3
<1> QED BY <1>2, <1>7, <1>9, <1>10, <1>11 DEF HooksInv

\* Every transaction preserves the inductive invariant.
LEMMA HooksStep == HooksInv /\ [HooksNext]_hookVars => HooksInv'
<1> SUFFICES ASSUME HooksInv, [HooksNext]_hookVars PROVE HooksInv'
  OBVIOUS
<1>1. CASE \E m \in Module :
             \/ GovernanceEnables(m)
             \/ GovernanceDisables(m)
             \/ \E a \in Account : ManagerAdds(a, m) \/ ManagerRemovesPending(a, m)
  BY <1>1, PendingInv
<1>2. CASE \/ GovernanceRemovesSet
           \/ \E a \in Account, h \in Hook : Lever(a, h) \/ Delever(a, h)
           \/ \E h \in Hook : InterestAccrues(h) \/ Sync(h)
           \/ UNCHANGED hookVars
  BY <1>2, DebtInv
<1>3. CASE \E d \in Issuer : Issue(d) \/ Redeem(d)
  BY <1>3, CallHooksInv DEF Issue, Redeem
<1>4. CASE \E a \in Account, d \in Issuer : InitializeIssuer(a, d) \/ RemoveIssuer(a, d)
  BY <1>4, InitializeIssuerInv, RemoveIssuerInv
<1>5. CASE \E a \in Account, h \in Hook : InitializeHook(a, h) \/ RemoveHook(a, h)
  BY <1>5, InitializeHookInv, RemoveHookInv
<1>6. CASE \E a \in Account, h \in Hook, d \in Issuer : RegisterToModule(a, h, d)
  BY <1>6, RegisterToModuleInv
<1> QED BY <1>1, <1>2, <1>3, <1>4, <1>5, <1>6 DEF HooksNext

\* The inductive invariant holds in every reachable state.
LEMMA HooksAlways == HooksSpec => []HooksInv
BY HooksInitInv, HooksStep, PTL DEF HooksSpec

\* Under any interleaving of registrations, removals and re-additions, the
\* list of hooks an issuer calls is its mapping of registered hooks.
THEOREM HookListsAreExact == HooksSpec => []HookListsExact
<1>1. HooksInv => HookListsExact
  BY DEF HooksInv
<1> QED BY <1>1, HooksAlways, PTL

\* A leverage module is registered with every initialized issuer, up to the
\* exceptions the code makes (initialize, registerToModule).
THEOREM HooksAreComplete == HooksSpec => []HooksComplete
<1>1. HooksInv => HooksComplete
  BY DEF HooksInv
<1> QED BY <1>1, HooksAlways, PTL

\* No issue and no redemption uses outdated debt outside those exceptions and
\* the lazy hooks (_callModulePreIssueHooks, _callModulePreRedeemHooks).
THEOREM DebtIsFreshOnIssue == HooksSpec => []IssuedOnFreshDebt
<1>1. HooksInv => IssuedOnFreshDebt
  BY DEF HooksInv
<1> QED BY <1>1, HooksAlways, PTL

\* As long as governance has disabled no module, no hook that a removed module
\* left behind can make issue or redeem revert.
THEOREM IssuanceStaysAvailable == HooksSpec => []IssuanceAvailable
<1>1. ASSUME HooksInv, isSet, everDisabled = {}, NEW d \in Issuer, Initialized(d)
      PROVE  MayCallHooks(d)
  <2>1. /\ \A m \in Module : Initialized(m) => m \in isModule
        /\ \A h \in isModuleHook[d] : Initialized(h)
    BY <1>1 DEF HooksInv, UndisturbedHooks, Initialized
  <2>2. OnlyModule(d)
    BY <1>1, <2>1, HookKinds DEF OnlyModule, Initialized
  <2>3. \A h \in Elements(moduleIssuanceHooks[d]) : MaySync(h)
    BY <1>1, <2>1, HookKinds DEF HooksInv, HookListsExact, HooksTypeOK, MaySync
  <2>4. \A h \in owes : OnlyModule(h)
    BY <1>1, <2>1, HookKinds
       DEF HooksInv, HooksTypeOK, NothingLeftBehind, OnlyModule, Initialized
  <2> QED BY <1>1, <2>2, <2>3, <2>4 DEF MayCallHooks
<1>2. HooksInv => IssuanceAvailable
  BY <1>1 DEF IssuanceAvailable
<1> QED BY <1>2, HooksAlways, PTL

==============================================================================
