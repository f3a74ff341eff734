--------------------------- MODULE SetTokenModules ---------------------------
(***************************************************************************)
(* Which modules may act on a SetToken: the NONE -> PENDING -> INITIALIZED *)
(* life cycle, the manager, and the lock that reserves the SetToken for    *)
(* one module over several transactions (contracts/protocol/SetToken.sol), *)
(* together with the Controller's list of enabled modules, which its owner *)
(* edits independently of every SetToken.                                  *)
(*                                                                         *)
(* Each action is one transaction.  Its caller is a parameter only where   *)
(* the code compares it: manager calls take the caller, module calls take  *)
(* the calling module.                                                     *)
(***************************************************************************)
EXTENDS AddressArrayUtils

CONSTANTS
  Module,      \* module contracts
  Account,     \* accounts that may be or become the manager
  NoModule,    \* address(0)
  Permanent    \* modules whose removeModule reverts (BasicIssuanceModule)

ASSUME ModulesAssumption ==
  /\ NoModule \notin Module
  /\ Permanent \subseteq Module

VARIABLES
  isModule,      \* Controller.isModule, as a set
  moduleStates,  \* SetToken.moduleStates
  modules,       \* SetToken.modules
  locker,        \* SetToken.locker
  isLocked,      \* SetToken.isLocked
  manager        \* SetToken.manager

lifecycleVars == <<isModule, moduleStates, modules, locker, isLocked, manager>>

ModuleState == {"NONE", "PENDING", "INITIALIZED"}

\* SetTokenCreator.create demands at least one module and that each is enabled.
Init ==
  /\ isModule \in (SUBSET Module) \ {{}}
  /\ \E pending \in (SUBSET isModule) \ {{}} :
       moduleStates = [m \in Module |->
                         IF m \in pending THEN "PENDING" ELSE "NONE"]
  /\ modules = <<>>
  /\ locker = NoModule
  /\ isLocked = FALSE
  /\ manager \in Account

-----------------------------------------------------------------------------
(* Controller.addModule and Controller.removeModule, as a SetToken sees    *)
(* them.                                                                   *)

EnableModule(m) ==
  /\ m \notin isModule
  /\ isModule' = isModule \cup {m}
  /\ UNCHANGED <<moduleStates, modules, locker, isLocked, manager>>

DisableModule(m) ==
  /\ m \in isModule
  /\ isModule' = isModule \ {m}
  /\ UNCHANGED <<moduleStates, modules, locker, isLocked, manager>>

-----------------------------------------------------------------------------
(* SetToken.                                                               *)

OnlyManager(caller) == caller = manager

OnlyModule(m) == moduleStates[m] = "INITIALIZED" /\ m \in isModule

\* Allowed while locked: a pending module has no power yet.
AddModule(caller, m) ==
  /\ OnlyManager(caller)
  /\ moduleStates[m] = "NONE"
  /\ m \in isModule
  /\ moduleStates' = [moduleStates EXCEPT ![m] = "PENDING"]
  /\ UNCHANGED <<isModule, modules, locker, isLocked, manager>>

RemoveModuleWhileLocked(caller, m) ==
  /\ OnlyManager(caller)
  /\ moduleStates[m] = "INITIALIZED"
  /\ m \notin Permanent
  /\ moduleStates' = [moduleStates EXCEPT ![m] = "NONE"]
  /\ modules' = RemoveStorage(modules, m)
  /\ UNCHANGED <<isModule, locker, isLocked, manager>>

RemoveModule(caller, m) ==
  /\ OnlyManager(caller)
  /\ ~isLocked
  /\ moduleStates[m] = "INITIALIZED"
  /\ m \notin Permanent
  /\ moduleStates' = [moduleStates EXCEPT ![m] = "NONE"]
  /\ modules' = RemoveStorage(modules, m)
  /\ UNCHANGED <<isModule, locker, isLocked, manager>>

RemovePendingModule(caller, m) ==
  /\ OnlyManager(caller)
  /\ ~isLocked
  /\ moduleStates[m] = "PENDING"
  /\ moduleStates' = [moduleStates EXCEPT ![m] = "NONE"]
  /\ UNCHANGED <<isModule, modules, locker, isLocked, manager>>

\* The module calls back from its own initialize, which only the manager may
\* call.  Neither checks that the controller still enables the module.
InitializeModule(caller, m) ==
  /\ OnlyManager(caller)
  /\ ~isLocked
  /\ moduleStates[m] = "PENDING"
  /\ moduleStates' = [moduleStates EXCEPT ![m] = "INITIALIZED"]
  /\ modules' = Append(modules, m)
  /\ UNCHANGED <<isModule, locker, isLocked, manager>>

SetManager(caller, newManager) ==
  /\ OnlyManager(caller)
  /\ ~isLocked
  /\ manager' = newManager
  /\ UNCHANGED <<isModule, moduleStates, modules, locker, isLocked>>

LockByOrigin(m) ==
  /\ OnlyModule(m)
  /\ ~isLocked
  /\ locker' = manager
  /\ isLocked' = TRUE
  /\ UNCHANGED <<isModule, moduleStates, modules, manager>>

Lock(m) ==
  /\ OnlyModule(m)
  /\ ~isLocked
  /\ locker' = m
  /\ isLocked' = TRUE
  /\ UNCHANGED <<isModule, moduleStates, modules, manager>>

UnlockKeepingLocker(m) ==
  /\ OnlyModule(m)
  /\ isLocked
  /\ locker = m
  /\ isLocked' = FALSE
  /\ UNCHANGED <<isModule, moduleStates, modules, locker, manager>>

Unlock(m) ==
  /\ OnlyModule(m)
  /\ isLocked
  /\ locker = m
  /\ locker' = NoModule
  /\ isLocked' = FALSE
  /\ UNCHANGED <<isModule, moduleStates, modules, manager>>

-----------------------------------------------------------------------------
Next ==
  \/ \E m \in Module : EnableModule(m)
  \/ \E m \in Module : DisableModule(m)
  \/ \E a \in Account, m \in Module : AddModule(a, m)
  \/ \E a \in Account, m \in Module : RemoveModule(a, m)
  \/ \E a \in Account, m \in Module : RemovePendingModule(a, m)
  \/ \E a \in Account, m \in Module : InitializeModule(a, m)
  \/ \E a, b \in Account : SetManager(a, b)
  \/ \E m \in Module : Lock(m)
  \/ \E m \in Module : Unlock(m)

Spec == Init /\ [][Next]_lifecycleVars

-----------------------------------------------------------------------------
(* Properties.                                                             *)

\* Types: in particular the locker is a module or address(0), never the
\* account that sent the transaction.
TypeOK ==
  /\ isModule \in SUBSET Module
  /\ moduleStates \in [Module -> ModuleState]
  /\ modules \in Seq(Module)
  /\ locker \in Module \cup {NoModule}
  /\ isLocked \in BOOLEAN
  /\ manager \in Account

\* SetToken.modules ("List of initialized Modules") lists every initialized
\* module once and nothing else, through every order of additions, removals
\* from the middle of the list and re-additions: leverage modules and hooks
\* find each other by looping over this list.
ModulesListExact ==
  /\ ~HasDuplicate(modules)
  /\ Elements(modules) = {m \in Module : moduleStates[m] = "INITIALIZED"}

\* A locked SetToken is held by a module that is still initialized on it, so
\* that the lock can be released without the SetToken's manager: no sequence
\* of removals strands a lock.
LockHeldByModule ==
  IF isLocked THEN locker \in Elements(modules) ELSE locker = NoModule

\* While a module holds the lock the manager, the list of modules and the
\* locker itself stand still; only pending additions happen.
LockFreezes ==
  [][isLocked /\ isLocked' =>
       /\ UNCHANGED <<manager, modules, locker>>
       /\ \A m \in Module : moduleStates[m] # "NONE"
            => moduleStates'[m] = moduleStates[m]]_lifecycleVars
==============================================================================
