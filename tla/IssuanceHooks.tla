---------------------------- MODULE IssuanceHooks ----------------------------
(***************************************************************************)
(* How leverage modules keep their debt in step with issuance: they        *)
(* register a hook with every debt issuance module of the SetToken         *)
(* (DebtIssuanceModule, DebtIssuanceModuleV2, SlippageIssuanceModule), and *)
(* an issue or a redemption first calls each registered hook, which syncs  *)
(* the recorded debt with the lending protocol.  Registration happens in   *)
(* the leverage module's initialize and removeModule, inside try/catch, so *)
(* a failed one goes unnoticed.  The module composes the life cycle of     *)
(* SetTokenModules with both sides of the registration.                    *)
(*                                                                         *)
(* No module of the repository calls lock, so lock and unlock take no part *)
(* here; amounts are abstracted to whether a module owes debt and whether  *)
(* the recorded debt is out of date.                                       *)
(***************************************************************************)
EXTENDS SetTokenModules

CONSTANTS
  Issuer,         \* debt issuance modules
  Hook,           \* leverage modules (Aave, Compound)
  Lazy,           \* the ones whose issue hook syncs with stored balances (Compound)
  DefaultIssuer   \* the issuer a leverage module requires to be initialized

ASSUME HooksAssumption ==
  /\ Issuer \cup Hook \subseteq Module
  /\ Issuer \cap Hook = {}
  /\ Lazy \subseteq Hook
  /\ Permanent \cap (Issuer \cup Hook) = {}
  /\ DefaultIssuer \in Issuer

VARIABLES
  isSet,                \* Controller.isSet of this SetToken
  moduleIssuanceHooks,  \* issuanceSettings[set].moduleIssuanceHooks, per issuer
  isModuleHook,         \* issuanceSettings[set].isModuleHook, per issuer
  owes,                 \* leverage modules with a borrow position on the Set
  drifted,              \* of these, the ones whose recorded debt is out of date
  everDisabled,         \* history: modules governance has disabled at some time
  unhooked,             \* history: <<issuer, hook>> pairs never registered
  mispriced             \* history: other pairs whose debt an issue left stale

registrationVars == <<moduleIssuanceHooks, isModuleHook>>
debtVars == <<owes, drifted>>
hookVars == <<lifecycleVars, isSet, registrationVars, debtVars,
              everDisabled, unhooked, mispriced>>

Initialized(m) == moduleStates[m] = "INITIALIZED"

HooksInit ==
  /\ Init
  /\ isSet = TRUE
  /\ moduleIssuanceHooks = [d \in Issuer |-> <<>>]
  /\ isModuleHook = [d \in Issuer |-> {}]
  /\ owes = {} /\ drifted = {}
  /\ everDisabled = {} /\ unhooked = {} /\ mispriced = {}

-----------------------------------------------------------------------------
(* Governance, and the manager's additions, as in SetTokenModules.         *)

GovernanceEnables(m) ==
  /\ EnableModule(m)
  /\ UNCHANGED <<isSet, registrationVars, debtVars, everDisabled, unhooked, mispriced>>

GovernanceDisables(m) ==
  /\ DisableModule(m)
  /\ everDisabled' = everDisabled \cup {m}
  /\ UNCHANGED <<isSet, registrationVars, debtVars, unhooked, mispriced>>

\* Factories only register SetTokens they create: a removed one stays out.
GovernanceRemovesSet ==
  /\ isSet
  /\ isSet' = FALSE
  /\ UNCHANGED <<lifecycleVars, registrationVars, debtVars, everDisabled, unhooked, mispriced>>

ManagerAdds(a, m) ==
  /\ AddModule(a, m)
  /\ UNCHANGED <<isSet, registrationVars, debtVars, everDisabled, unhooked, mispriced>>

ManagerRemovesPending(a, m) ==
  /\ RemovePendingModule(a, m)
  /\ UNCHANGED <<isSet, registrationVars, debtVars, everDisabled, unhooked, mispriced>>

-----------------------------------------------------------------------------
(* DebtIssuanceModule.initialize and removeModule.                         *)

InitializeIssuer(a, d) ==
  /\ isSet
  /\ InitializeModule(a, d)
  /\ moduleIssuanceHooks' = [moduleIssuanceHooks EXCEPT ![d] = <<>>]
  /\ unhooked' = unhooked \cup {<<d, h>> : h \in {h \in Hook : Initialized(h)}}
  /\ UNCHANGED <<isSet, isModuleHook, debtVars, everDisabled, mispriced>>

RemoveIssuerWithHooks(a, d) ==
  /\ RemoveModule(a, d)
  /\ moduleIssuanceHooks' = [moduleIssuanceHooks EXCEPT ![d] = <<>>]
  /\ unhooked' = unhooked \ ({d} \X Hook)
  /\ UNCHANGED <<isSet, isModuleHook, debtVars, everDisabled, mispriced>>

\* Deleting the settings clears the list but not the mapping inside them.
RemoveIssuer(a, d) ==
  /\ moduleIssuanceHooks[d] = <<>>
  /\ RemoveIssuerWithHooks(a, d)

-----------------------------------------------------------------------------
(* registerToIssuanceModule and unregisterFromIssuanceModule: what makes   *)
(* the call succeed for caller h, whose state on the SetToken is given.    *)

MayCall(d, h) == h \in isModule /\ isSet /\ Initialized(d)

Registers(d, h) == MayCall(d, h) /\ h \notin isModuleHook[d]

Unregisters(d, h) == MayCall(d, h) /\ h \in isModuleHook[d]

\* Only the issuer that initialize requires.
RequiredIssuer == {DefaultIssuer}

\* The issuers among the SetToken's modules that the loop over getModules
\* reaches; the call fails on any other module.
ListedIssuers == Elements(modules) \cap Issuer

\* initialize: the hook is registered with every issuer that lets it.
InitializeHook(a, h) ==
  /\ isSet
  /\ Initialized(DefaultIssuer)
  /\ InitializeModule(a, h)
  /\ LET registered == {d \in ListedIssuers : Registers(d, h)}
     IN  /\ moduleIssuanceHooks' =
              [d \in Issuer |-> IF d \in registered
                                THEN Append(moduleIssuanceHooks[d], h)
                                ELSE moduleIssuanceHooks[d]]
         /\ isModuleHook' =
              [d \in Issuer |-> IF d \in registered
                                THEN isModuleHook[d] \cup {h}
                                ELSE isModuleHook[d]]
         /\ unhooked' = unhooked \cup
              {<<d, h>> : d \in {d \in ListedIssuers :
                                   d \notin registered /\ h \notin isModuleHook[d]}}
  /\ UNCHANGED <<isSet, debtVars, everDisabled, mispriced>>

\* registerToModule, for an issuer that was initialized later.
RegisterToModule(a, h, d) ==
  /\ OnlyManager(a)
  /\ isSet
  /\ Initialized(h)
  /\ Registers(d, h)
  /\ moduleIssuanceHooks' = [moduleIssuanceHooks EXCEPT ![d] = Append(@, h)]
  /\ isModuleHook' = [isModuleHook EXCEPT ![d] = @ \cup {h}]
  /\ unhooked' = unhooked \ {<<d, h>>}
  /\ UNCHANGED <<lifecycleVars, isSet, debtVars, everDisabled, mispriced>>

\* A removal that leaves the hook with the issuers.
RemoveHookOnly(a, h) ==
  /\ isSet
  /\ h \notin owes
  /\ RemoveModule(a, h)
  /\ unhooked' = unhooked \ (Issuer \X {h})
  /\ UNCHANGED <<isSet, registrationVars, debtVars, everDisabled, mispriced>>

\* removeModule: sync, refuse while debt remains, then unregister wherever
\* the call succeeds.  A module that governance has disabled gets this far
\* when none of its assets is in use as collateral, and cannot unregister.
RemoveHook(a, h) ==
  /\ isSet
  /\ h \notin owes
  /\ RemoveModule(a, h)
  /\ LET dropped == {d \in ListedIssuers : Unregisters(d, h)}
     IN  /\ moduleIssuanceHooks' =
              [d \in Issuer |-> IF d \in dropped
                                THEN RemoveStorage(moduleIssuanceHooks[d], h)
                                ELSE moduleIssuanceHooks[d]]
         /\ isModuleHook' =
              [d \in Issuer |-> IF d \in dropped
                                THEN isModuleHook[d] \ {h}
                                ELSE isModuleHook[d]]
  /\ unhooked' = unhooked \ (Issuer \X {h})
  /\ UNCHANGED <<isSet, debtVars, everDisabled, mispriced>>

-----------------------------------------------------------------------------
(* Debt: the manager levers and delevers, interest accrues, anyone syncs.  *)

\* A leverage call records the current debt in the asset it borrows or
\* repays; other borrow assets of the module may stay out of date.
Lever(a, h) ==
  /\ OnlyManager(a)
  /\ isSet
  /\ OnlyModule(h)
  /\ owes' = owes \cup {h}
  /\ drifted' \in {drifted, drifted \ {h}}
  /\ UNCHANGED <<lifecycleVars, isSet, registrationVars,
                 everDisabled, unhooked, mispriced>>

\* delever and deleverToZeroBorrowBalance: the last debt may go.
Delever(a, h) ==
  /\ OnlyManager(a)
  /\ isSet
  /\ OnlyModule(h)
  /\ h \in owes
  /\ \/ owes' = owes /\ drifted' \in {drifted, drifted \ {h}}
     \/ owes' = owes \ {h} /\ drifted' = drifted \ {h}
  /\ UNCHANGED <<lifecycleVars, isSet, registrationVars,
                 everDisabled, unhooked, mispriced>>

InterestAccrues(h) ==
  /\ h \in owes
  /\ drifted' = drifted \cup {h}
  /\ UNCHANGED <<lifecycleVars, isSet, registrationVars, owes,
                 everDisabled, unhooked, mispriced>>

\* sync edits a position only where it is out of date, and only an edit
\* needs the module to be enabled.
MaySync(h) == isSet /\ Initialized(h) /\ (h \in drifted => h \in isModule)

Sync(h) ==
  /\ MaySync(h)
  /\ drifted' = drifted \ {h}
  /\ UNCHANGED <<lifecycleVars, isSet, registrationVars, owes,
                 everDisabled, unhooked, mispriced>>

-----------------------------------------------------------------------------
(* DebtIssuanceModule.issue and redeem, as far as modules are concerned:   *)
(* every registered hook syncs, then every module that owes debt borrows   *)
(* or repays its share through the SetToken, then Sets are minted/burned.  *)

CallHooksWithoutSync(d, lagging) ==
  /\ isSet
  /\ OnlyModule(d)
  /\ \A h \in owes : OnlyModule(h)
  /\ mispriced' = mispriced \cup
       ({<<d, h>> : h \in drifted \ lagging} \ unhooked)
  /\ UNCHANGED <<lifecycleVars, isSet, registrationVars, debtVars,
                 everDisabled, unhooked>>

\* No call of the transaction reverts: the issuer's own, the sync of each hook
\* and the borrowing or repaying of each module that owes debt.
MayCallHooks(d) ==
  /\ isSet
  /\ OnlyModule(d)
  /\ \A h \in Elements(moduleIssuanceHooks[d]) : MaySync(h)
  /\ \A h \in owes : OnlyModule(h)

\* The hooks in lagging sync with the balance the lending protocol has stored,
\* which may or may not include the interest that has accrued.
CallHooks(d, lagging) ==
  /\ MayCallHooks(d)
  /\ drifted' \in {drifted \ (Elements(moduleIssuanceHooks[d]) \ stored) :
                     stored \in SUBSET lagging}
  /\ mispriced' = mispriced \cup
       ({<<d, h>> : h \in drifted' \ lagging} \ unhooked)
  /\ UNCHANGED <<lifecycleVars, isSet, registrationVars, owes,
                 everDisabled, unhooked>>

\* moduleIssueHook of CompoundLeverageModule does not accrue interest first.
Issue(d) == CallHooks(d, Lazy)

\* Redemption always uses the current debt.
Redeem(d) == CallHooks(d, {})

-----------------------------------------------------------------------------
HooksNext ==
  \/ \E m \in Module : GovernanceEnables(m)
  \/ \E m \in Module : GovernanceDisables(m)
  \/ GovernanceRemovesSet
  \/ \E a \in Account, m \in Module : ManagerAdds(a, m)
  \/ \E a \in Account, m \in Module : ManagerRemovesPending(a, m)
  \/ \E a \in Account, d \in Issuer : InitializeIssuer(a, d)
  \/ \E a \in Account, d \in Issuer : RemoveIssuer(a, d)
  \/ \E a \in Account, h \in Hook : InitializeHook(a, h)
  \/ \E a \in Account, h \in Hook, d \in Issuer : RegisterToModule(a, h, d)
  \/ \E a \in Account, h \in Hook : RemoveHook(a, h)
  \/ \E a \in Account, h \in Hook : Lever(a, h)
  \/ \E a \in Account, h \in Hook : Delever(a, h)
  \/ \E h \in Hook : InterestAccrues(h)
  \/ \E h \in Hook : Sync(h)
  \/ \E d \in Issuer : Issue(d)
  \/ \E d \in Issuer : Redeem(d)

HooksSpec == HooksInit /\ [][HooksNext]_hookVars

-----------------------------------------------------------------------------
(* Properties.                                                             *)

\* The list of hooks an issuer calls and its mapping agree, although deleting
\* the settings of a removed issuer clears only the list: otherwise a module
\* would be refused as "already registered" and never be called.
HookListsExact ==
  \A d \in Issuer :
    /\ ~HasDuplicate(moduleIssuanceHooks[d])
    /\ Elements(moduleIssuanceHooks[d]) = isModuleHook[d]

\* A leverage module is registered with every initialized issuer, or it is
\* one of the recorded exceptions: the issuer was initialized after it, or
\* governance had disabled it when it was initialized.
HooksComplete ==
  \A d \in Issuer, h \in Hook :
    Initialized(d) /\ Initialized(h) /\ <<d, h>> \notin unhooked
      => h \in Elements(moduleIssuanceHooks[d])

\* While governance has disabled no module, an initialized issuer of a valid
\* SetToken can issue and redeem: no order of additions and removals leaves
\* it with a hook that reverts.
IssuanceAvailable ==
  isSet /\ everDisabled = {} =>
    \A d \in Issuer : Initialized(d) => MayCallHooks(d)

\* Sets are issued and redeemed against up-to-date debt: no issue and no
\* redemption through any issuer ever used a leverage module's recorded debt
\* while it was out of date, except where the pair was never registered and
\* where Sets are issued against a CompoundLeverageModule's debt.
IssuedOnFreshDebt == mispriced = {}
==============================================================================
