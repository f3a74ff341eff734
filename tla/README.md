# A TLA+ development of the LOCKON core contracts

The repository is a fork of Set Protocol V2. A *SetToken* is an ERC20 token
backed by a basket of components. A *Controller* decides which factories,
modules and resources take part; *modules* are the only contracts that may
change a SetToken's positions or supply; *integration adapters* translate a
module's requests for exchanges and lending protocols.

Around the contracts the repository keeps TypeScript: a deployment script, helpers
and fixtures that deploy the contracts for tests, a test harness, build tasks, and
quotes that repeat the contracts' arithmetic off chain.

This directory keeps TLA+ models of the contracts and of the TypeScript that carry
the project's own logic, TLC runs that check them on small instances, and TLAPS
proofs of the properties that matter most for every value of the parameters.

    tlc -config SetAccounting.cfg MCSetAccounting      # one run, see the table
    tlapm SetAccountingProofs.tla                      # one proof module

## 1. Inventory

### Parts, state, operations

| Part (under `contracts/`) | State it keeps | Operations that change it |
|---|---|---|
| `protocol/Controller.sol` | arrays and mappings of sets, factories, modules, resources; resource identifiers; protocol fees and recipient | `initialize`, `addX`/`removeX`, `addFee`/`editFee`, `editFeeRecipient` |
| `protocol/SetToken.sol`, modules | `moduleStates`, `modules`, `locker`, `isLocked`, `manager` | `addModule`, `removeModule`, `removePendingModule`, `initializeModule`, `setManager`, `lock`, `unlock` |
| `protocol/SetToken.sol`, positions; `protocol/lib/Position.sol`, `PositionV2.sol` | `components`, virtual units, external modules, their units and data, `positionMultiplier` | `editDefaultPosition`, `editExternalPosition`, `editPositionMultiplier` and the low-level edits below them |
| `lib/PreciseUnitMath.sol`, `lib/AddressArrayUtils.sol` | none | fixed-point roundings; list search and removal |
| `protocol/modules/v1/BasicIssuanceModule.sol` | manager hook, pause flag | `issue`, `redeem`, `pause`, `unpause` |
| `StreamingFeeModule.sol` | rate, maximum, recipient, last accrual | `initialize`, `accrueFee`, `updateStreamingFee`, `updateFeeRecipient`, `removeModule` |
| `AirdropModule.sol` | fee, recipient, whitelist | `absorb`, `batchAbsorb`, setters |
| `TradeModule.sol` | none | `trade` |
| `PositionUnitAdjusterModule.sol` | none | `adjustDefaultPositionUnits` |
| `DebtIssuanceModule.sol`, `DebtIssuanceModuleV2.sol`, `SlippageIssuanceModule.sol`, `IssuanceModule.sol` | fees, hooks of leverage modules, hook mapping | `issue`, `redeem`, registration, setters |
| `AaveLeverageModule.sol`, `CompoundLeverageModule.sol` | enabled collateral and borrow assets | `lever`, `delever`, `deleverToZeroBorrowBalance`, `sync`, hooks, registration, asset lists |
| `GeneralIndexModule.sol`, `SingleIndexModule.sol` | targets, trade settings, rebalance components, trader lists | `startRebalance`, `trade`, `tradeRemainingWETH`, `raiseAssetTargets`, setters |
| `CustomOracleNAVIssuanceModule.sol` | reserve assets, fees, premium | `issue`, `redeem`, setters |
| `StakingModule`, `WrapModule(V2)`, `AmmModule`, `ClaimModule`, `GovernanceModule`, `NotionalTradeModule`, PerpV2 modules | their integrations' settings | one or a few operations each |
| `protocol/IntegrationRegistry.sol`, `PriceOracle.sol`, `SetValuer.sol`, `SetTokenCreator.sol` | registries | additions, edits, removals; pure reads |
| integration adapters, oracles, viewers, `product/`, `exchangeIssuance/` | mostly none | call data, pure reads, periphery swaps |

| Part (TypeScript) | State it keeps | Operations that change it |
|---|---|---|
| `deploy/000_core.ts`, `utils/deploys/deployAndLog.ts`, `dependencies.ts`, `hardhat.config.ts` | hardhat-deploy's records on disk, pending transactions, the constants of a run | deployments, `initialize`, two `addIntegration`s, a killed process, a rerun |
| `utils/deploys/deployCoreContracts.ts`, `deployModules.ts`, `deployLibraries.ts`, `deploySetV2.ts` | none | one deployment each, with linked libraries |
| `utils/fixtures/systemFixture.ts`, `setFixture.ts`, `utils/common/protocolUtils.ts` | the fixture's fields | `initialize`, `createSetToken`, the look-up of a created Set |
| `utils/test/testingUtils.ts`, `utils/common/blockchainUtils.ts` | the stack of snapshots, the node's snapshots | `cacheBeforeEach`, `addSnapshotBeforeRestoreAfterEach` |
| `tasks/subtasks.ts`, `utils/tasks/artifactUtils.ts` | artifact files, generated types, hardhat's cache | the compile and typechain subtasks, publishing |
| `utils/common/mathUtils.ts`, `feeModuleUtils.ts`, `navIssuanceModuleUtils.ts`, `uniswapUtils.ts`, `exchangeIssuanceUtils.ts`, `perpV2Utils.ts` | none (`getAllowances`: an array filled later) | quotes |

### How the parts interact

* A factory creates a SetToken with pending modules and registers it with the
  Controller. The manager calls a module's `initialize`, which calls back
  `SetToken.initializeModule`; `SetToken.removeModule` calls the module's
  `removeModule`.
* A module may edit a SetToken only while it is initialized there *and* enabled
  on the Controller. Governance edits the second condition at any time, with no
  notice to the SetToken.
* All modules share the positions and the supply of a SetToken. A unit is stored
  as a virtual unit; its value for everyone is the virtual unit times the
  multiplier, which fee accrual and NAV issuance move.
* A leverage module registers a hook with each debt issuance module it finds on
  the SetToken (in `try`/`catch`); issuance calls the hooks to bring debt up to
  date, then each external position's own hook to borrow or repay its share.
* The deployment script creates one Controller with its factory, registry and two
  modules, initializes it and registers two exchange adapters; it is run by hand
  and again after it stopped. Fixtures do the same in one process for every test
  suite, through the deploy helpers.

### What is hard about it

A transaction is atomic and reverts as a whole, so there are no data races
inside one. What is hard is the **order of transactions** of parties that do not
coordinate (issuers, managers, governance, fee collectors, donors, interest);
**rounding** of two chained fixed-point conversions under a moving multiplier;
**lists kept twice** (array and mapping) over long sequences of additions,
removals and re-additions; **partial failure** hidden by `try`/`catch`; and
external contracts that deliver less, or other, than was asked. Off chain there
are **interleavings and crashes** too: a deployment is killed between sending and
recording, calls are sent and not awaited, callbacks fill an array after it was
returned, and files under version control are rewritten in place. `PROJECT.json`
lists the hazards line by line with the properties aimed at them.

### What makes each part correct

* *Accounting*: the SetToken holds what its positions claim, up to a stated
  rounding loss; no position is lost from the list or worth nothing; fees are
  charged once for every period, at the rate that was in force.
* *Positions*: default and external positions are independent entries; the
  component and module lists name each open position once; a closed position
  leaves nothing behind.
* *Modules and lock*: the module list is exact; a lock has a holder that can
  release it, and freezes what it is meant to freeze.
* *Controller*: arrays, mappings and identifiers agree.
* *Debt issuance*: the hooks called are those of the modules present; issuance
  stays possible and never prices a Set on outdated debt.
* *Rebalancing*: a trade is collateralized after its fee, approaches its target
  and does not pass it although fees move the target meanwhile; removal of the
  module leaves nobody a permission.
* *Quotes*: they agree with the contracts they imitate, can be carried out at
  the prices they were made from, and never gain on a round trip.
* *Deployment and fixtures*: what is on record is one system, reruns complete it,
  and every constructor gets the arguments meant for it.
* *Test harness and build*: a test starts clean whatever failed before it; no gas
  limit is left in a file under version control, and a published package carries
  the limits its tag is meant to carry.

## 2. Modules

| Module | Models | Used by |
|---|---|---|
| `PreciseUnitMath` | `PreciseUnitMath.sol` and SetToken's unit conversions; the scale 10^18 is the constant `PreciseUnit` | `SetAccounting`, `SetTokenPositions`, `MathUtils` |
| `AddressArrayUtils` | `AddressArrayUtils.sol`: `indexOf`, `contains`, `hasDuplicate`, `remove` (order kept), `removeStorage` (last element moved) | all list-keeping modules |
| `SetAccounting` | one SetToken with default positions, and Basic issuance, streaming fee, airdrops, trades and unit adjustment on it | `MCSetAccounting`, `GeneralIndex` |
| `SetTokenPositions` | default and external positions under the Position libraries and the multiplier | `MCSetTokenPositions` |
| `PositionBook` | abstract specification: a book of independent signed entries | refined by `SetTokenPositions` |
| `SetTokenModules` | module life cycle, manager, lock, governance's enabling | `MCSetTokenModules`, `IssuanceHooks` |
| `IssuanceHooks` | the composition of the life cycle with debt issuance modules' hook lists and leverage modules' debt | `MCIssuanceHooks` |
| `DebtIssuance` | the amounts: issue and redeem with fees (V1 and V2 transfer checks), lever, delever, sync, component hooks | `MCDebtIssuance` |
| `GeneralIndex` | `GeneralIndexModule.sol` on top of `SetAccounting`: targets, trades against WETH, trade limits, cool-offs, traders' permissions | `MCGeneralIndex` |
| `Controller` | `Controller.sol` | `MCController` |
| `MathUtils`, `FeeQuotes`, `NavIssuance`, `UniswapQuotes`, `ExchangeIssuanceQuotes`, `PerpQuotes` | the off-chain quotes as functions, and the arithmetic of `CustomOracleNAVIssuanceModule` they repeat | `MCArithmetic` |
| `CoreDeployment` | `deploy/000_core.ts` with records, pending transactions, killed processes and reruns, on each network of `hardhat.config.ts` | `MCTooling` |
| `DeployHelper` | the constructors of the contracts and the deploy helpers that call them, with their libraries | `FixtureBringUp` |
| `FixtureBringUp` | system and Set fixture, step by step; creation and look-up of a Set among other accounts' blocks | `MCTooling` |
| `SnapshotHarness` | both test sandboxes in nested suites, with tests and initializers that throw | `MCTooling` |
| `GasArtifacts` | the subtasks that write gas limits into ABIs, and the publishing commands | `MCTooling` |
| `AllowanceQueries` | `getAllowances` with its queries in flight | `MCTooling` |
| `MCArithmetic`, `MCTooling` | all small operands of the pure modules; the stateful tools side by side | |
| `LibraryProofs` | lemmas on the roundings and on lists | the other proof modules |
| `...Proofs` | theorems, see section 4 | |

An action is one external call, with the code's `require`s as guards, its
assignments as primed variables and every callee's effect included; a revert is
an action that is not enabled. Definitions keep the source's names (with an
initial capital for operators); `PROJECT.json` maps each to its lines. Some
definitions are marked in their comments as altered forms of the one below them
(a dropped guard, a wrong order): they take no part in any specification and
show, when put in place of the real one, that a property notices.

Choices a reader should know:

* **`SetAccounting`.** The list of components is a set, since no operation here
  depends on its order (`SetTokenPositions` keeps it a sequence). Users' shares
  are abstracted to the total supply. A protocol fee is picked from `FeeRates` at
  every use, because governance may edit it between any two calls and
  `Controller` bounds it nowhere. An exchange takes any amount up to the
  approved one and delivers any amount, and the sent and received token may be
  the same. `adjustDefaultPositionUnits` over an array is a sequence of
  one-component steps: neither balances nor supply change between elements.
  `issued` and `unaccrued` are history variables: total quantity ever issued, and
  rate times time since the last accrual. Time advances only while a streaming
  fee is configured, as nothing else reads it here.
* **`SetTokenPositions`.** The caller is a module that `SetTokenModules` lets
  through. The multiplier takes any value of the constant `Multiplier` that
  `_validateNewMultiplier` accepts, on both sides of one.
* **`SetTokenModules`.** `isModule` is the Controller's mapping. `Permanent`
  holds modules whose `removeModule` reverts (`BasicIssuanceModule`).
* **`IssuanceHooks`.** Debt is abstracted to "owes" and "recorded debt is out of
  date". The leverage modules' loop over `getModules` with `try`/`catch`
  becomes the set of issuers on which the call succeeds. No contract of the
  repository locks a SetToken, so lock actions are left out of this composition.
  `Lazy` holds the leverage modules whose `moduleIssueHook` syncs with the
  lending protocol's *stored* balances (Compound): their debt stays out of date
  through an issuance, and `IssuedOnFreshDebt` excepts them; a redemption
  accrues first.
  `unhooked` records pairs that the code itself never registers, `everDisabled`
  what governance did: both only narrow the claims, as their comments say.
* **`DebtIssuance`.** Complements `IssuanceHooks`: every hook is registered and
  amounts are exact. The multiplier is one (`SetAccounting` moves it). A module's
  collateral token is a default position and its debt a negative external
  position; both follow balances through `sync`. Aave and Compound differ where
  their modules and protocols do: the early return on `_isEquity`, the cap on a
  repayment, the refusal of zero amounts, and what `delever` does with the rest
  of a trade. A cToken's exchange rate is one, and Compound's debt is the stored
  balance, with an accrual as a step of its own. `Shortfall` is what a transfer
  costs the SetToken beyond the asked amount (aTokens' rounding), which only V2
  tolerates. `IssuancePreservesCover` is stated for tokens owed to one module at
  most: a redeemer pays in the rounded-up product of the *summed* debt units,
  while each module repays its own rounded-up product, so with two modules owing
  one token its default position pays the difference, a base unit.
* **`GeneralIndex`.** Issuance, redemption, the streaming fee and the position
  edits are SetAccounting's actions and operators; its other actions are left out
  of `IndexNext`, since a rebalance does not depend on them. Which exchange trades
  a component (`setExchanges`, `setExchangeData`) does not matter here: an
  exchange moves exactly the fixed quantity, refuses to move nothing, and moves
  any floating quantity within the trader's limit. `trade` is two actions, one for
  each direction. Of `lastTradeTimestamp` the model keeps the time since, up to
  the longest cool-off period. A setter over an array is a sequence of
  one-component steps. `rebalanceComponents` is a set, because `startRebalance`
  refuses duplicates and no loop over it depends on order. The properties of
  targets speak of a component that the SetToken holds in full (`HeldInFull`):
  trade sizes are computed from notional amounts, and where rounding under fees
  has left the balance short of them (`LossBounded` says how far), a trade that
  sells the whole balance ends below any target. `TargetNotCrossed` also wants the
  trade to move some of the component: one of nothing still writes the unit anew
  and may lose two roundings.
* **`Controller`.** A mapping to `bool` is a set. The add functions take
  address(0) like any other address, which only `initialize` refuses, and
  `initialize` refuses no repetition. `repeated` is a history variable, the
  addresses that a list given to `initialize` named twice. The properties say what
  goes wrong for them and that nothing else does: such an address may stay listed,
  or found by an identifier, after it is disabled. `ResourceIdsExact` excepts
  address(0) too: `addResource(address(0), id)` enables a resource under an
  identifier that reads as free.
* **Quotes.** A quote is a function of what it reads on chain: reserves, unit
  sizes, supplies, account values. The routers of the quotes in ETH are
  constant-product pools, whose formula is that of Uniswap's V2 library (the
  copy under `external/` has the calls and not the formula). The quotes in USDC
  ask a V2 router or V3's quoter, which prices otherwise: only what
  `QuotersAssumption` says of either is used, that an exchange asks more for an
  amount than it pays for the same amount, and that neither falls as the amount
  grows. TLC evaluates it on the run's quoters, and the proofs take nothing else
  from them.
  Perpetual futures are traded at a bid and an ask.
  `getReservesSafe` compares two checksummed addresses as strings: the run
  `arithmetic` claims the order of the reserves for addresses whose first differing
  digits do not mix cases, and otherwise it may be lost (section 5).
  `BigNumber`s
  compared with `<` are compared by their decimal digits, as JavaScript does
  (`DecimalStringLess`), so `LPQuoteIsMinimum` claims the minimum only for
  quantities with equally many digits. `encodePath` works on sequences of hex
  digits, because its property is about their number.
* **`CoreDeployment`.** An address is the number of a contract in the order of
  creation. All transactions come from one account and are mined in order; a call
  is estimated against mined state before it is sent. hardhat-deploy may or may
  not recover an interrupted deployment from its own log, so a rerun does either.
  The networks are those of `hardhat.config.ts` that keep state between runs.
* **`DeployHelper` and `FixtureBringUp`.** A constructor is a map from storage
  fields to positions of its parameter list, a helper a list of arguments in the
  order it passes them; `ArgumentsReachTheirParameters` compares the two. A
  fixture is a sequence of steps over its fields, each of which throws on a field
  that is not yet set.
* **`SnapshotHarness`.** The chain is the sequence of marks left on it by
  initializers and tests; a revert drops the reverted and all later snapshots, as
  a hardhat node does. A suite uses one of the two sandboxes, as every test file
  of the repository does.
* **`GasArtifacts`.** A file holds no limit, a limit, or half a text. Publishing
  builds the package of one of two tags: both clean, compile, run the typechain
  subtask and transpile; `build:npm:latest` compiles with `SKIP_ABI_GAS_MODS`,
  `build:npm:hardhat` does not. The typechain subtask does not look at that variable,
  so the types of *both* packages carry a limit; the artifacts of `latest` carry
  none and those of `hardhat` all do, which `PackagesMatchTheirTag` says. Commands
  in one working directory run one at a time, and any may be killed. The import of
  the subtasks in `hardhat.config.ts` is commented out; the model is of the
  subtasks as they are written. A release from CI, where `prepublish_only.sh` exits
  at once and the package is what the CI job left in the directory, is not modelled.
* **`MCTooling`.** The tools share no state, so each behaviour is one of a single
  tool; `activity` says which. One run then asks about all of them.

## 3. Runs

| Run | Instance | Properties and what they show |
|---|---|---|
| `set_accounting` | two interchangeable components, scale 4, supply and issued quantity up to 5, balances up to 2, two ticks, fee rates 0, 1/2 and 5/4; about 126,000 states | `ComponentsTracked`, `LossBounded`, `FeeMatchesHistory`, `CollateralPreserved`: every interleaving keeps list, virtual and real units in agreement; only a moving multiplier loses collateral, and at most a base unit per issued Set; no retroactive or repeated fee |
| `full_collateral` | same | violation of `FullyCollateralized`, see section 5 |
| `module_lifecycle` | three modules (one permanent), two managers | `ModulesListExact`, `LockHeldByModule`, `LockFreezes` |
| `controller` | two modules, two resources, one factory and one set, and address(0) among each of them; initial lists with and without repetitions, address(0) and mismatched lengths; about 658,000 states | `ListsMatchMappings`, `ResourceIdsExact` |
| `positions` | two components, two external modules, scale 3, multipliers 2 and 4 (and 0, refused) | `PositionsListed`, `PositionsVisible`, and `ImplementsBook`: the libraries refine `PositionBook` |
| `issuance_hooks` | two issuers, two leverage modules, one manager; about 903,000 states | `HookListsExact`, `HooksComplete`, `IssuanceAvailable`, `IssuedOnFreshDebt` |
| `debt_issuance` | one Aave module with one collateral and one borrowed token, either issuance module, scale 2, supply, balances and debt up to 3, transfers that cost up to one base unit more under V2; about 93,000 states | `DebtRecorded`, `IssuancePreservesCover`, `BorrowingGoesToIssuer`: leverage trades, interest, liquidation, issue and redemption in any order |
| `fees_minted` | same as `debt_issuance`, protocol split of 100% | violation of `FeesAreMinted` |
| `compound_equity_pass` | a Compound module in place of Aave's | violation of `BorrowingGoesToIssuer` |
| `general_index` | WETH and one component, scale 2, three base units of supply (one and a half Sets) that fees double, targets 0 and 2, trade maxima 3 and 13, a fee of one half on trades, one trader that is a contract; about 622,000 states | `PermissionsTracked`, `CollateralPreserved`, `TargetNotCrossed`, `WethTargetKept`, `UncappedTradeMeetsTarget`: trades, raised targets, fee accruals, issuance, permissions and removal in any order |
| `arithmetic` | operands -15..15, scale 6 (one run of 961 operand pairs, each with several fees, pools, prices and supplies) | `RoundingsMatchReference`, `RoundTripTight`: the roundings against definitions by cross products, for all sign combinations, on chain and off; `DilutionQuotesAgree` (fees, multipliers, net asset value), `PricedQuotesSound` (pools, exchanges, perpetual futures), `StringsStandForNumbers` (decisions taken on strings of digits): conjunctions of the claims about single quotes, each stated above its definition |
| `tooling` | every configured network with three killed processes and two transactions pending at a rerun; both fixtures and every helper after them, two blocks of others; four tests in four suites nested three deep with two hooks; three artifact files, both tags and two faults; two tokens with two spenders; about 436,000 states | `OneSystem`, `NothingInitializedInVain`, `DeploymentCompletes`; `OneFixtureSystem`, `ArgumentsReachTheirParameters`, `SessionComesUp`, `FoundSetIsNotOlder`; `TestsAreSandboxed`; `GasLimitsStayWhereTheyBelong`; `AllowancesArriveInGroups` |

Why the bounds are enough for the cases of interest: a small scale makes every
conversion inexact, where 10^18 would make inexactness rare; a year of one tick
makes one accrual inflate by a quarter or a half; a quantity of 1 is a quarter of
a Set and 4 a whole one, so issue-accrue-issue sequences happen within the
supply bound; a fee rate above one reaches the underflow guards. Three modules
are the fewest where a removal hits the middle of a list (the Controller's third is
address(0)). Two holders per
component are the fewest where one edit could disturb another's entry. Two issuers
and two hooks show both registration orders and a failure on one of several.
The remaining bounds (`MaxSupply`, `MaxBalance`, `MaxElapsed`, `MaxIssued`)
appear only as guards; the theorems do not depend on their values.

Off chain: a second killed process is the first one that can interrupt the
recovery from an earlier one, a third leaves one for the gap between the two
registrations; three files are the fewest with one before, one at and one after
the point where a rewriting process dies; nesting three deep puts a suite between
an outer and an inner one.

**Fairness.** Of the contracts none is assumed: a transaction happens when
somebody sends it, and nothing in the code obliges anyone to. Their properties are
safety properties; `IssuanceAvailable` says that a call *could* succeed: the guard
that its hooks impose, `MayCallHooks`, holds in every reachable state. Of the
tools, `MCTooling!Fairness` is weak fairness of the steps that follow from the
code and its environment alone: a script or fixture that is not killed continues
after an `await`, the network mines what it was sent, a node answers or rejects
every query, and the operator runs a deployment again that stopped. Killing,
throwing, creating Sets, running tests and building are never fair.

Deadlock is checked in every run except `tooling`, where a fixture that is up, a
finished test session and an answered query really stop.

## 4. Proofs

The theorems hold for every value of the constants that the assumptions allow: any
scale, any sets of components, modules and traders, any fees and exchange results.

| Theorem | Statement | Argument |
|---|---|---|
| **`SetAccountingProofs`** | | |
| `TypeCorrect` | `[]TypeOK`; multiplier in 1..`PreciseUnit` | `_validateNewMultiplier` refuses a multiplier of zero; fees only lower it |
| `ListsConsistent` | `[]ComponentsTracked` | an edit lists or unlists by the real unit, and a new multiplier leaves no position at zero |
| `LossIsBounded` | `[]LossBounded` | inductive invariant `ClaimsBacked`, below |
| `CollateralIsPreserved` | `CollateralPreserved` | each module's rounding favours the Set at a fixed multiplier |
| `FeeIsNotRetroactive` | `[]FeeMatchesHistory` | a change of rate accrues first |
| `PermissionsAreTracked` | `[]PermissionsTracked` of `IndexSpec` | the history lists the allow list, each trader once |
| `RebalancingKeepsCollateral`, `RebalancingTracksComponents`, `RebalancingLossBounded` | `CollateralPreserved`, `[]ComponentsTracked`, `[]LossBounded` of `IndexSpec` | an index trade is an exchange in the sense of `ExchangeEffect`; all else is a step of `SetAccounting` |
| `TargetsAreNotCrossed`, `WethTargetIsKept`, `UncappedTradesMeetTargets` | the three properties of targets of `IndexSpec` | the roundings of a trade, below |
| **`SetTokenPositionsProofs`** | | |
| `PositionsInductive`, `PositionsAreListed`, `PositionsAreVisible` | `[]PositionsInv`, `[]PositionsListed`, `[]PositionsVisible` | the two properties are inductive only together, below |
| `PositionsImplementBook` | `ImplementsBook` | step by step: an edit writes one entry of the book, a new multiplier revalues all |
| **`SetTokenModulesProofs`** | | |
| `ModulesListIsExact`, `LockIsHeld`, `LockIsExclusive` | the three properties of `module_lifecycle` | `LifecycleInv`: types, exact list, a lock held by a listed module |
| `HookListsAreExact`, `HooksAreComplete`, `DebtIsFreshOnIssue`, `IssuanceStaysAvailable` | the four properties of `issuance_hooks` | `HooksInv`, below |
| **`ControllerProofs`** | | |
| `ListsAgree`, `ResourceIdsAgree` | the run's two properties, for any lists given to `initialize` | `ControllerInv`: nothing is repeated before `initialize`; a removal leaves the other slots in their order (`RemoveShifts`) |
| **`DebtIssuanceProofs`** | | |
| `DebtIsRecorded` | `[]DebtRecorded` | `DebtInv`, assuming `SoundSettings`, below |
| `AmountsStayNatural` | `[]TypeOK` | every subtraction is guarded or capped |
| `BorrowingReachesIssuer`, `IssuanceKeepsCover` | `[]BorrowingGoesToIssuer`, `IssuancePreservesCover` | `CoverInv` and sums over modules, assuming `Aave = Leverage`, below |
| **`ArithmeticProofs`** | | |
| `RoundingsAreExact`, `RoundTripIsTight` | `[]RoundingsMatchReference`, `[]RoundTripTight` | quotient and remainder of the magnitudes, then the signs |
| `DilutionIsQuotedRight` | `[]DilutionQuotesAgree` | cross products, below |
| `PricesAreQuotedRight` | `[]PricedQuotesSound` | one lemma per quote, below |
| `EngageShare`, `RebalanceSale`, `SellsForLess`, `PerpRoundTrip` | what single quotes promise for every pool, balance, price and position | the same, without the values of the run |
| **`ToolingProofs`** | | |
| `OneSystemOnRecord`, `NothingInVain` | `[]OneSystem`, `[]NothingInitializedInVain` of `DeploymentSpec` | `DeploymentInv`, below |
| `EveryTestStartsClean` | `[]TestsAreSandboxed` of `HarnessSpec` | `HarnessInv`, below |
| `GasLimitsStay` | `[]GasLimitsStayWhereTheyBelong` of `ArtifactSpec` | where a limit is, by position of the loop over files (`LoopInv`), by command of a build (`ReleaseInv`) and in the packages (`PackageInv`) |
| `FoundSetIsNeverOlder` | `[]FoundSetIsNotOlder` of `FixtureSpec` | blocks only grow, so the test's own Set keeps its place among them and a look-up ends at or after it |
| `EveryArgumentReachesItsParameter` | `[]ArgumentsReachTheirParameters` of `FixtureSpec` | `ArgumentsInv` and the tables of helpers and constructors, below |
| `FixtureIsOneSystem` | `[]OneFixtureSystem` of `FixtureSpec` | `SoundScript` of both fixtures and `BringUpInv`, below |
| `AllowancesStayInGroups` | `[]AllowancesComeInGroups` of `AllowanceSpec`, the safety half of `AllowancesArriveInGroups` | the array grows by whole groups |
| **`LibraryProofs`** | | |
| `DivDownIsFloor`, `RoundTripLosesAtMostOne` | what the conversions compute, dividend and divisor of either sign | from the definition of `\div`, signs by cases |
| lemmas | bounds of every rounding; `Append`, `removeStorage` on lists without duplicates, `remove` on any list; what a fold over a finite set adds up to | cited by all other proof modules |

### Accounting and rebalancing

`LossBounded` speaks of rounded real units and is not inductive: accrual lowers
the multiplier by a rounded product and mints a rounded quantity, and the rounded
unit forgets how much slack it had. `ClaimsBacked` keeps the unrounded claim:
virtual unit times multiplier times supply is at most the balance and the issued
quantity, both at full precision. Issuing adds a claim covered by the deposit
up to less than one base unit per Set, which `issued` pays for; accrual multiplies
the multiplier by `1 - f` and the supply by at most `1 / (1 - f)`; every edit of
a unit writes a value that the balance covers. Rounding the real unit down then
gives `LossBounded`. The nonlinear steps are lemmas on natural numbers of their
own, stated without any variable of the specification.

The proofs about `GeneralIndex` reuse these: they speak of the effect of a step
(`EditEffect`: every edited position is backed by the balance left), so a
component composed with `SetAccounting` only has to show that its own steps have
that effect. `IndexInvariant` joins the accounting invariants with the types of
targets and multipliers, which make every trade size a natural number; the
division by one minus the fee is why a buy needs a fee below one.

The properties of targets chain four roundings: the notional amounts of the unit
and of the target, the fee, and the unit written from the new balance, which
passes through the virtual unit. Each is replaced by its two bounding products,
and the chain becomes a comparison of products; with at least one Set of supply
the errors add up to the one base unit that `_targetUnmet` tolerates. The proof
showed that two antecedents were missing from the properties (`HeldInFull`, and
that the trade moves something): with 100 for the scale, a unit of 50, 1000 Sets
issued at a multiplier of 99/100, an accrual to 98/100 and 990 Sets redeemed, a
trade of the whole balance passes the target. The instance of the run is too small
to reach that state.

### Positions

The libraries decide by *real* units whether a position is open, and write
*virtual* ones. `PositionsListed` is kept by an edit only if no open position has
a real unit of zero; `PositionsVisible` is kept by a new multiplier only if the
lists that `_validateNewMultiplier` walks name every open position. `PositionsInv`
joins the two with the types. A debt never rounds to nothing, as it is rounded
away from zero; an asset does not because `_convertRealToVirtualUnit` and
`_validateNewMultiplier` refuse it. The refinement maps an entry of `PositionBook`
to the real unit it reports.

### Hooks

`HooksComplete` and `HookListsExact` say nothing of issuers that were removed,
whose later `initialize` must find the mapping as empty as the list;
`NothingLeftBehind` does. `IssuanceAvailable` needs `UndisturbedHooks`: until
governance disables a module, what is on the SetToken is enabled and what is
registered is initialized. `HooksInv` is their conjunction with `LifecycleInv`, so
the proof shows too that the composition keeps every property of the life cycle.

### Debt

`DebtRecorded` is inductive together with `DebtTypeOK`, the part of `TypeOK` it
needs. It compares exact products, so the proof works with the two facts the
conversions give: a borrow position written from a debt is rounded up
(`PreciseDivCeilBounds`), a borrowing for an issuance is rounded down, a
repayment in a redemption rounded up and capped at the debt. Fees enter through
the supply: a redemption burns the quantity and mints its fee, an issuance borrows for
quantity and fee but may mint less. The theorem therefore assumes
`SoundSettings`: all leverage modules are Aave's (a Compound module's second
borrowing is the finding below) and the protocol takes less than the whole fee
(with all of it nothing is minted, also below). Only each module's own share matters.

`BorrowingReachesIssuer` and `IssuanceKeepsCover` do compare sums over modules: a
sum of floors is at most the floor of the sum. Sums are folds, about which the
prover knows nothing; the lemmas come from one induction over the subsets of the
finite set of modules, as a least counterexample under the strict subset ordering
(`SubsetInduction`). They are stated in `LibraryProofs` for any function that is
added up, and the quotes use them too. `CoverInv` adds to the types that only borrowed tokens are
owed (`OwesOnlyBorrowed`). Both theorems assume `Aave = Leverage` and no bound on
the protocol's split.

### Arithmetic

Solidity truncates towards zero, TLA+'s `\div` rounds down, and the reference
definitions use neither. Every fact is first shown for quotient and remainder of
the two magnitudes, the signs are put back by cases. For `DilutionIsQuotedRight`:
with supply `S` and shares `f`, `s`, `o` of three accruals, `f + s <= o`, the two
mints satisfy `(P - f) m1 <= f S` and `(P - s) m2 <= s (S + m1)`; multiplying
gives `P (P - o) (S + m1 + m2) <= P P S` (`CompoundingDilutes`), which is the
claim without its rounding. A quoted multiplier uses the ratio of the supplies
rounded to the scale; one minus the inflation rounded up and one plus the
deflation rounded down are the same floor of that ratio, and multiplying by it
loses at most the multiplier's steps per unit. The quotes of NAV issuance and
redemption split the fees between manager and protocol otherwise than the
contract, and scale and divide in another order; `NetOfFees`, `RoundingsAdd` and
`ApproximationsApart` bound what that can move, and the tolerances of the
properties are these bounds.

`PricesAreQuotedRight` follows the chain of each quote. A pair is known by the
two products that the rounded quotient stands between (`SwapOut`, `SwapIn`); that
a purchase can be paid back from its own proceeds (`BuysBack`) needs more than
rounding: 997 is prime and divides no product of smaller numbers, so the reserves
that are paid into must not be multiples of it, which the values of the run satisfy.
An issuance for an exact amount of ETH is affordable because the share that each
component gets is rounded down from the sum (`Affordable`). The round trip of a
perpetual position compares `(k + 1)`-fold values: with `k` Sets outstanding,
the account after the issue holds what the issuer paid, each Set's share is rounded
once, and the spread stays as the only term that does not cancel. A short is
rounded against its holder throughout; a long is not, since the share of its
negative quote balance is rounded towards zero.

Two antecedents are there because the proofs need them, on operands larger than
those of the run: a quote in a token is bounded only if the second exchange holds the ETH
that the components cost (the router reverts otherwise, and a quoted cost is the
cheaper of the two exchanges), and an amount out is bounded only if the closed Set
is worth something (the helper returns the magnitude of a negative value).

The theorems speak of all operands and scales; the pools, Sets, prices and
supplies inside `PricedQuotesSound` are those of `MCArithmetic`. The four theorems
listed after it do not depend on them. `UsdcQuotesKeepSlack` holds for every
set of quoters that `QuotersAssumption` admits. `ReservesFollowAssetsInOneCase` and
`MaxIssueWithinMargin` carry their conditions in their statements; what the code
does outside them is in section 5.

### Deployment and tests

`OneSystem` says nothing of transactions on their way. `DeploymentInv` adds what a
receipt relies on: the contract a process waits for, or waited for when it was
killed, has no record yet and is the *newest* transaction, pending or mined
(`AwaitedInv`); the running script knows each contract it has passed, from its
record (`LocalInv`); and every call sent, mined or not, speaks of contracts on
record (`CallsInv`). A new record then never changes what a link points to, since
links only point to records that exist. The order of the script enters as one
lemma (`ArgumentsComeFirst`), the tables of `dependencies.ts` as another
(`ArgumentsDefinedSuffice`). The theorems hold for every `MaxCrashes` and
`MaxPending`.

`TestsAreSandboxed` looks at the chain when a test starts. `HarnessInv` says what the
snapshots lead to at all other moments: the ids on the stack rise, so that reverting
to one keeps those below it; the snapshot of the i-th cache leads to what the
outermost one found plus the marks of the first i initializers; and all sandboxes that
are entered lead to what the outermost found. A hook is on the stack exactly if it
is initialized, which holds after a throwing initializer too.

The fixtures are straight-line scripts, and the proof of `OneFixtureSystem` is mostly
about the scripts: `SoundScript` says that the Controller is deployed first and
only once, that everything registered is constructed with it, that no field is
deployed again after it was approved, and that initialization comes last; it is shown
for both fixtures from their steps. `BringUpInv` carries it to the run: behind the
cursor, each field holds a contract that was constructed from the fields of
that moment. `ArgumentsInv` says of every contract that its storage is what its
helper handed over, which the tables of helpers and constructors show to be what was
meant.

### Assumptions and limits

Assumptions: the `ASSUME`s beside the constants (`PreciseUnitAssumption` and the
like: positive scale, sets of naturals, finite sets of modules, distinct kinds of
addresses, and in `MCArithmetic` that WETH and USDC are none of the run's other
tokens and what `QuotersAssumption` asks of exchanges), which TLC evaluates on each
instance, and the hypotheses of single theorems, `SoundSettings` and
`Aave = Leverage` for debts.

Only model-checked, and why:

* `DeploymentCompletes`, `SessionComesUp` and the second half of
  `AllowancesArriveInGroups` are liveness under fairness, outside the prover's reach.
* `StringsStandForNumbers` computes with digits: powers of ten, the number of
  digits of a quantity and the concatenation of encoded addresses, recursions over
  data that the provers cannot unfold.
* The three properties that are expected to be violated.

## 5. Findings

* **`full_collateral`.** The comment on `accrueFee` says position units are
  adjusted down "to ensure full collateralization". The real unit is a rounded
  product and need not fall when the multiplier does, while the supply grows: a
  Set can owe a base unit more than it holds. `LossBounded` is what holds.
* **`fees_minted`.** `_resolveFees` mints the protocol's share only where the
  manager's is positive. With a split of 100% the issuer pays for fee Sets that
  nobody receives.
* **`compound_equity_pass`.** `componentIssueHook` runs in the equity and in the
  debt pass; Aave's module returns early from the first "otherwise the loan would
  be taken out twice", Compound's does not. If the borrowed token also has a
  default position, an issuance borrows twice and hands over the debt once.

Observations without a run of their own:

* `PositionUnitAdjusterModule` promises that "units can only be adjusted upward"; a
  requested unit of zero takes the balance-based unit without comparison, and
  lowers a position that rounding left short (`LossBounded` says how short).
* `Controller.removeModule` keeps the module's protocol fees; a module added back
  charges them at once.
* A deployment killed between the two `addIntegration`s (`000_core.ts:89-98`) is
  never completed by running the script again: the first one reverts from then on.
  `DeploymentCompletes` excepts exactly this gap.
* On every configured network with a single account `operator` is undefined and
  the script stops at `TradeModule`; on a local node that is not a fork it stops at
  `ExchangeIssuanceZeroEx`, for which no WETH is known. Only a forked local node
  gets through. `NothingInitializedInVain` says that nothing is initialized
  elsewhere. The closing message counts the cost in MATIC on all of them.
* `calculateLPTokensIssued` compares objects with `==` and quantities with `<`; its
  first-deposit branch is never taken, and its minimum is right for quantities
  with equally many digits.
* `getReservesSafe` decides by the strings of two checksummed addresses which asset
  is the pair's first; the pair sorts them as numbers. `B` comes before `a` in a
  string, so for addresses that first differ in letters of different case the
  reserves may come back swapped.
* `leverUp` ignores its `slippagePercentage`. `calculateMaxIssueQuantity` does not
  stop at zero: with the debt past the margin the available debt is negative, a
  slippage above the margin ratio subtracts a larger negative number from it, and
  the result is a positive number of Sets, none of which can be issued.
* `getAllowances` returns before anything is in its array; a test that loops over the
  result at once loops over nothing
  (`test/protocol/exchangeIssuanceZeroEx.spec.ts:309`).
* `initialize` of the Controller accepts a list that names an address twice;
  after its removal the address stays in the array. `addResource(address(0), id)` is
  accepted and leaves the identifier free for another resource.
* The types in the package of the latest tag carry gas limits, although its
  artifacts are compiled without them (`SKIP_ABI_GAS_MODS`).
* `deployModules.ts` names the parameters of `deployZeroExApiV2Adapter` after another
  contract's constructor; nothing calls it.

## 6. Not modelled, and what is left

Integers are unbounded: the contracts use `SafeMath` and revert on overflow of
256 bits, which no instance can reach. Events, view-only contracts, adapters'
call data, oracles' numeric sources and ERC20 tokens that charge fees on transfer
are left out; the last make the contracts' own transfer checks revert.

Of the contracts the following stay out: the lists of enabled assets of the
leverage modules (constants here), the settings and state changes of
`CustomOracleNAVIssuanceModule` (only its arithmetic is modelled), the edit and
remove operations of `IntegrationRegistry`, the maps of `PriceOracle`, and the wrap,
staking, claim, AMM, governance and Notional modules, whose edits of positions are
the operations of `SetTokenPositions` and `SetAccounting` with amounts that external
protocols decide. `SingleIndexModule` is the predecessor of `GeneralIndexModule`.

Of the TypeScript: the helpers that deploy mocks, vendored protocols, adapters,
viewers, products and oracles are single constructor calls, except the ones the
fixtures use; the fixtures of external protocols set up third-party code; time and
mining helpers, types and constants have no behaviour to check.

Proofs that are left, most important first: `DebtRecorded` for a mix of Aave
and Compound modules under the condition that no borrowed token has a default
position; the quotes through exchanges for arbitrary pools, where `BuysBack` must
allow for a base unit when a reserve is a multiple of 997; the length and
order of digits behind `LPQuoteIsMinimum`.

Adapters, viewers, oracles, `ExchangeIssuanceZeroEx`, `AMMSplitter` and the
PerpV2 modules' pricing stay out: they hold no state of the protocol's own, or
their behaviour is that of external protocols.
