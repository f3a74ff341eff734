---------------------------- MODULE DeployHelper ----------------------------
(***************************************************************************)
(* What utils/deploys/ knows about constructors.  A method of a deploy     *)
(* helper takes its arguments by name and hands them on by position, and   *)
(* nearly all of them are addresses, so that the compiler does not notice  *)
(* an exchange.  A helper is a function from the contracts it deploys to   *)
(* its parameters in the order in which it hands them on; the constructors *)
(* of the contracts are given beside it.  Modules that use a library are   *)
(* linked to the address that the method gets for it.  Parameters that are *)
(* no addresses (amounts, decimals, names) are left out.                   *)
(***************************************************************************)
EXTENDS Sequences

\* The function f, and g where f has no value.
Joined(f, g) ==
  [x \in DOMAIN f \cup DOMAIN g |-> IF x \in DOMAIN f THEN f[x] ELSE g[x]]

-----------------------------------------------------------------------------
(* The constructors of the contracts, by what they do with each parameter *)

ModuleConstructor == <<"controller">>
TradeModuleConstructor == <<"controller", "operator">>
PositionUnitAdjusterModuleConstructor == <<"controller", "operator">>
WrapModuleConstructor == <<"controller", "weth">>
WrapModuleV2Constructor == <<"controller", "weth">>
CustomOracleNavIssuanceModuleConstructor == <<"controller", "weth">>
GeneralIndexModuleConstructor == <<"controller", "weth">>
SingleIndexModuleConstructor == <<"controller", "weth", "uniswapRouter", "sushiswapRouter", "balancerProxy">>
CompoundLeverageModuleConstructor == <<"controller", "compToken", "comptroller", "cEther", "weth">>
AaveLeverageModuleConstructor == <<"controller", "lendingPoolAddressesProvider">>
NotionalTradeModuleConstructor == <<"controller", "wrappedfCashFactory", "weth">>
PerpV2LeverageModuleV2Constructor ==
  <<"controller", "perpVault", "perpQuoter", "perpMarketRegistry">>
PriceOracleConstructor ==
  <<"controller", "masterQuoteAsset", "adapters", "assetOnes", "assetTwos", "oracles">>
SetTokenConstructor == <<"components", "modules", "controller", "manager">>
ExchangeIssuanceZeroExConstructor == <<"weth", "controller", "swapTarget">>
ComptrollerMockConstructor == <<"comp", "cToken">>
StandardTokenMockConstructor == <<"initialAccount">>

ControllerOnly ==
  {"SetTokenCreator", "IntegrationRegistry", "SetValuer", "BasicIssuanceModule", "IssuanceModule",
   "DebtIssuanceModule", "DebtIssuanceModuleV2", "SlippageIssuanceModule", "AmmModule",
   "StreamingFeeModule", "AirdropModule", "ClaimModule", "StakingModule", "GovernanceModule"}

SpecialConstructors ==
  [Controller                    |-> <<"feeRecipient">>,
   PriceOracle                   |-> PriceOracleConstructor,
   TradeModule                   |-> TradeModuleConstructor,
   PositionUnitAdjusterModule    |-> PositionUnitAdjusterModuleConstructor,
   WrapModule                    |-> WrapModuleConstructor,
   WrapModuleV2                  |-> WrapModuleV2Constructor,
   CustomOracleNavIssuanceModule |-> CustomOracleNavIssuanceModuleConstructor,
   GeneralIndexModule            |-> GeneralIndexModuleConstructor,
   SingleIndexModule             |-> SingleIndexModuleConstructor,
   CompoundLeverageModule        |-> CompoundLeverageModuleConstructor,
   AaveLeverageModule            |-> AaveLeverageModuleConstructor,
   NotionalTradeModule           |-> NotionalTradeModuleConstructor,
   PerpV2LeverageModuleV2        |-> PerpV2LeverageModuleV2Constructor,
   PerpV2BasisTradingModule      |-> PerpV2LeverageModuleV2Constructor,
   StandardTokenMock             |-> StandardTokenMockConstructor,
   SetToken                      |-> SetTokenConstructor,
   ExchangeIssuanceZeroEx        |-> ExchangeIssuanceZeroExConstructor,
   ComptrollerMock               |-> ComptrollerMockConstructor,
   UniswapV2ExchangeAdapter      |-> <<"router">>,
   Operator                      |-> <<>>,
   ContractCallerMock            |-> <<>>,
   WETH9                         |-> <<>>,
   OracleMock                    |-> <<>>]

Constructors == Joined([contract \in ControllerOnly |-> ModuleConstructor], SpecialConstructors)

\* The libraries whose addresses the bytecode of a contract lacks.
LibrariesOf(contract) ==
  CASE contract = "CompoundLeverageModule" -> {"Compound"}
    [] contract = "AaveLeverageModule" -> {"AaveV2"}
    [] contract \in {"PerpV2LeverageModuleV2", "PerpV2BasisTradingModule"} ->
         {"PositionV2", "PerpV2LibraryV2", "PerpV2Positions"}
    [] OTHER -> {}

-----------------------------------------------------------------------------
(* The deploy helpers *)

DeployLibraries == {"Compound", "AaveV2", "PerpV2", "PositionV2", "PerpV2LibraryV2", "PerpV2Positions"}

DeployCoreContracts ==
  [Controller          |-> <<"feeRecipient">>,
   SetTokenCreator     |-> <<"controller">>,
   PriceOracle         |-> <<"controller", "masterQuoteAsset", "adapters", "assetOnes", "assetTwos", "oracles">>,
   IntegrationRegistry |-> <<"controller">>,
   SetValuer           |-> <<"controller">>,
   SetToken            |-> <<"components", "modules", "controller", "manager">>,
   Operator            |-> <<>>,
   ExchangeIssuanceZeroEx |-> <<"weth", "controller", "swapTarget">>]

\* deployBasicIssuanceModule .. deployGovernanceModule.
DeployPlainModules ==
  [BasicIssuanceModule           |-> <<"controller">>,
   IssuanceModule                |-> <<"controller">>,
   DebtIssuanceModule            |-> <<"controller">>,
   DebtIssuanceModuleV2          |-> <<"controller">>,
   SlippageIssuanceModule        |-> <<"controller">>,
   AmmModule                     |-> <<"controller">>,
   StreamingFeeModule            |-> <<"controller">>,
   AirdropModule                 |-> <<"controller">>,
   TradeModule                   |-> <<"controller", "operator">>,
   WrapModule                    |-> <<"controller", "weth">>,
   ClaimModule                   |-> <<"controller">>,
   StakingModule                 |-> <<"controller">>,
   CustomOracleNavIssuanceModule |-> <<"controller", "weth">>,
   SingleIndexModule             |-> <<"controller", "weth", "uniswapRouter", "sushiswapRouter", "balancerProxy">>,
   GeneralIndexModule            |-> <<"controller", "weth">>,
   GovernanceModule              |-> <<"controller">>]

FactoryBeforeController ==
  [CompoundLeverageModule     |-> <<"controller", "compToken", "comptroller", "cEther", "weth">>,
   AaveLeverageModule         |-> <<"controller", "lendingPoolAddressesProvider">>,
   NotionalTradeModule        |-> <<"wrappedfCashFactory", "controller", "weth">>,
   WrapModuleV2               |-> <<"controller", "weth">>,
   PerpV2LeverageModuleV2     |-> <<"controller", "perpVault", "perpQuoter", "perpMarketRegistry">>,
   PerpV2BasisTradingModule   |-> <<"controller", "perpVault", "perpQuoter", "perpMarketRegistry">>,
   PositionUnitAdjusterModule |-> <<"controller", "operator">>]

\* deployCompoundLeverageModule .. deployPositionUnitAdjusterModule.
DeployLinkedModules ==
  [CompoundLeverageModule     |-> <<"controller", "compToken", "comptroller", "cEther", "weth">>,
   AaveLeverageModule         |-> <<"controller", "lendingPoolAddressesProvider">>,
   NotionalTradeModule        |-> <<"controller", "wrappedfCashFactory", "weth">>,
   WrapModuleV2               |-> <<"controller", "weth">>,
   PerpV2LeverageModuleV2     |-> <<"controller", "perpVault", "perpQuoter", "perpMarketRegistry">>,
   PerpV2BasisTradingModule   |-> <<"controller", "perpVault", "perpQuoter", "perpMarketRegistry">>,
   PositionUnitAdjusterModule |-> <<"controller", "operator">>]

DeployModules == Joined(DeployPlainModules, DeployLinkedModules)

LinkTwoPerpLibraries(contract) ==
  CASE contract = "CompoundLeverageModule" -> {"Compound"}
    [] contract = "AaveLeverageModule" -> {"AaveV2"}
    [] contract \in {"PerpV2LeverageModuleV2", "PerpV2BasisTradingModule"} -> {"PositionV2", "PerpV2LibraryV2"}
    [] OTHER -> {}

\* The libraries a method takes a name and an address for, or deploys itself
\* (deploySetV2.ts), and hands to the factory.
LinksOf(contract) ==
  CASE contract = "CompoundLeverageModule" -> {"Compound"}
    [] contract = "AaveLeverageModule" -> {"AaveV2"}
    [] contract \in {"PerpV2LeverageModuleV2", "PerpV2BasisTradingModule"} ->
         {"PositionV2", "PerpV2LibraryV2", "PerpV2Positions"}
    [] OTHER -> {}

\* deploySetV2.ts: the core contracts and modules again, for SetFixture.
DeploySetV2 ==
  [Controller             |-> <<"feeRecipient">>,
   SetTokenCreator        |-> <<"controller">>,
   IntegrationRegistry    |-> <<"controller">>,
   BasicIssuanceModule    |-> <<"controller">>,
   DebtIssuanceModule     |-> <<"controller">>,
   StreamingFeeModule     |-> <<"controller">>,
   GovernanceModule       |-> <<"controller">>,
   AirdropModule          |-> <<"controller">>,
   SlippageIssuanceModule |-> <<"controller">>,
   SingleIndexModule      |-> <<"controller", "weth", "uniswapRouter", "sushiswapRouter", "balancerProxy">>,
   GeneralIndexModule     |-> <<"controller", "weth">>,
   WrapModule             |-> <<"controller", "weth">>,
   CompoundLeverageModule |-> <<"controller", "compToken", "comptroller", "cEther", "weth">>,
   StandardTokenMock      |-> <<"initialAccount">>,
   SetToken               |-> <<"components", "modules", "controller", "manager">>,
   ComptrollerMock        |-> <<"comp", "cToken">>,
   UniswapV2ExchangeAdapter |-> <<"router">>,
   ContractCallerMock     |-> <<>>,
   WETH9                  |-> <<>>]

DeployMocks ==
  [StandardTokenMock |-> <<"initialAccount">>,
   OracleMock        |-> <<>>]

DeployExternalContracts == [WETH9 |-> <<>>]

\* index.ts: one signer for all helpers, and a name for each.
Helpers ==
  [core |-> DeployCoreContracts, modules |-> DeployModules, setV2 |-> DeploySetV2,
   mocks |-> DeployMocks, external |-> DeployExternalContracts]
=============================================================================
