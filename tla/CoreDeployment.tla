--------------------------- MODULE CoreDeployment ---------------------------
(***************************************************************************)
(* The deployment of the core contracts (deploy/000_core.ts), run by an    *)
(* operator against a live network and run again whenever it stops.        *)
(*                                                                         *)
(* The script deploys through hardhat-deploy, which keeps a record of every*)
(* contract on disk, sends the transaction, waits for its receipt and then *)
(* writes the record.  The calls to initialize and addIntegration are only *)
(* sent: ethers first estimates their gas, which throws when the call would*)
(* revert in the state mined so far, and the script goes on without        *)
(* waiting.  All transactions come from one account and are mined in the   *)
(* order they were sent.  A process that stops loses its constants and     *)
(* leaves its transactions pending.                                        *)
(*                                                                         *)
(* An address is the number of the contract in the order of creation, and  *)
(* NoAddress an undefined constant or a missing record.  A transaction     *)
(* carries the addresses of the core contracts among its arguments (links).*)
(***************************************************************************)
EXTENDS Integers, Sequences

CONSTANTS MaxCrashes,   \* bound on the processes that are killed
          MaxPending    \* bound on the transactions pending when a run starts

ASSUME CrashAssumption == MaxCrashes \in Nat /\ MaxPending \in Nat

NoAddress == 0

Contracts == {"Controller", "SetTokenCreator", "IntegrationRegistry", "BasicIssuanceModule",
              "TradeModule", "ExchangeIssuanceZeroEx", "UniswapV2ExchangeAdapterV2",
              "UniswapV3ExchangeAdapterV2"}

Integrations == {"UNISWAPV2", "UNISWAPV3"}

\* The awaits of the script that touch the network, in their order.
InitializeBeforeExchange ==
  <<"Controller", "SetTokenCreator", "IntegrationRegistry", "BasicIssuanceModule",
    "TradeModule", "isInitialized", "initialize", "ExchangeIssuanceZeroEx",
    "UniswapV2ExchangeAdapterV2", "UniswapV3ExchangeAdapterV2", "UNISWAPV2", "UNISWAPV3">>

Script ==
  <<"Controller", "SetTokenCreator", "IntegrationRegistry", "BasicIssuanceModule",
    "TradeModule", "ExchangeIssuanceZeroEx", "isInitialized", "initialize",
    "UniswapV2ExchangeAdapterV2", "UniswapV3ExchangeAdapterV2", "UNISWAPV2", "UNISWAPV3">>

-----------------------------------------------------------------------------
(* The networks of hardhat.config.ts that keep their state between two runs *)
(* of the script: the chain id, 1 when FORK is set, and how many accounts   *)
(* are configured (a node of one's own has several).                        *)

networks ==
  [localhost       |-> [chainId |-> 31337, accounts |-> 2],
   forkedLocalhost |-> [chainId |-> 1, accounts |-> 2],
   goerli          |-> [chainId |-> 5, accounts |-> 1],
   polygonMumbai   |-> [chainId |-> 80001, accounts |-> 1],
   staging_mainnet |-> [chainId |-> 1, accounts |-> 1],
   production      |-> [chainId |-> 1, accounts |-> 1]]

\* operator is the account with index 1, undefined where there is only one.
operatorIsNamed(network) == networks[network].accounts > 1

\* The chain ids for which dependencies.ts has an address.
WETH == {1, 42}
ZERO_EX_EXCHANGE == {1}
UNISWAP_ROUTER == {1, 42}
UNISWAP_ROUTER_V3 == {1}

\* Whether all arguments of a step that are no core contracts are defined;
\* the encoding of an undefined one throws.
ArgumentsDefined(step, network) ==
  LET chainId == networks[network].chainId
  IN  /\ step = "TradeModule"                => operatorIsNamed(network)
      /\ step = "ExchangeIssuanceZeroEx"     => chainId \in WETH \cap ZERO_EX_EXCHANGE
      /\ step = "UniswapV2ExchangeAdapterV2" => chainId \in UNISWAP_ROUTER
      /\ step = "UniswapV3ExchangeAdapterV2" => chainId \in UNISWAP_ROUTER_V3

\* The steps that have a core contract among their arguments.
StepsTaking ==
  [Controller                 |-> {"SetTokenCreator", "IntegrationRegistry", "BasicIssuanceModule",
                                   "TradeModule", "ExchangeIssuanceZeroEx", "initialize"},
   SetTokenCreator            |-> {"initialize"},
   IntegrationRegistry        |-> {"initialize", "UNISWAPV2", "UNISWAPV3"},
   BasicIssuanceModule        |-> {"initialize"},
   TradeModule                |-> {"initialize", "UNISWAPV2", "UNISWAPV3"},
   UniswapV2ExchangeAdapterV2 |-> {"UNISWAPV2"},
   UniswapV3ExchangeAdapterV2 |-> {"UNISWAPV3"},
   ExchangeIssuanceZeroEx     |-> {}]

CoreArguments(step) == {contract \in Contracts : step \in StepsTaking[contract]}

-----------------------------------------------------------------------------

VARIABLES network,    \* where the script runs
          code,       \* the contracts on chain, in the order of their creation
          executed,   \* the calls that were mined and did not revert
          mempool,    \* the transactions sent and not mined
          records,    \* hardhat-deploy's files: contract -> address
          local,      \* the constants of the running script: contract -> address
          pc,         \* the next step of the script; 0 when no process runs
          waiting,    \* for the receipt of the deployment sent at pc
          inflight,   \* the deployment whose receipt a killed process awaited
          crashes,
          cutShort    \* whether a process was killed between the two integrations

deploymentVars == <<network, code, executed, mempool, records, local, pc, waiting, inflight, crashes, cutShort>>

onChain == <<code, executed>>
process == <<records, local, pc, waiting, inflight, crashes, cutShort>>

Nothing == [contract \in Contracts |-> NoAddress]

DeploymentInit ==
  /\ network \in DOMAIN networks
  /\ code = <<>> /\ executed = {} /\ mempool = <<>>
  /\ records = Nothing /\ local = Nothing
  /\ pc = 1 /\ waiting = FALSE /\ inflight = ""
  /\ crashes = 0 /\ cutShort = FALSE

Transaction(step) ==
  [name  |-> step,
   links |-> [contract \in Contracts |->
                IF contract \in CoreArguments(step) THEN local[contract] ELSE NoAddress]]

-----------------------------------------------------------------------------
(* The contracts the calls reach *)

isInitialized(controller) ==
  \E call \in executed : call.name = "initialize" /\ call.links["Controller"] = controller

\* Controller.isModule for a module that initialize added.
isModule(controller, module) ==
  \E call \in executed : /\ call.name = "initialize"
                         /\ call.links["Controller"] = controller
                         /\ module \in {call.links["BasicIssuanceModule"], call.links["TradeModule"]}

\* The requires of Controller.initialize and IntegrationRegistry.addIntegration.
Reverts(tx) ==
  LET registry == tx.links["IntegrationRegistry"]
      module   == tx.links["TradeModule"]
  IN  \/ tx.name = "initialize" /\ isInitialized(tx.links["Controller"])
      \/ /\ tx.name \in Integrations
         /\ \/ ~isModule(code[registry].links["Controller"], module)
            \/ \E call \in executed : /\ call.name = tx.name
                                      /\ call.links["IntegrationRegistry"] = registry
                                      /\ call.links["TradeModule"] = module

\* The network executes the oldest transaction; a call that reverts leaves
\* no trace, and nobody reads its receipt.
Mine ==
  /\ mempool # <<>>
  /\ LET tx == Head(mempool)
     IN  /\ code' = IF tx.name \in Contracts THEN Append(code, tx) ELSE code
         /\ executed' = IF tx.name \in Contracts \/ Reverts(tx)
                        THEN executed ELSE executed \cup {tx}
  /\ mempool' = Tail(mempool)
  /\ UNCHANGED <<network, process>>

-----------------------------------------------------------------------------
(* The script *)

\* The process ends.
Stop ==
  /\ pc' = 0
  /\ local' = Nothing
  /\ waiting' = FALSE

Running(step) == pc \in 1 .. Len(Script) /\ ~waiting /\ Script[pc] = step

\* An exception: an undefined argument or a gas estimation that fails.
ScriptThrows ==
  /\ Stop
  /\ UNCHANGED <<network, onChain, mempool, records, inflight, crashes, cutShort>>

\* deployAndLog of a contract without a record sends its transaction.
Send(contract) ==
  /\ mempool' = Append(mempool, Transaction(contract))
  /\ waiting' = TRUE
  /\ UNCHANGED <<network, onChain, records, local, pc, inflight, crashes, cutShort>>

\* skipIfAlreadyDeployed forgotten: every run deploys every contract anew.
DeployAnew(contract) ==
  /\ Running(contract)
  /\ IF ArgumentsDefined(contract, network) THEN Send(contract) ELSE ScriptThrows

deployAndLog(contract) ==
  /\ Running(contract)
  /\ \/ /\ records[contract] # NoAddress
        /\ local' = [local EXCEPT ![contract] = records[contract]]
        /\ pc' = pc + 1
        /\ UNCHANGED <<network, onChain, mempool, records, waiting, inflight, crashes, cutShort>>
     \/ /\ records[contract] = NoAddress /\ ArgumentsDefined(contract, network)
        /\ Send(contract)
     \/ /\ records[contract] = NoAddress /\ ~ArgumentsDefined(contract, network)
        /\ ScriptThrows

\* The deployment was the last transaction sent, so its contract is the
\* newest one when its receipt arrives; the record is written then.
Receipt ==
  /\ waiting /\ mempool = <<>>
  /\ records' = [records EXCEPT ![Script[pc]] = Len(code)]
  /\ local' = [local EXCEPT ![Script[pc]] = Len(code)]
  /\ pc' = pc + 1
  /\ waiting' = FALSE
  /\ UNCHANGED <<network, onChain, mempool, inflight, crashes, cutShort>>

\* The script that always calls initialize.
InitializeUnconditionally ==
  /\ Running("isInitialized")
  /\ pc' = pc + 1
  /\ UNCHANGED <<network, onChain, mempool, records, local, waiting, inflight, crashes, cutShort>>

\* initialize is skipped when the mined state says it is not needed.
ReadIsInitialized ==
  /\ Running("isInitialized")
  /\ pc' = IF isInitialized(local["Controller"]) THEN pc + 2 ELSE pc + 1
  /\ UNCHANGED <<network, onChain, mempool, records, local, waiting, inflight, crashes, cutShort>>

\* initialize and addIntegration: estimate, send, go on.
SendCall(call) ==
  /\ Running(call)
  /\ IF Reverts(Transaction(call))
     THEN ScriptThrows
     ELSE /\ mempool' = Append(mempool, Transaction(call))
          /\ pc' = pc + 1
          /\ UNCHANGED <<network, onChain, records, local, waiting, inflight, crashes, cutShort>>

-----------------------------------------------------------------------------
(* The process and its operator *)

\* A killed process: the files and the network keep what they have.
Crash ==
  /\ pc > 0 /\ crashes < MaxCrashes
  /\ crashes' = crashes + 1
  /\ inflight' = IF waiting THEN Script[pc] ELSE ""
  /\ cutShort' = (cutShort \/ Running("UNISWAPV3"))
  /\ Stop
  /\ UNCHANGED <<network, onChain, mempool, records>>

\* The script has run to its end.
Finish ==
  /\ pc = Len(Script) + 1
  /\ Stop
  /\ UNCHANGED <<network, onChain, mempool, records, inflight, crashes, cutShort>>

\* The operator starts the script again.  hardhat-deploy may find the
\* transaction of an interrupted deployment in its own log, wait for it and
\* write the record; without that log the contract stays an orphan.
Rerun ==
  /\ pc = 0 /\ Len(mempool) <= MaxPending
  /\ pc' = 1
  /\ inflight' = ""
  /\ \/ records' = records
     \/ /\ inflight # "" /\ mempool = <<>>
        /\ records' = [records EXCEPT ![inflight] = Len(code)]
  /\ UNCHANGED <<network, onChain, mempool, local, waiting, crashes, cutShort>>

ScriptStep ==
  \/ \E contract \in Contracts : deployAndLog(contract)
  \/ Receipt
  \/ ReadIsInitialized
  \/ \E call \in Integrations \cup {"initialize"} : SendCall(call)
  \/ Finish

DeploymentNext == ScriptStep \/ Mine \/ Crash \/ Rerun

DeploymentSpec == DeploymentInit /\ [][DeploymentNext]_deploymentVars

-----------------------------------------------------------------------------
(* Correctness *)

Addresses == Nat

Links == [Contracts -> Addresses]

Transactions ==
  [name : Contracts \cup Integrations \cup {"initialize"}, links : Links]

\* The types of the files, the process and the chain: the script never runs
\* past its last step, and only a deployment is waited for (000_core.ts).
DeploymentTypeOK ==
  /\ network \in DOMAIN networks
  /\ code \in Seq(Transactions) /\ mempool \in Seq(Transactions)
  /\ executed \subseteq Transactions
  /\ records \in Links /\ local \in Links
  /\ pc \in 0 .. Len(Script) + 1
  /\ waiting \in BOOLEAN /\ cutShort \in BOOLEAN
  /\ waiting => pc \in 1 .. Len(Script) /\ Script[pc] \in Contracts
  /\ inflight \in Contracts \cup {""}
  /\ crashes \in 0 .. MaxCrashes

\* Each contract on record was constructed with the Controller on record.
OneController ==
  \A contract \in Contracts :
    /\ records[contract] # NoAddress
    /\ "Controller" \in CoreArguments(contract)
    => /\ records[contract] \in DOMAIN code
       /\ code[records[contract]].name = contract
       /\ code[records[contract]].links["Controller"] = records["Controller"]

\* A Controller that is initialized is the one on record, with the factory,
\* modules and registry on record.
InitializedFromRecords ==
  \A call \in executed :
    call.name = "initialize" =>
      \A contract \in CoreArguments("initialize") : call.links[contract] = records[contract]

\* An integration points from the registry and the TradeModule on record to
\* the adapter on record, and the TradeModule is a module of the registry's
\* own Controller.
IntegrationsUsable ==
  \A call \in executed :
    call.name \in Integrations =>
      /\ \A contract \in CoreArguments(call.name) : call.links[contract] = records[contract]
      /\ isModule(code[records["IntegrationRegistry"]].links["Controller"], records["TradeModule"])

\* However often the script is killed and run again, the contracts it has on
\* record form one system, and what was initialized or registered belongs to
\* it (skipIfAlreadyDeployed, initialize, addIntegration).  Contracts left
\* without a record belong to no system.
OneSystem == OneController /\ InitializedFromRecords /\ IntegrationsUsable

Deployable == \A contract \in Contracts : ArgumentsDefined(contract, network)

\* A network for which a dependency or an account is missing is left with
\* contracts that were never initialized: no Controller starts to work with
\* adapters that cannot follow (the order of 000_core.ts, dependencies.ts).
NothingInitializedInVain == executed # {} => Deployable

Registered(name) ==
  \E call \in executed : /\ call.name = name
                         /\ call.links["IntegrationRegistry"] = records["IntegrationRegistry"]

=============================================================================
