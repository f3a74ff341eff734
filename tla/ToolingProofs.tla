---------------------------- MODULE ToolingProofs ----------------------------
(***************************************************************************)
(* The off-chain tools, each on its own, for any number of crashes, files, *)
(* blocks, suites, tests, tokens and spenders.                             *)
(*                                                                         *)
(* However often the deployment script is killed and run again, the        *)
(* contracts on record form one system, and nothing is initialized on a    *)
(* network where the script cannot end. The proof follows the newest       *)
(* transaction: it is the one a waiting, or a killed, process awaits, so   *)
(* the record that a receipt writes names the contract it was meant for.   *)
(* The fixtures are straight-line scripts: what their steps must satisfy   *)
(* is stated of the script itself, and the run of it only adds that what   *)
(* is behind the cursor has been deployed with the arguments it was given. *)
(* The other proofs are loop invariants: what the subtasks have done to    *)
(* the files behind the cursor, which blocks a test has seen, that the     *)
(* array of allowances grows by whole groups, and to which state of the    *)
(* chain each snapshot of the test harness leads.                          *)
(***************************************************************************)
EXTENDS CoreDeployment, FixtureBringUp, SnapshotHarness, GasArtifacts, AllowanceQueries,
        FiniteSetTheorems, SequenceTheorems, TLAPS

-----------------------------------------------------------------------------
(* The script *)

Calls == Integrations \cup {"initialize"}

LEMMA CoreArgumentsAreContracts ==
  ASSUME NEW step
  PROVE  CoreArguments(step) \subseteq Contracts
BY DEF CoreArguments, Contracts

LEMMA CallsAreNoContracts == Calls \cap Contracts = {}
BY DEF Calls, Integrations, Contracts

LEMMA ScriptLength == Len(Script) = 12 /\ DOMAIN Script = 1 .. 12
BY DEF Script

\* A step of the script comes after the deployments of its core arguments, a
\* call also after that of ExchangeIssuanceZeroEx.
LEMMA ArgumentsComeFirst ==
  ASSUME NEW i \in 1 .. 12
  PROVE  /\ \A c \in CoreArguments(Script[i]) : \E j \in 1 .. i - 1 : Script[j] = c
         /\ Script[i] \in Calls => i > 6 /\ Script[6] = "ExchangeIssuanceZeroEx"
PROOF
<1>1. CASE i = 1 BY <1>1 DEF Script, CoreArguments, StepsTaking, Contracts, Calls, Integrations
<1>2. CASE i = 2 BY <1>2 DEF Script, CoreArguments, StepsTaking, Contracts, Calls, Integrations
<1>3. CASE i = 3 BY <1>3 DEF Script, CoreArguments, StepsTaking, Contracts, Calls, Integrations
<1>4. CASE i = 4 BY <1>4 DEF Script, CoreArguments, StepsTaking, Contracts, Calls, Integrations
<1>5. CASE i = 5 BY <1>5 DEF Script, CoreArguments, StepsTaking, Contracts, Calls, Integrations
<1>6. CASE i = 6 BY <1>6 DEF Script, CoreArguments, StepsTaking, Contracts, Calls, Integrations
<1>7. CASE i = 7 BY <1>7 DEF Script, CoreArguments, StepsTaking, Contracts, Calls, Integrations
<1>8. CASE i = 8 BY <1>8 DEF Script, CoreArguments, StepsTaking, Contracts, Calls, Integrations
<1>9. CASE i = 9 BY <1>9 DEF Script, CoreArguments, StepsTaking, Contracts, Calls, Integrations
<1>10. CASE i = 10 BY <1>10 DEF Script, CoreArguments, StepsTaking, Contracts, Calls, Integrations
<1>11. CASE i = 11 BY <1>11 DEF Script, CoreArguments, StepsTaking, Contracts, Calls, Integrations
<1>12. CASE i = 12 BY <1>12 DEF Script, CoreArguments, StepsTaking, Contracts, Calls, Integrations
<1> QED BY <1>1, <1>2, <1>3, <1>4, <1>5, <1>6, <1>7, <1>8, <1>9, <1>10, <1>11, <1>12

\* Where the steps up to ExchangeIssuanceZeroEx have their arguments, all have.
LEMMA ArgumentsDefinedSuffice ==
  ASSUME ArgumentsDefined("TradeModule", network),
         ArgumentsDefined("ExchangeIssuanceZeroEx", network)
  PROVE  Deployable
BY DEF ArgumentsDefined, Deployable, Contracts, WETH, ZERO_EX_EXCHANGE, UNISWAP_ROUTER, UNISWAP_ROUTER_V3

-----------------------------------------------------------------------------
(* The inductive invariant *)

\* All core arguments of a transaction are the contracts on record.
LinkedTo(tx, rec) ==
  \A c \in CoreArguments(tx.name) : tx.links[c] = rec[c] /\ rec[c] # NoAddress

\* A record names a contract of its kind, linked to the other records.
RecordsInv ==
  \A c \in Contracts :
    records[c] # NoAddress =>
      /\ records[c] \in 1 .. Len(code)
      /\ code[records[c]].name = c
      /\ LinkedTo(code[records[c]], records)
      /\ ArgumentsDefined(c, network)

\* The running script knows what it has passed, from the records.
LocalInv ==
  /\ \A c \in Contracts : local[c] \in {NoAddress, records[c]}
  /\ \A i \in 1 .. 12 : i < pc /\ Script[i] \in Contracts => local[Script[i]] # NoAddress

\* A call that was sent speaks of the records.
CallLinked(tx, rec) ==
  tx.name \in Calls => LinkedTo(tx, rec) /\ rec["ExchangeIssuanceZeroEx"] # NoAddress

CallsInv ==
  /\ \A i \in 1 .. Len(mempool) : CallLinked(mempool[i], records)
  /\ \A tx \in executed : tx.name \in Calls /\ CallLinked(tx, records)

\* The contract whose receipt is awaited, by a process that runs or ran.
Awaited(c) == (waiting /\ Script[pc] = c) \/ inflight = c

Newest(pool, contracts) ==
  IF pool = <<>> THEN contracts[Len(contracts)] ELSE pool[Len(pool)]

AwaitedInv ==
  /\ pc > 0 => inflight = ""
  /\ \A c \in Contracts :
       Awaited(c) =>
         /\ records[c] = NoAddress
         /\ mempool # <<>> \/ code # <<>>
         /\ Newest(mempool, code).name = c
         /\ LinkedTo(Newest(mempool, code), records)
         /\ ArgumentsDefined(c, network)

\* The part of DeploymentTypeOK that the proof uses.
TypeInv ==
  /\ code \in Seq(Transactions) /\ mempool \in Seq(Transactions)
  /\ executed \subseteq Transactions
  /\ records \in Links /\ local \in Links
  /\ pc \in 0 .. 13
  /\ waiting \in BOOLEAN
  /\ waiting => pc \in 1 .. 12 /\ Script[pc] \in Contracts
  /\ inflight \in Contracts \cup {""}

DeploymentInv ==
  /\ TypeInv
  /\ RecordsInv
  /\ LocalInv
  /\ CallsInv
  /\ AwaitedInv
  /\ IntegrationsUsable

-----------------------------------------------------------------------------
(* Facts about transactions and records *)

LEMMA TransactionType ==
  ASSUME local \in Links, NEW step \in Contracts \cup Calls
  PROVE  /\ Transaction(step) \in Transactions
         /\ Transaction(step).name = step
         /\ \A c \in CoreArguments(step) : Transaction(step).links[c] = local[c]
BY CoreArgumentsAreContracts DEF Transaction, Transactions, Links, Addresses, NoAddress, Calls

\* The transaction of the step the script is at is linked to the records.
LEMMA TransactionLinked ==
  ASSUME TypeInv, LocalInv, NEW step \in Contracts \cup Calls, Running(step)
  PROVE  LinkedTo(Transaction(step), records) /\ CallLinked(Transaction(step), records)
PROOF
<1>1. pc \in 1 .. 12 /\ Script[pc] = step
  BY ScriptLength DEF Running
<1>2. ASSUME NEW c \in CoreArguments(step)
      PROVE  local[c] = records[c] /\ records[c] # NoAddress
  <2>1. PICK j \in 1 .. pc - 1 : Script[j] = c
    BY <1>1, ArgumentsComeFirst
  <2>2. c \in Contracts /\ j \in 1 .. 12 /\ j < pc
    BY <1>1, <2>1, CoreArgumentsAreContracts
  <2>3. local[c] # NoAddress /\ local[c] \in {NoAddress, records[c]}
    BY <2>1, <2>2 DEF LocalInv
  <2> QED BY <2>3
<1>3. LinkedTo(Transaction(step), records)
  BY <1>2, TransactionType DEF LinkedTo, TypeInv
<1>4. step \in Calls => records["ExchangeIssuanceZeroEx"] # NoAddress
  <2> SUFFICES ASSUME step \in Calls PROVE records["ExchangeIssuanceZeroEx"] # NoAddress
    OBVIOUS
  <2>1. pc > 6 /\ Script[6] = "ExchangeIssuanceZeroEx"
    BY <1>1, ArgumentsComeFirst
  <2>2. "ExchangeIssuanceZeroEx" \in Contracts
    BY DEF Contracts
  <2>3. local["ExchangeIssuanceZeroEx"] # NoAddress
    BY <2>1, <2>2, <1>1 DEF LocalInv
  <2> QED BY <2>2, <2>3 DEF LocalInv
<1>5. Transaction(step).name = step
  BY TransactionType DEF TypeInv
<1> QED BY <1>3, <1>4, <1>5 DEF CallLinked

\* A record that is written never disturbs a link to another one.
LEMMA NewRecordKeepsLinks ==
  ASSUME NEW rec \in Links, NEW c \in Contracts, rec[c] = NoAddress, NEW address \in Nat,
         address # NoAddress, NEW tx
  PROVE  /\ LinkedTo(tx, rec) => LinkedTo(tx, [rec EXCEPT ![c] = address])
         /\ CallLinked(tx, rec) => CallLinked(tx, [rec EXCEPT ![c] = address])
PROOF
<1> DEFINE new == [rec EXCEPT ![c] = address]
<1>1. \A d \in Contracts : rec[d] # NoAddress => new[d] = rec[d] /\ new[d] # NoAddress
  BY DEF Links, Addresses
<1>2. "ExchangeIssuanceZeroEx" \in Contracts
  BY DEF Contracts
<1>3. LinkedTo(tx, rec) => LinkedTo(tx, new)
  BY <1>1, CoreArgumentsAreContracts DEF LinkedTo
<1> HIDE DEF new
<1> QED BY <1>1, <1>2, <1>3 DEF CallLinked, new

LEMMA InitInv == DeploymentInit => DeploymentInv
PROOF
<1> SUFFICES ASSUME DeploymentInit PROVE DeploymentInv
  OBVIOUS
<1>a. code = <<>> /\ mempool = <<>> /\ executed = {}
  BY DEF DeploymentInit
<1>b. records = Nothing /\ local = Nothing
  BY DEF DeploymentInit
<1>c. pc = 1
  BY DEF DeploymentInit
<1>e. inflight = ""
  BY DEF DeploymentInit
<1>d. waiting = FALSE
  BY DEF DeploymentInit
<1>1. TypeInv
  <2>1. code \in Seq(Transactions) /\ mempool \in Seq(Transactions) /\ executed \subseteq Transactions
    BY <1>a
  <2>2. records \in Links /\ local \in Links
    BY <1>b DEF Nothing, Links, Addresses, NoAddress
  <2>3. pc \in 0 .. 13
    BY <1>c
  <2> QED BY <1>d, <1>e, <2>1, <2>2, <2>3, Zenon DEF TypeInv
<1>2. RecordsInv /\ LocalInv
  <2>1. \A c \in Contracts : records[c] = NoAddress /\ local[c] = NoAddress
    BY <1>b DEF Nothing
  <2>2. RecordsInv
    BY <2>1 DEF RecordsInv
  <2>3. LocalInv
    <3>1. \A i \in 1 .. 12 : ~(i < pc)
      BY <1>c
    <3> QED BY <2>1, <3>1 DEF LocalInv
  <2> QED BY <2>2, <2>3
<1>3. CallsInv /\ IntegrationsUsable
  <2>1. 1 .. Len(mempool) = {}
    BY <1>a
  <2> QED BY <1>a, <2>1, Zenon DEF CallsInv, IntegrationsUsable
<1>4. AwaitedInv
  <2>1. \A c \in Contracts : c # ""
    BY DEF Contracts
  <2> QED BY <1>d, <1>e, <2>1, Zenon DEF AwaitedInv, Awaited
<1> QED BY <1>1, <1>2, <1>3, <1>4 DEF DeploymentInv

-----------------------------------------------------------------------------
(* The network *)

\* isModule of the calls that were executed.
AddedBy(calls, controller, module) ==
  \E call \in calls : /\ call.name = "initialize"
                      /\ call.links["Controller"] = controller
                      /\ module \in {call.links["BasicIssuanceModule"], call.links["TradeModule"]}

LEMMA IntegrationNames ==
  ASSUME NEW name \in Integrations
  PROVE  /\ name \in Calls
         /\ {"IntegrationRegistry", "TradeModule"} \subseteq CoreArguments(name)
BY DEF Integrations, Calls, CoreArguments, Contracts, StepsTaking

\* A contract that exists keeps its address; later ones come behind it.
LEMMA RecordsKept ==
  ASSUME TypeInv, RecordsInv, NEW newCode, NEW c \in Contracts, records[c] # NoAddress,
         newCode = code \/ \E tx \in Transactions : newCode = Append(code, tx)
  PROVE  /\ records[c] \in 1 .. Len(newCode)
         /\ newCode[records[c]] = code[records[c]]
PROOF
<1>1. code \in Seq(Transactions) /\ records[c] \in 1 .. Len(code)
  BY DEF TypeInv, RecordsInv
<1>2. CASE newCode = code
  BY <1>1, <1>2
<1>3. CASE \E tx \in Transactions : newCode = Append(code, tx)
  <2>1. PICK tx \in Transactions : newCode = Append(code, tx)
    BY <1>3
  <2> QED BY <1>1, <2>1
<1> QED BY <1>2, <1>3

LEMMA MineInv ==
  ASSUME DeploymentInv, Mine
  PROVE  DeploymentInv'
PROOF
<1> DEFINE tx == Head(mempool)
<1>a. mempool # <<>> /\ mempool' = Tail(mempool)
  BY DEF Mine
<1>b. code' = IF tx.name \in Contracts THEN Append(code, tx) ELSE code
  BY DEF Mine
<1>c. executed' = IF tx.name \in Contracts \/ Reverts(tx) THEN executed ELSE executed \cup {tx}
  BY DEF Mine
<1>d. UNCHANGED <<network, records, local, pc, waiting, inflight>>
  BY DEF Mine, process
<1>t. TypeInv /\ RecordsInv /\ LocalInv /\ CallsInv /\ AwaitedInv /\ IntegrationsUsable
  BY DEF DeploymentInv
<1>1. /\ Len(mempool) \in Nat /\ Len(mempool) > 0
      /\ tx \in Transactions /\ tx = mempool[1]
      /\ Len(mempool') = Len(mempool) - 1
      /\ \A i \in 1 .. Len(mempool') : mempool'[i] = mempool[i + 1]
      /\ mempool' \in Seq(Transactions)
  <2>1. mempool \in Seq(Transactions)
    BY <1>t DEF TypeInv
  <2> QED BY <1>a, <2>1
<1>2. tx.name \in Contracts \cup Calls
  <2>1. \A t \in Transactions : t.name \in Contracts \cup Calls
    BY DEF Transactions, Calls
  <2> QED BY <1>1, <2>1
<1>3. CallLinked(tx, records)
  <2>1. 1 \in 1 .. Len(mempool)
    BY <1>1
  <2>2. CallLinked(mempool[1], records)
    BY <2>1, <1>t DEF CallsInv
  <2> QED BY <1>1, <2>2
<1> HIDE DEF tx
<1>4. code' = code \/ \E t \in Transactions : code' = Append(code, t)
  BY <1>b, <1>1
<1>5. \A c \in Contracts : records[c] # NoAddress =>
        records[c] \in 1 .. Len(code') /\ code'[records[c]] = code[records[c]]
  BY <1>4, <1>t, RecordsKept
<1>6. TypeInv'
  <2>1. code \in Seq(Transactions) /\ executed \subseteq Transactions
    BY <1>t DEF TypeInv
  <2>2. code' \in Seq(Transactions)
    BY <1>b, <1>1, <2>1
  <2>3. executed' \subseteq Transactions
    BY <1>c, <1>1, <2>1
  <2> QED BY <1>d, <1>t, <1>1, <2>2, <2>3 DEF TypeInv
<1>7. RecordsInv'
  BY <1>5, <1>d, <1>t DEF RecordsInv
<1>8. LocalInv'
  BY <1>d, <1>t DEF LocalInv
<1>9. CallsInv'
  <2>1. ASSUME NEW i \in 1 .. Len(mempool')
        PROVE  CallLinked(mempool'[i], records)
    <3>1. i + 1 \in 1 .. Len(mempool) /\ mempool'[i] = mempool[i + 1]
      BY <1>1
    <3> QED BY <3>1, <1>t DEF CallsInv
  <2>2. ASSUME NEW call \in executed'
        PROVE  call.name \in Calls /\ CallLinked(call, records)
    <3>1. CASE call \in executed
      BY <3>1, <1>t DEF CallsInv
    <3>2. CASE call \notin executed
      <4>1. call = tx /\ tx.name \notin Contracts
        BY <3>2, <1>c
      <4> QED BY <4>1, <1>2, <1>3
    <3> QED BY <3>1, <3>2
  <2>3. records' = records
    BY <1>d
  <2> QED BY <2>1, <2>2, <2>3 DEF CallsInv
<1>10. AwaitedInv'
  <2>1. ASSUME NEW c \in Contracts, Awaited(c)
        PROVE  /\ mempool' # <<>> \/ code' # <<>>
               /\ Newest(mempool', code') = Newest(mempool, code)
    <3>1. mempool \in Seq(Transactions) /\ code \in Seq(Transactions)
      BY <1>t DEF TypeInv
    <3>2. Newest(mempool, code) = mempool[Len(mempool)]
      BY <1>a DEF Newest
    <3>3. mempool[Len(mempool)].name = c
      BY <2>1, <3>2, <1>t DEF AwaitedInv
    <3>4. CASE Len(mempool) = 1
      <4>1. mempool' = <<>>
        BY <1>1, <3>4
      <4>2. code' = Append(code, tx) /\ tx = mempool[Len(mempool)]
        BY <1>1, <1>b, <3>3, <3>4
      <4>3. code' # <<>> /\ code'[Len(code')] = tx
        BY <4>2, <3>1, <1>1
      <4> QED BY <4>1, <4>2, <4>3, <3>2 DEF Newest
    <3>5. CASE Len(mempool) > 1
      <4>1. mempool' # <<>>
        BY <1>1, <3>5
      <4>2. mempool'[Len(mempool')] = mempool[Len(mempool)]
        BY <1>1, <3>5
      <4> QED BY <4>1, <4>2, <3>2 DEF Newest
    <3> QED BY <3>4, <3>5, <1>1
  <2>2. \A c \in Contracts : Awaited(c)' = Awaited(c)
    BY <1>d DEF Awaited
  <2> QED BY <2>1, <2>2, <1>d, <1>t DEF AwaitedInv
<1>11. IntegrationsUsable'
  <2>1. records' = records
    BY <1>d
  <2>2. executed \subseteq executed'
    BY <1>c
  <2>3. \A a, b : AddedBy(executed, a, b) => AddedBy(executed', a, b)
    BY <2>2 DEF AddedBy
  <2> SUFFICES ASSUME NEW call \in executed', call.name \in Integrations
               PROVE  /\ \A c \in CoreArguments(call.name) : call.links[c] = records[c]
                      /\ AddedBy(executed', code'[records["IntegrationRegistry"]].links["Controller"],
                                 records["TradeModule"])
    BY <2>1 DEF IntegrationsUsable, isModule, AddedBy
  <2>4. LinkedTo(call, records)
    BY <1>9, <2>1, IntegrationNames DEF CallsInv, CallLinked
  <2>5. \A c \in CoreArguments(call.name) : call.links[c] = records[c] /\ records[c] # NoAddress
    BY <2>4 DEF LinkedTo
  <2>6. {"IntegrationRegistry", "TradeModule"} \subseteq CoreArguments(call.name)
    BY IntegrationNames
  <2>7. code'[records["IntegrationRegistry"]] = code[records["IntegrationRegistry"]]
    BY <2>5, <2>6, <1>5, CoreArgumentsAreContracts
  <2>8. AddedBy(executed, code[records["IntegrationRegistry"]].links["Controller"],
                records["TradeModule"])
    <3>1. CASE call \in executed
      BY <3>1, <1>t DEF IntegrationsUsable, isModule, AddedBy
    <3>2. CASE call \notin executed
      <4>1. call = tx /\ ~Reverts(tx)
        BY <3>2, <1>c
      <4> QED BY <4>1, <2>5, <2>6 DEF Reverts, isModule, AddedBy
    <3> QED BY <3>1, <3>2
  <2> QED BY <2>3, <2>5, <2>7, <2>8
<1> QED BY <1>6, <1>7, <1>8, <1>9, <1>10, <1>11 DEF DeploymentInv

-----------------------------------------------------------------------------
(* What the steps of the process do to the network and the records *)

\* Steps that leave both alone.
LEMMA QuietInv ==
  ASSUME DeploymentInv, UNCHANGED <<network, code, executed, mempool, records>>
  PROVE  RecordsInv' /\ CallsInv' /\ IntegrationsUsable'
PROOF
<1>1. RecordsInv'
  BY DEF DeploymentInv, RecordsInv
<1>2. CallsInv'
  BY DEF DeploymentInv, CallsInv
<1>3. IntegrationsUsable'
  BY DEF DeploymentInv, IntegrationsUsable, isModule
<1> QED BY <1>1, <1>2, <1>3

\* Steps that send a transaction.
LEMMA SentInv ==
  ASSUME DeploymentInv, NEW tx \in Transactions, CallLinked(tx, records),
         mempool' = Append(mempool, tx), UNCHANGED <<network, code, executed, records>>
  PROVE  /\ RecordsInv' /\ CallsInv' /\ IntegrationsUsable'
         /\ mempool' \in Seq(Transactions) /\ mempool' # <<>>
         /\ Newest(mempool', code') = tx
PROOF
<1>1. mempool \in Seq(Transactions)
  BY DEF DeploymentInv, TypeInv
<1>2. /\ mempool' \in Seq(Transactions) /\ mempool' # <<>>
      /\ mempool'[Len(mempool')] = tx
  BY <1>1
<1>3. \A i \in 1 .. Len(mempool') : mempool'[i] = tx \/ (i \in 1 .. Len(mempool) /\ mempool'[i] = mempool[i])
  BY <1>1
<1>4. RecordsInv'
  BY DEF DeploymentInv, RecordsInv
<1>5. CallsInv'
  BY <1>3 DEF DeploymentInv, CallsInv
<1>6. IntegrationsUsable'
  BY DEF DeploymentInv, IntegrationsUsable, isModule
<1> QED BY <1>2, <1>4, <1>5, <1>6 DEF Newest

\* Steps that write the record of the awaited contract.
LEMMA RecordedInv ==
  ASSUME DeploymentInv, NEW c \in Contracts, Awaited(c), mempool = <<>>,
         records' = [records EXCEPT ![c] = Len(code)],
         UNCHANGED <<network, code, executed, mempool>>
  PROVE  /\ RecordsInv' /\ CallsInv' /\ IntegrationsUsable'
         /\ records' \in Links
         /\ \A d \in Contracts : records[d] # NoAddress => records'[d] = records[d]
         /\ records'[c] = Len(code) /\ Len(code) \in Nat /\ Len(code) # NoAddress
PROOF
<1>t. TypeInv /\ RecordsInv /\ CallsInv /\ AwaitedInv /\ IntegrationsUsable
  BY DEF DeploymentInv
<1>1. /\ records[c] = NoAddress /\ code # <<>>
      /\ code[Len(code)].name = c /\ LinkedTo(code[Len(code)], records)
      /\ ArgumentsDefined(c, network)
  BY <1>t DEF AwaitedInv, Newest
<1>2. records \in Links /\ code \in Seq(Transactions)
  BY <1>t DEF TypeInv
<1>3. Len(code) \in Nat /\ Len(code) # NoAddress /\ Len(code) \in 1 .. Len(code)
  BY <1>1, <1>2 DEF NoAddress
<1>4. /\ records' \in Links /\ records'[c] = Len(code)
      /\ \A d \in Contracts : d # c => records'[d] = records[d]
  BY <1>2, <1>3 DEF Links, Addresses
<1>5. \A d \in Contracts : records[d] # NoAddress => records'[d] = records[d]
  BY <1>1, <1>4
<1>6. \A tx : /\ LinkedTo(tx, records) => LinkedTo(tx, records')
              /\ CallLinked(tx, records) => CallLinked(tx, records')
  BY <1>1, <1>2, <1>3, NewRecordKeepsLinks
<1>7. RecordsInv'
  <2> SUFFICES ASSUME NEW d \in Contracts, records'[d] # NoAddress
               PROVE  /\ records'[d] \in 1 .. Len(code)
                      /\ code[records'[d]].name = d
                      /\ LinkedTo(code[records'[d]], records')
                      /\ ArgumentsDefined(d, network)
    BY DEF RecordsInv
  <2>1. CASE d = c
    BY <2>1, <1>1, <1>3, <1>4, <1>6
  <2>2. CASE d # c
    <3>1. records'[d] = records[d]
      BY <2>2, <1>4
    <3> QED BY <3>1, <1>t, <1>6 DEF RecordsInv
  <2> QED BY <2>1, <2>2
<1>8. CallsInv'
  BY <1>t, <1>6 DEF CallsInv
<1>9. IntegrationsUsable'
  <2> SUFFICES ASSUME NEW call \in executed, call.name \in Integrations
               PROVE  /\ \A d \in CoreArguments(call.name) : call.links[d] = records'[d]
                      /\ AddedBy(executed, code[records'["IntegrationRegistry"]].links["Controller"],
                                 records'["TradeModule"])
    BY DEF IntegrationsUsable, isModule, AddedBy
  <2>1. \A d \in CoreArguments(call.name) : call.links[d] = records[d] /\ records[d] # NoAddress
    BY <1>t, IntegrationNames DEF CallsInv, CallLinked, LinkedTo
  <2>2. \A d \in CoreArguments(call.name) : records'[d] = records[d]
    BY <2>1, <1>5, CoreArgumentsAreContracts
  <2>3. {"IntegrationRegistry", "TradeModule"} \subseteq CoreArguments(call.name)
    BY IntegrationNames
  <2>4. AddedBy(executed, code[records["IntegrationRegistry"]].links["Controller"],
                records["TradeModule"])
    BY <1>t DEF IntegrationsUsable, isModule, AddedBy
  <2> QED BY <2>1, <2>2, <2>3, <2>4
<1> QED BY <1>3, <1>4, <1>5, <1>7, <1>8, <1>9

-----------------------------------------------------------------------------
(* The process and its operator *)

LEMMA NoStep == 0 \in 0 .. 13 /\ ~(0 > 0) /\ \A i \in 1 .. 12 : ~(i < 0)
OBVIOUS

\* A process that ends leaves no constants behind.
LEMMA StopInv ==
  ASSUME DeploymentInv, Stop, UNCHANGED <<network, code, executed, mempool, records>>,
         inflight' \in Contracts \cup {""},
         \A c \in Contracts : inflight' = c => Awaited(c)
  PROVE  DeploymentInv'
PROOF
<1>t. TypeInv /\ AwaitedInv
  BY DEF DeploymentInv
<1>a. local' = Nothing
  BY DEF Stop
<1>b. pc' = 0
  BY DEF Stop
<1>c. waiting' = FALSE
  BY DEF Stop
<1>1. RecordsInv' /\ CallsInv' /\ IntegrationsUsable'
  BY QuietInv
<1>2. TypeInv'
  <2>1. local' \in Links
    BY <1>a DEF Nothing, Links, Addresses, NoAddress
  <2>2. pc' \in 0 .. 13
    BY <1>b, NoStep, Zenon
  <2> QED BY <1>c, <1>t, <2>1, <2>2, Zenon DEF TypeInv
<1>3. LocalInv'
  <2>1. \A c \in Contracts : local'[c] = NoAddress
    BY <1>a DEF Nothing
  <2>2. \A i \in 1 .. 12 : ~(i < pc')
    BY <1>b, NoStep, Zenon
  <2> QED BY <2>1, <2>2 DEF LocalInv
<1>4. AwaitedInv'
  <2>1. \A c \in Contracts : Awaited(c)' => Awaited(c)
    BY <1>c, Zenon DEF Awaited
  <2>2. ~(pc' > 0)
    BY <1>b, NoStep, Zenon
  <2> QED BY <1>t, <2>1, <2>2 DEF AwaitedInv
<1> QED BY <1>1, <1>2, <1>3, <1>4 DEF DeploymentInv

LEMMA ThrowInv ==
  ASSUME DeploymentInv, ScriptThrows
  PROVE  DeploymentInv'
PROOF
<1>1. Stop /\ UNCHANGED <<network, code, executed, mempool, records>> /\ inflight' = inflight
  BY DEF ScriptThrows, onChain
<1>2. inflight' \in Contracts \cup {""}
  BY <1>1 DEF DeploymentInv, TypeInv
<1>3. \A c \in Contracts : inflight' = c => Awaited(c)
  BY <1>1 DEF Awaited
<1> QED BY <1>1, <1>2, <1>3, StopInv

LEMMA FinishInv ==
  ASSUME DeploymentInv, Finish
  PROVE  DeploymentInv'
PROOF
<1>1. Stop /\ UNCHANGED <<network, code, executed, mempool, records>> /\ inflight' = inflight
  BY DEF Finish, onChain
<1>2. inflight' \in Contracts \cup {""}
  BY <1>1 DEF DeploymentInv, TypeInv
<1>3. \A c \in Contracts : inflight' = c => Awaited(c)
  BY <1>1 DEF Awaited
<1> QED BY <1>1, <1>2, <1>3, StopInv

LEMMA CrashInv ==
  ASSUME DeploymentInv, Crash
  PROVE  DeploymentInv'
PROOF
<1>1. Stop /\ UNCHANGED <<network, code, executed, mempool, records>>
  BY DEF Crash, onChain
<1>2. inflight' = IF waiting THEN Script[pc] ELSE ""
  BY DEF Crash
<1>3. waiting => Script[pc] \in Contracts
  BY DEF DeploymentInv, TypeInv
<1>4. inflight' \in Contracts \cup {""}
  BY <1>2, <1>3, Zenon
<1>5. \A c \in Contracts : c # ""
  BY DEF Contracts
<1>6. \A c \in Contracts : inflight' = c => Awaited(c)
  BY <1>2, <1>5, Zenon DEF Awaited
<1> QED BY <1>1, <1>4, <1>6, StopInv

\* Steps that go on without waiting.
LEMMA AdvanceInv ==
  ASSUME DeploymentInv, pc > 0, waiting' = FALSE, inflight' = inflight, pc' \in 1 .. 13
  PROVE  /\ pc' > 0 => inflight' = ""
         /\ \A c \in Contracts : ~Awaited(c)'
PROOF
<1>1. inflight = ""
  BY DEF DeploymentInv, AwaitedInv
<1>2. \A c \in Contracts : c # ""
  BY DEF Contracts
<1> QED BY <1>1, <1>2, Zenon DEF Awaited

LEMMA RunningSteps ==
  ASSUME TypeInv, NEW step, Running(step)
  PROVE  /\ pc \in 1 .. 12 /\ Script[pc] = step /\ pc > 0 /\ pc + 1 \in 1 .. 13
         /\ waiting = FALSE
         /\ step = "isInitialized" => pc + 2 \in 1 .. 13 /\ Script[pc + 1] \notin Contracts
PROOF
<1>1. pc \in 1 .. 12 /\ Script[pc] = step
  BY ScriptLength DEF Running
<1>2. waiting = FALSE
  BY Zenon DEF Running, TypeInv
<1>3. ASSUME step = "isInitialized"
      PROVE  pc = 7
  BY <1>1, <1>3 DEF Script
<1>4. step = "isInitialized" => pc + 2 \in 1 .. 13 /\ Script[pc + 1] \notin Contracts
  BY <1>3 DEF Script, Contracts
<1>5. pc > 0 /\ pc + 1 \in 1 .. 13
  BY <1>1
<1> QED BY <1>1, <1>2, <1>4, <1>5

LEMMA ReadIsInitializedInv ==
  ASSUME DeploymentInv, ReadIsInitialized
  PROVE  DeploymentInv'
PROOF
<1>t. TypeInv /\ LocalInv
  BY DEF DeploymentInv
<1>a. UNCHANGED <<network, code, executed, mempool, records, local>> /\ inflight' = inflight
  BY DEF ReadIsInitialized, onChain
<1>b. waiting' = waiting
  BY DEF ReadIsInitialized
<1>c. pc' \in {pc + 1, pc + 2}
  BY DEF ReadIsInitialized
<1>d. Running("isInitialized")
  BY DEF ReadIsInitialized
<1>1. /\ pc \in 1 .. 12 /\ Script[pc] = "isInitialized" /\ pc > 0
      /\ pc + 1 \in 1 .. 13 /\ pc + 2 \in 1 .. 13 /\ Script[pc + 1] \notin Contracts
  BY <1>t, <1>d, RunningSteps
<1>2. waiting = FALSE
  BY <1>t, <1>d, RunningSteps
<1>3. waiting' = FALSE
  BY <1>b, <1>2
<1>4. pc' \in 1 .. 13
  BY <1>c, <1>1
<1>5. RecordsInv' /\ CallsInv' /\ IntegrationsUsable'
  BY <1>a, QuietInv
<1>6. TypeInv'
  <2>1. pc' \in 0 .. 13
    BY <1>4
  <2> QED BY <1>a, <1>3, <1>t, <2>1, Zenon DEF TypeInv
<1>7. LocalInv'
  <2>1. "isInitialized" \notin Contracts
    BY DEF Contracts
  <2>2. ASSUME NEW i \in 1 .. 12, i < pc', Script[i] \in Contracts
        PROVE  i < pc
    <3>1. i < pc \/ i = pc \/ i = pc + 1
      BY <2>2, <1>1, <1>c
    <3> QED BY <3>1, <2>1, <2>2, <1>1
  <2> QED BY <2>2, <1>a, <1>t DEF LocalInv
<1>8. AwaitedInv'
  BY <1>1, <1>3, <1>4, <1>a, AdvanceInv DEF AwaitedInv
<1> QED BY <1>5, <1>6, <1>7, <1>8 DEF DeploymentInv

\* deployAndLog of a contract on record.
LEMMA SkipInv ==
  ASSUME DeploymentInv, NEW contract \in Contracts, Running(contract),
         records[contract] # NoAddress,
         local' = [local EXCEPT ![contract] = records[contract]],
         pc' = pc + 1, inflight' = inflight,
         UNCHANGED <<network, code, executed, mempool, records>>,
         waiting' = waiting
  PROVE  DeploymentInv'
PROOF
<1>t. TypeInv /\ LocalInv
  BY DEF DeploymentInv
<1>1. pc \in 1 .. 12 /\ Script[pc] = contract /\ pc > 0 /\ pc + 1 \in 1 .. 13
  BY <1>t, RunningSteps
<1>2. waiting' = FALSE
  <2>1. waiting = FALSE
    BY <1>t, RunningSteps
  <2> QED BY <2>1
<1>3. RecordsInv' /\ CallsInv' /\ IntegrationsUsable'
  BY QuietInv
<1>4. /\ local' \in Links /\ local'[contract] = records[contract]
      /\ \A c \in Contracts : c # contract => local'[c] = local[c]
  <2>1. records \in Links /\ local \in Links
    BY <1>t DEF TypeInv
  <2> QED BY <2>1 DEF Links, Addresses
<1>5. TypeInv'
  <2>1. pc' \in 0 .. 13
    BY <1>1
  <2> QED BY <1>2, <1>4, <1>t, <2>1, Zenon DEF TypeInv
<1>6. LocalInv'
  <2>1. \A c \in Contracts : local'[c] \in {NoAddress, records[c]}
    BY <1>4, <1>t DEF LocalInv
  <2>2. ASSUME NEW i \in 1 .. 12, i < pc', Script[i] \in Contracts
        PROVE  local'[Script[i]] # NoAddress
    <3>1. CASE Script[i] = contract
      BY <3>1, <1>4
    <3>2. CASE Script[i] # contract
      <4>1. i < pc
        BY <3>2, <2>2, <1>1
      <4> QED BY <4>1, <3>2, <2>2, <1>4, <1>t DEF LocalInv
    <3> QED BY <3>1, <3>2
  <2> QED BY <2>1, <2>2 DEF LocalInv
<1>7. AwaitedInv'
  BY <1>1, <1>2, AdvanceInv DEF AwaitedInv
<1> QED BY <1>3, <1>5, <1>6, <1>7 DEF DeploymentInv

LEMMA SendInv ==
  ASSUME DeploymentInv, NEW contract \in Contracts, Running(contract),
         records[contract] = NoAddress, ArgumentsDefined(contract, network),
         Send(contract)
  PROVE  DeploymentInv'
PROOF
<1>t. TypeInv /\ LocalInv /\ AwaitedInv
  BY DEF DeploymentInv
<1>a. mempool' = Append(mempool, Transaction(contract))
  BY DEF Send
<1>b. UNCHANGED <<network, code, executed, records>>
  BY DEF Send, onChain
<1>c. UNCHANGED <<local, pc, inflight>>
  BY DEF Send
<1>d. waiting' = TRUE
  BY DEF Send
<1> DEFINE tx == Transaction(contract)
<1>1. tx \in Transactions /\ tx.name = contract
  BY <1>t, TransactionType DEF TypeInv
<1>2. LinkedTo(tx, records) /\ CallLinked(tx, records)
  BY <1>t, TransactionLinked
<1> HIDE DEF tx
<1>3. /\ RecordsInv' /\ CallsInv' /\ IntegrationsUsable'
      /\ mempool' \in Seq(Transactions) /\ mempool' # <<>> /\ Newest(mempool', code') = tx
  <2>1. mempool' = Append(mempool, tx)
    BY <1>a DEF tx
  <2> QED BY <2>1, <1>1, <1>2, <1>b, SentInv
<1>4. pc \in 1 .. 12 /\ Script[pc] = contract /\ pc > 0
  BY <1>t, RunningSteps
<1>5. TypeInv'
  BY <1>3, <1>4, <1>b, <1>c, <1>d, <1>t, Zenon DEF TypeInv
<1>6. LocalInv'
  BY <1>b, <1>c, <1>t DEF LocalInv
<1>7. AwaitedInv'
  <2>1. inflight = ""
    BY <1>4, <1>t DEF AwaitedInv
  <2>2. \A c \in Contracts : c # ""
    BY DEF Contracts
  <2>3. \A c \in Contracts : Awaited(c)' => c = contract
    BY <1>c, <1>4, <2>1, <2>2, Zenon DEF Awaited
  <2>4. inflight' = ""
    BY <1>c, <2>1
  <2> QED BY <2>3, <2>4, <1>1, <1>2, <1>3, <1>b, Zenon DEF AwaitedInv
<1> QED BY <1>3, <1>5, <1>6, <1>7 DEF DeploymentInv

LEMMA DeployAndLogInv ==
  ASSUME DeploymentInv, NEW contract \in Contracts, deployAndLog(contract)
  PROVE  DeploymentInv'
PROOF
<1>1. Running(contract)
  BY DEF deployAndLog
<1>2. CASE records[contract] # NoAddress
  <2>1. /\ local' = [local EXCEPT ![contract] = records[contract]]
        /\ pc' = pc + 1 /\ inflight' = inflight /\ waiting' = waiting
        /\ UNCHANGED <<network, code, executed, mempool, records>>
    BY <1>2 DEF deployAndLog, onChain
  <2> QED BY <1>1, <1>2, <2>1, SkipInv
<1>3. CASE records[contract] = NoAddress /\ ArgumentsDefined(contract, network)
  <2>1. Send(contract)
    BY <1>3 DEF deployAndLog
  <2> QED BY <1>1, <1>3, <2>1, SendInv
<1>4. CASE records[contract] = NoAddress /\ ~ArgumentsDefined(contract, network)
  <2>1. ScriptThrows
    BY <1>4 DEF deployAndLog
  <2> QED BY <2>1, ThrowInv
<1> QED BY <1>2, <1>3, <1>4

LEMMA SendCallInv ==
  ASSUME DeploymentInv, NEW call \in Calls, SendCall(call)
  PROVE  DeploymentInv'
PROOF
<1>t. TypeInv /\ LocalInv
  BY DEF DeploymentInv
<1>r. Running(call)
  BY DEF SendCall
<1>1. CASE Reverts(Transaction(call))
  <2>1. ScriptThrows
    BY <1>1 DEF SendCall
  <2> QED BY <2>1, ThrowInv
<1>2. CASE ~Reverts(Transaction(call))
  <2> DEFINE tx == Transaction(call)
  <2>a. mempool' = Append(mempool, tx)
    BY <1>2 DEF SendCall
  <2>b. UNCHANGED <<network, code, executed, records>>
    BY <1>2 DEF SendCall, onChain
  <2>c. UNCHANGED <<local, inflight>>
    BY <1>2 DEF SendCall
  <2>d. pc' = pc + 1
    BY <1>2 DEF SendCall
  <2>e. waiting' = waiting
    BY <1>2 DEF SendCall
  <2>1. tx \in Transactions
    BY <1>t, TransactionType DEF TypeInv
  <2>2. CallLinked(tx, records)
    BY <1>t, <1>r, TransactionLinked
  <2> HIDE DEF tx
  <2>3. RecordsInv' /\ CallsInv' /\ IntegrationsUsable' /\ mempool' \in Seq(Transactions)
    BY <2>1, <2>2, <2>a, <2>b, SentInv
  <2>4. pc \in 1 .. 12 /\ Script[pc] = call /\ pc > 0 /\ pc + 1 \in 1 .. 13
    BY <1>t, <1>r, RunningSteps
  <2>5. waiting = FALSE
    BY <1>t, <1>r, RunningSteps
  <2>6. waiting' = FALSE
    BY <2>5, <2>e
  <2>7. TypeInv'
    <3>1. pc' \in 0 .. 13
      BY <2>4, <2>d
    <3> QED BY <2>3, <2>6, <2>b, <2>c, <1>t, <3>1, Zenon DEF TypeInv
  <2>8. LocalInv'
    <3>1. ASSUME NEW i \in 1 .. 12, i < pc', Script[i] \in Contracts
          PROVE  i < pc
      <4>1. i # pc
        BY <2>4, <3>1, CallsAreNoContracts
      <4> QED BY <4>1, <3>1, <2>4, <2>d
    <3> QED BY <3>1, <2>b, <2>c, <1>t DEF LocalInv
  <2>9. AwaitedInv'
    <3>1. pc' \in 1 .. 13
      BY <2>4, <2>d
    <3>2. inflight' = inflight
      BY <2>c
    <3> QED BY <3>1, <3>2, <2>4, <2>6, AdvanceInv DEF AwaitedInv
  <2> QED BY <2>3, <2>7, <2>8, <2>9 DEF DeploymentInv
<1> QED BY <1>1, <1>2

LEMMA ReceiptInv ==
  ASSUME DeploymentInv, Receipt
  PROVE  DeploymentInv'
PROOF
<1> DEFINE c == Script[pc]
<1>t. TypeInv /\ LocalInv
  BY DEF DeploymentInv
<1>a. waiting /\ mempool = <<>>
  BY DEF Receipt
<1>b. records' = [records EXCEPT ![c] = Len(code)]
  BY DEF Receipt
<1>c. local' = [local EXCEPT ![c] = Len(code)]
  BY DEF Receipt
<1>d. pc' = pc + 1
  BY DEF Receipt
<1>e. waiting' = FALSE
  BY DEF Receipt
<1>f. UNCHANGED <<network, code, executed, mempool>> /\ inflight' = inflight
  BY DEF Receipt, onChain
<1>1. pc \in 1 .. 12 /\ c \in Contracts
  BY <1>a, <1>t, Zenon DEF TypeInv
<1>2. Awaited(c)
  BY <1>a DEF Awaited
<1>p. pc > 0 /\ pc' \in 1 .. 13
  BY <1>1, <1>d
<1>3. pc \in 1 .. 12 /\ Script[pc] = c
  BY <1>1
<1> HIDE DEF c
<1>4. /\ RecordsInv' /\ CallsInv' /\ IntegrationsUsable'
      /\ records' \in Links
      /\ \A d \in Contracts : records[d] # NoAddress => records'[d] = records[d]
      /\ records'[c] = Len(code) /\ Len(code) \in Nat /\ Len(code) # NoAddress
  BY <1>1, <1>2, <1>a, <1>b, <1>f, RecordedInv
<1>5. /\ local' \in Links /\ local'[c] = Len(code)
      /\ \A d \in Contracts : d # c => local'[d] = local[d]
  <2>1. local \in Links
    BY <1>t DEF TypeInv
  <2> QED BY <2>1, <1>1, <1>4, <1>c DEF Links, Addresses
<1>6. TypeInv'
  <2>1. pc' \in 0 .. 13
    BY <1>p
  <2> QED BY <1>e, <1>f, <1>4, <1>5, <1>t, <2>1, Zenon DEF TypeInv
<1>7. LocalInv'
  <2>1. ASSUME NEW d \in Contracts
        PROVE  local'[d] \in {NoAddress, records'[d]}
    <3>1. CASE d = c
      BY <3>1, <1>4, <1>5
    <3>2. CASE d # c
      BY <3>2, <1>4, <1>5, <1>t DEF LocalInv
    <3> QED BY <3>1, <3>2
  <2>2. ASSUME NEW i \in 1 .. 12, i < pc', Script[i] \in Contracts
        PROVE  local'[Script[i]] # NoAddress
    <3>1. CASE Script[i] = c
      BY <3>1, <1>4, <1>5
    <3>2. CASE Script[i] # c
      <4>1. i < pc
        BY <3>2, <2>2, <1>3, <1>d
      <4> QED BY <4>1, <3>2, <2>2, <1>5, <1>t DEF LocalInv
    <3> QED BY <3>1, <3>2
  <2> QED BY <2>1, <2>2 DEF LocalInv
<1>8. AwaitedInv'
  BY <1>p, <1>e, <1>f, AdvanceInv DEF AwaitedInv
<1> QED BY <1>4, <1>6, <1>7, <1>8 DEF DeploymentInv

LEMMA RerunInv ==
  ASSUME DeploymentInv, Rerun
  PROVE  DeploymentInv'
PROOF
<1>t. TypeInv /\ LocalInv /\ AwaitedInv
  BY DEF DeploymentInv
<1>a. UNCHANGED <<network, code, executed, mempool>> /\ UNCHANGED local
  BY DEF Rerun, onChain
<1>b. pc = 0
  BY DEF Rerun
<1>c. pc' = 1
  BY DEF Rerun
<1>d. inflight' = ""
  BY DEF Rerun
<1>e. waiting' = waiting
  BY DEF Rerun
<1>1. waiting = FALSE
  <2>1. pc \notin 1 .. 12
    BY <1>b
  <2> QED BY <2>1, <1>t, Zenon DEF TypeInv
<1>2. /\ RecordsInv' /\ CallsInv' /\ IntegrationsUsable' /\ records' \in Links
      /\ \A d \in Contracts : records[d] # NoAddress => records'[d] = records[d]
  <2>1. CASE records' = records
    <3>1. RecordsInv' /\ CallsInv' /\ IntegrationsUsable'
      BY <2>1, <1>a, QuietInv
    <3> QED BY <2>1, <3>1, <1>t DEF TypeInv
  <2>2. CASE inflight # "" /\ mempool = <<>> /\ records' = [records EXCEPT ![inflight] = Len(code)]
    <3>1. inflight \in Contracts
      BY <2>2, <1>t DEF TypeInv
    <3>2. Awaited(inflight)
      BY DEF Awaited
    <3> QED BY <2>2, <3>1, <3>2, <1>a, RecordedInv
  <2> QED BY <2>1, <2>2 DEF Rerun
<1>3. TypeInv'
  <2>1. pc' \in 0 .. 13
    BY <1>c
  <2>2. waiting' = FALSE
    BY <1>1, <1>e
  <2> QED BY <1>2, <1>a, <1>d, <1>t, <2>1, <2>2, Zenon DEF TypeInv
<1>4. LocalInv'
  <2>1. \A c \in Contracts : local'[c] \in {NoAddress, records'[c]}
    BY <1>2, <1>a, <1>t DEF LocalInv
  <2>2. \A i \in 1 .. 12 : ~(i < pc')
    BY <1>c
  <2> QED BY <2>1, <2>2 DEF LocalInv
<1>5. AwaitedInv'
  <2>1. \A c \in Contracts : c # ""
    BY DEF Contracts
  <2>2. \A c \in Contracts : ~Awaited(c)'
    BY <2>1, <1>1, <1>d, <1>e, Zenon DEF Awaited
  <2> QED BY <2>2, <1>d, Zenon DEF AwaitedInv
<1> QED BY <1>2, <1>3, <1>4, <1>5 DEF DeploymentInv

-----------------------------------------------------------------------------
(* The theorems *)

LEMMA StutterInv ==
  ASSUME DeploymentInv, UNCHANGED deploymentVars
  PROVE  DeploymentInv'
PROOF
<1>a. UNCHANGED <<network, code, executed, mempool, records, local, pc, waiting, inflight>>
  BY DEF deploymentVars
<1>1. RecordsInv' /\ CallsInv' /\ IntegrationsUsable'
  BY <1>a, QuietInv
<1>2. TypeInv'
  BY <1>a, Zenon DEF DeploymentInv, TypeInv
<1>3. LocalInv'
  BY <1>a, Zenon DEF DeploymentInv, LocalInv
<1>4. AwaitedInv'
  BY <1>a, Zenon DEF DeploymentInv, AwaitedInv, Awaited
<1> QED BY <1>1, <1>2, <1>3, <1>4 DEF DeploymentInv

LEMMA NextInv ==
  ASSUME DeploymentInv, [DeploymentNext]_deploymentVars
  PROVE  DeploymentInv'
PROOF
<1>1. CASE UNCHANGED deploymentVars
  BY <1>1, StutterInv
<1>2. ASSUME NEW contract \in Contracts, deployAndLog(contract)
      PROVE  DeploymentInv'
  BY <1>2, DeployAndLogInv
<1>3. CASE Receipt
  BY <1>3, ReceiptInv
<1>4. CASE ReadIsInitialized
  BY <1>4, ReadIsInitializedInv
<1>5. ASSUME NEW call \in Calls, SendCall(call)
      PROVE  DeploymentInv'
  BY <1>5, SendCallInv
<1>6. CASE Finish
  BY <1>6, FinishInv
<1>7. CASE Mine
  BY <1>7, MineInv
<1>8. CASE Crash
  BY <1>8, CrashInv
<1>9. CASE Rerun
  BY <1>9, RerunInv
<1> QED BY <1>1, <1>2, <1>3, <1>4, <1>5, <1>6, <1>7, <1>8, <1>9, Zenon
        DEF DeploymentNext, ScriptStep, Calls

LEMMA InvariantHolds == DeploymentSpec => []DeploymentInv
PROOF
<1>1. DeploymentInv /\ [DeploymentNext]_deploymentVars => DeploymentInv'
  BY NextInv
<1> QED BY <1>1, InitInv, PTL DEF DeploymentSpec

\* The contracts that 000_core.ts and hardhat-deploy have on record form one
\* system in every reachable state, however often the process is killed and
\* the script run again, with any number of transactions pending.
THEOREM OneSystemOnRecord == DeploymentSpec => []OneSystem
PROOF
<1>1. ASSUME DeploymentInv
      PROVE  OneSystem
  <2>t. RecordsInv /\ CallsInv /\ IntegrationsUsable
    BY <1>1 DEF DeploymentInv
  <2>1. OneController
    <3> SUFFICES ASSUME NEW c \in Contracts, records[c] # NoAddress, "Controller" \in CoreArguments(c)
                 PROVE  /\ records[c] \in DOMAIN code
                        /\ code[records[c]].name = c
                        /\ code[records[c]].links["Controller"] = records["Controller"]
      BY DEF OneController
    <3>1. /\ records[c] \in 1 .. Len(code) /\ code[records[c]].name = c
          /\ LinkedTo(code[records[c]], records)
      BY <2>t DEF RecordsInv
    <3>2. code[records[c]].links["Controller"] = records["Controller"]
      BY <3>1 DEF LinkedTo
    <3>3. DOMAIN code = 1 .. Len(code)
      <4>1. code \in Seq(Transactions)
        BY <1>1 DEF DeploymentInv, TypeInv
      <4> QED BY <4>1
    <3> QED BY <3>1, <3>2, <3>3
  <2>2. InitializedFromRecords
    <3> SUFFICES ASSUME NEW call \in executed, call.name = "initialize",
                        NEW c \in CoreArguments("initialize")
                 PROVE  call.links[c] = records[c]
      BY DEF InitializedFromRecords
    <3>1. LinkedTo(call, records)
      BY <2>t DEF CallsInv, CallLinked, Calls
    <3> QED BY <3>1 DEF LinkedTo
  <2> QED BY <2>t, <2>1, <2>2 DEF OneSystem
<1> QED BY <1>1, InvariantHolds, PTL

\* No call of 000_core.ts takes effect on a network where a later step of it
\* must throw for want of an account or a dependency.
THEOREM NothingInVain == DeploymentSpec => []NothingInitializedInVain
PROOF
<1>1. ASSUME DeploymentInv
      PROVE  NothingInitializedInVain
  <2>t. RecordsInv /\ CallsInv
    BY <1>1 DEF DeploymentInv
  <2> SUFFICES ASSUME executed # {} PROVE Deployable
    BY DEF NothingInitializedInVain
  <2>1. PICK call \in executed : TRUE
    OBVIOUS
  <2>2. call.name \in Calls /\ LinkedTo(call, records) /\ records["ExchangeIssuanceZeroEx"] # NoAddress
    BY <2>t DEF CallsInv, CallLinked
  <2>3. "TradeModule" \in CoreArguments(call.name)
    BY <2>2 DEF Calls, Integrations, CoreArguments, Contracts, StepsTaking
  <2>4. records["TradeModule"] # NoAddress
    BY <2>2, <2>3 DEF LinkedTo
  <2>5. "TradeModule" \in Contracts /\ "ExchangeIssuanceZeroEx" \in Contracts
    BY DEF Contracts
  <2>6. ArgumentsDefined("TradeModule", network) /\ ArgumentsDefined("ExchangeIssuanceZeroEx", network)
    BY <2>2, <2>4, <2>5, <2>t DEF RecordsInv
  <2> QED BY <2>6, ArgumentsDefinedSuffice
<1> QED BY <1>1, InvariantHolds, PTL

-----------------------------------------------------------------------------
(* The subtasks: what the loops of the typechain process have done to the   *)
(* files before the cursor, and what a build to be published starts from.   *)

Phases == {"idle", "rewriting", "writing", "restoring", "restoringFile", "done"}

LoopInv ==
  /\ phase \in Phases
  /\ cursor \in 1 .. ArtifactFiles + 1
  /\ artifact \in [Files -> Int] /\ types \in [Files -> Int] /\ item \in [Files -> Int]
  /\ gas \in Settings
  /\ phase \notin {"idle", "rewriting"} \/ (phase = "rewriting" /\ cursor # 1) => gas # AutoGas
  /\ phase \in {"rewriting", "writing"} =>
       \A file \in Files : file < cursor => artifact[file] = gas - 1
  /\ phase = "writing" => cursor \in Files /\ item[cursor] = gas - 1
  /\ phase \in {"restoring", "restoringFile", "done"} =>
       \A file \in Files : types[file] = gas - 1
  /\ phase \in {"restoring", "restoringFile"} =>
       \A file \in Files : file < cursor => artifact[file] = NoGas
  /\ phase = "restoringFile" => cursor \in Files /\ item[cursor] = NoGas
  /\ phase = "done" => \A file \in Files : artifact[file] = NoGas

\* What the artifacts of a package hold.
ArtifactsOf(tag) == IF tag = "latest" THEN {NoGas} ELSE Limits

\* The artifacts of a release are compiled from nothing for its tag, and it
\* reaches the end of its commands with a typechain process that has ended.
ReleaseInv ==
  /\ channel \in Channels
  /\ build = "compile" => built = Absent
  /\ build \in {"typechain", "pack"} => built \in ArtifactsOf(channel)
  /\ build = "pack" => phase = "done"

\* The packages, as functions of the tag.
PackageInv ==
  /\ DOMAIN published = Channels
  /\ PackagesMatchTheirTag

\* A clean checkout and nothing built.
LEMMA ArtifactsInit == ArtifactInit => LoopInv /\ ReleaseInv /\ PackageInv
<1>1. ArtifactFiles \in Nat
  BY ArtifactAssumption
<1> SUFFICES ASSUME ArtifactInit PROVE LoopInv /\ ReleaseInv /\ PackageInv
  OBVIOUS
<1>2. LoopInv
  BY <1>1 DEF ArtifactInit, LoopInv, Phases, Files, NoGas, Absent, AutoGas, Settings
<1>3. ReleaseInv
  BY DEF ArtifactInit, ReleaseInv, Channels
<1>4. PackageInv
  BY DEF ArtifactInit, PackageInv, PackagesMatchTheirTag, NoPackage, Channels
<1> QED BY <1>2, <1>3, <1>4

\* The limits are the ones that no other value of a file is.
LEMMA LimitsAreGas ==
  /\ NoGas \notin Limits /\ Absent \notin Limits /\ Absent # NoGas
  /\ \A networkGas \in Settings : networkGas # AutoGas => networkGas - 1 \in Limits
<1>1. Limits = {11, 29}
  BY DEF Limits, Settings, AutoGas
<1> QED BY <1>1 DEF NoGas, Absent, Limits

\* Every command of a release leaves what the next one relies on.
LEMMA ReleaseStep ==
  ASSUME ReleaseInv, [ArtifactNext]_artifactVars
  PROVE  ReleaseInv'
<1>1. CASE UNCHANGED <<built, build, channel, phase>>
  BY <1>1 DEF ReleaseInv
<1>2. ASSUME NEW networkGas \in Settings, Compile(networkGas) PROVE ReleaseInv'
  BY <1>2 DEF Compile, ReleaseInv
<1>3. ASSUME NEW tag \in Channels, StartPublish(tag) PROVE ReleaseInv'
  BY <1>3 DEF StartPublish, ReleaseInv
<1>4. ASSUME NEW networkGas \in Settings, CompileForRelease(networkGas) PROVE ReleaseInv'
  <2>1. built = Absent /\ channel' = channel /\ build' = "typechain"
    BY <1>4 DEF CompileForRelease, ReleaseInv
  <2>2. CASE channel = "latest"
    BY <1>4, <2>1, <2>2 DEF CompileForRelease, compileCached, ReleaseInv, ArtifactsOf
  <2>3. CASE channel # "latest"
    <3>1. built' = networkGas - 1 /\ networkGas # AutoGas
      BY <1>4, <2>1, <2>3 DEF CompileForRelease, compileCached, addGasToAbiMethods
    <3> QED BY <2>1, <2>3, <3>1, LimitsAreGas DEF ReleaseInv, ArtifactsOf
  <2> QED BY <2>2, <2>3
<1>5. CASE \/ \E networkGas \in Settings : CompileThrows(networkGas)
           \/ Pack \/ KillBuild \/ RewriteThrows \/ KillTypechain
  <2>1. build' = "none" /\ channel' = channel
    BY <1>5 DEF CompileThrows, Pack, KillBuild, RewriteThrows, KillTypechain, StopTypechain
  <2> QED BY <2>1 DEF ReleaseInv
<1>6. CASE \/ \E networkGas \in Settings : StartTypechain(networkGas)
           \/ BeginRewrite \/ EndRewrite \/ GenerateTypes \/ BeginRestore \/ EndRestore
           \/ StartAgain \/ Checkout
  <2>1. UNCHANGED builds /\ (build = "pack" => phase' = phase)
    BY <1>6 DEF StartTypechain, BeginRewrite, EndRewrite, GenerateTypes, BeginRestore,
                EndRestore, StartAgain, Checkout, ReleaseInv
  <2> QED BY <2>1 DEF ReleaseInv, builds
<1>7. CASE EndTypechain
  BY <1>7 DEF EndTypechain, AfterTypechain, ReleaseInv
<1>8. CASE UNCHANGED artifactVars
  BY <1>1, <1>8 DEF artifactVars, builds
<1> QED BY <1>2, <1>3, <1>4, <1>5, <1>6, <1>7, <1>8 DEF ArtifactNext, TypechainStep

\* What is packed is what the commands of the release left.
LEMMA PackageStep ==
  ASSUME LoopInv, ReleaseInv, PackageInv, [ArtifactNext]_artifactVars
  PROVE  PackageInv'
<1>1. CASE UNCHANGED published
  BY <1>1 DEF PackageInv, PackagesMatchTheirTag
<1>2. CASE Pack
  <2>1. phase = "done" /\ built \in ArtifactsOf(channel) /\ channel \in Channels
    BY <1>2 DEF Pack, ReleaseInv
  <2>2. /\ \A file \in Files : artifact[file] = NoGas /\ types[file] = gas - 1
        /\ gas - 1 \in Limits
    BY <2>1, LimitsAreGas DEF LoopInv
  <2>3. /\ published'[channel] = [artifacts |-> built, types |-> types, external |-> artifact]
        /\ \A tag \in Channels : tag # channel => published'[tag] = published[tag]
        /\ DOMAIN published' = Channels
    BY <1>2, <2>1 DEF Pack, PackageInv
  <2>4. /\ published'[channel].artifacts = built
        /\ published'[channel].types = types
        /\ published'[channel].external = artifact
    BY <2>3
  <2>5. CASE channel = "latest"
    BY <2>1, <2>2, <2>3, <2>4, <2>5
       DEF PackageInv, PackagesMatchTheirTag, ArtifactsOf, Channels
  <2>6. CASE channel = "hardhat"
    BY <2>1, <2>2, <2>3, <2>4, <2>6
       DEF PackageInv, PackagesMatchTheirTag, ArtifactsOf, Channels
  <2> QED BY <2>1, <2>5, <2>6 DEF Channels
<1>3. CASE ~Pack
  <2>1. UNCHANGED published
    BY <1>3 DEF ArtifactNext, StartTypechain, TypechainStep, RewriteThrows, StopTypechain,
                BeginRewrite, EndRewrite, GenerateTypes, BeginRestore, EndRestore,
                EndTypechain, AfterTypechain, StartAgain, KillTypechain, Checkout, Compile,
                StartPublish, CompileForRelease, CompileThrows, KillBuild, builds, artifactVars
  <2> QED BY <1>1, <2>1
<1> QED BY <1>2, <1>3

\* The steps of the typechain process, one by one.
LEMMA LoopStep ==
  ASSUME LoopInv, [ArtifactNext]_artifactVars
  PROVE  LoopInv'
<1>0. ArtifactFiles \in Nat \ {0} /\ Files = 1 .. ArtifactFiles /\ Settings \subseteq Int
  BY ArtifactAssumption DEF Files, Settings, AutoGas
<1>1. CASE \/ \E networkGas \in Settings : \/ Compile(networkGas)
                                           \/ CompileForRelease(networkGas)
                                           \/ CompileThrows(networkGas)
           \/ Pack \/ KillBuild \/ UNCHANGED artifactVars
  <2>1. UNCHANGED <<artifact, types, item, phase, cursor, gas>>
    BY <1>1 DEF Compile, CompileForRelease, CompileThrows, Pack, KillBuild, artifactVars, files
  <2> QED BY <2>1 DEF LoopInv
<1>2. ASSUME NEW networkGas \in Settings, StartTypechain(networkGas) PROVE LoopInv'
  BY <1>0, <1>2 DEF StartTypechain, LoopInv, Phases, Absent
<1>3. CASE RewriteThrows \/ KillTypechain
  BY <1>0, <1>3 DEF RewriteThrows, KillTypechain, StopTypechain, LoopInv, Phases, files
<1>4. CASE BeginRewrite
  BY <1>0, <1>4 DEF BeginRewrite, LoopInv, Phases, Torn, addGasToAbiMethods
<1>5. CASE EndRewrite
  BY <1>0, <1>5 DEF EndRewrite, LoopInv, Phases
<1>6. CASE GenerateTypes
  BY <1>0, <1>6 DEF GenerateTypes, LoopInv, Phases
<1>7. CASE BeginRestore
  BY <1>0, <1>7 DEF BeginRestore, LoopInv, Phases, Torn, NoGas, removeGasFromAbiMethods
<1>8. CASE EndRestore
  BY <1>0, <1>8 DEF EndRestore, LoopInv, Phases, NoGas
<1>9. CASE EndTypechain
  BY <1>0, <1>9 DEF EndTypechain, AfterTypechain, LoopInv, Phases, files
<1>10. CASE StartAgain
  BY <1>0, <1>10 DEF StartAgain, LoopInv, Phases, files
<1>11. CASE Checkout
  BY <1>0, <1>11 DEF Checkout, LoopInv, Phases, NoGas
<1>12. ASSUME NEW tag \in Channels, StartPublish(tag) PROVE LoopInv'
  BY <1>0, <1>12 DEF StartPublish, LoopInv, Phases, Absent
<1> QED BY <1>1, <1>2, <1>3, <1>4, <1>5, <1>6, <1>7, <1>8, <1>9, <1>10, <1>11, <1>12
        DEF ArtifactNext, TypechainStep

\* However often the subtasks of tasks/subtasks.ts throw or are killed, in
\* whatever order the two packages are built, and for any number of files: a
\* typechain process that reaches its end leaves no gas limit in a file under
\* version control and generates types with its own limit; the artifacts of the
\* latest tag are published without a limit and those of the hardhat tag with
\* one, and both packages have clean external files and types of one limit.
THEOREM GasLimitsStay == ArtifactSpec => []GasLimitsStayWhereTheyBelong
<1> DEFINE Inv == LoopInv /\ ReleaseInv /\ PackageInv
<1>1. Inv => GasLimitsStayWhereTheyBelong
  BY DEF LoopInv, PackageInv, GasLimitsStayWhereTheyBelong, SuccessLeavesFilesClean,
         TypesCarryOwnLimit
<1>2. Inv /\ [ArtifactNext]_artifactVars => Inv'
  BY LoopStep, ReleaseStep, PackageStep
<1>3. ArtifactInit => Inv
  BY ArtifactsInit
<1> HIDE DEF Inv
<1> QED BY <1>1, <1>2, <1>3, PTL DEF ArtifactSpec

-----------------------------------------------------------------------------
(* The Set a test finds in the logs: the blocks only grow, and the test's   *)
(* own Set stays where it was created.                                      *)

Places == Nat \X Nat

SetLookupInv ==
  /\ blocks \in Seq(Creators \cup OwnBlocks)
  /\ own \in [made : Places, found : Places]
  /\ own.made # NoSet => /\ own.made[1] \in 1 .. Len(blocks)
                         /\ own.made[2] <= Len(blocks[own.made[1]])
  /\ own.found # NoSet => own.made # NoSet
  /\ FoundSetIsNotOlder

\* Before the test's Set is created nothing is found.
LEMMA SetLookupInit == FixtureInit => SetLookupInv
<1> SUFFICES ASSUME FixtureInit PROVE SetLookupInv
  OBVIOUS
<1>1. blocks = <<>> /\ own = [made |-> NoSet, found |-> NoSet]
  BY DEF FixtureInit
<1>2. NoSet \in Places
  BY DEF NoSet, Places
<1>3. blocks \in Seq(Creators \cup OwnBlocks)
  BY <1>1
<1> QED BY <1>1, <1>2, <1>3 DEF SetLookupInv, FoundSetIsNotOlder

\* The blocks of other accounts and the test's own, by their lengths.
LEMMA BlockLengths ==
  /\ \A block \in Creators \cup OwnBlocks : Len(block) \in Nat
  /\ \A block \in OwnBlocks : (IF block[1] = "test" THEN 1 ELSE 2) <= Len(block)
  BY DEF Creators, OwnBlocks

\* The building of the fixture and of the subject touches no block.
LEMMA BuildingLeavesBlocks ==
  ASSUME FixtureStep \/ UNCHANGED fixtureVars
  PROVE  UNCHANGED <<blocks, own>>
<1>1. CASE \E name \in DOMAIN Fixtures : ChooseFixture(name)
  BY <1>1 DEF ChooseFixture
<1>2. CASE DeployStep
  BY <1>2 DEF DeployStep, Throw, GoOnBuilding
<1>3. CASE ApproveStep
  BY <1>3 DEF ApproveStep, Throw, GoOnBuilding
<1>4. CASE InitializeStep
  BY <1>4 DEF InitializeStep, Throw, GoOnBuilding
<1>5. CASE EndFixture
  BY <1>5 DEF EndFixture
<1>6. CASE \E choice \in Subjects :
             choice[2] \in DOMAIN Helpers[choice[1]] /\ ChooseSubject(choice[1], choice[2])
  BY <1>6 DEF ChooseSubject
<1>7. CASE \E library \in DeployLibraries : DeployLibrary(library)
  BY <1>7 DEF DeployLibrary
<1>8. CASE DeploySubject
  BY <1>8 DEF DeploySubject, Throw
<1>9. CASE UNCHANGED fixtureVars
  BY <1>9 DEF fixtureVars
<1> QED BY <1>1, <1>2, <1>3, <1>4, <1>5, <1>6, <1>7, <1>8, <1>9 DEF FixtureStep

\* A block more changes no block before it.
LEMMA BlockAppended ==
  ASSUME SetLookupInv, NEW block \in Creators \cup OwnBlocks,
         blocks' = Append(blocks, block)
  PROVE  /\ blocks' \in Seq(Creators \cup OwnBlocks)
         /\ Len(blocks') = Len(blocks) + 1 /\ Len(blocks) \in Nat
         /\ blocks'[Len(blocks) + 1] = block
         /\ \A i \in 1 .. Len(blocks) : i \in 1 .. Len(blocks') /\ blocks'[i] = blocks[i]
  BY DEF SetLookupInv

\* Every step preserves the invariant.
LEMMA SetLookupStep ==
  ASSUME SetLookupInv, [FixtureNext]_fixtureVars
  PROVE  SetLookupInv'
<1>t. /\ blocks \in Seq(Creators \cup OwnBlocks)
      /\ own \in [made : Places, found : Places]
      /\ own.made # NoSet => /\ own.made[1] \in 1 .. Len(blocks)
                             /\ own.made[2] <= Len(blocks[own.made[1]])
      /\ own.found # NoSet => own.made # NoSet
      /\ FoundSetIsNotOlder
  BY DEF SetLookupInv
<1>1. CASE FixtureStep \/ UNCHANGED fixtureVars
  <2>1. UNCHANGED <<blocks, own>>
    BY <1>1, BuildingLeavesBlocks
  <2> QED BY <2>1 DEF SetLookupInv, FoundSetIsNotOlder
<1>2. ASSUME NEW block \in Creators, MineOthers(block) PROVE SetLookupInv'
  <2>1. blocks' = Append(blocks, block) /\ own' = own
    BY <1>2 DEF MineOthers
  <2>2. /\ blocks' \in Seq(Creators \cup OwnBlocks)
        /\ \A i \in 1 .. Len(blocks) : i \in 1 .. Len(blocks') /\ blocks'[i] = blocks[i]
    BY <2>1, BlockAppended
  <2> QED BY <1>t, <2>1, <2>2 DEF SetLookupInv, FoundSetIsNotOlder
<1>3. ASSUME NEW block \in OwnBlocks, CreateSetToken(block) PROVE SetLookupInv'
  <2> DEFINE place == <<Len(blocks) + 1, IF block[1] = "test" THEN 1 ELSE 2>>
  <2>1. /\ blocks' = Append(blocks, block)
        /\ own' = [own EXCEPT !.made = place]
        /\ own.made = NoSet
    BY <1>3 DEF CreateSetToken
  <2>2. /\ blocks' \in Seq(Creators \cup OwnBlocks)
        /\ Len(blocks') = Len(blocks) + 1 /\ Len(blocks) \in Nat
        /\ blocks'[Len(blocks) + 1] = block
    BY <2>1, BlockAppended
  <2>3. place \in Places /\ place[1] = Len(blocks) + 1 /\ place[2] <= Len(block)
    BY <2>2, BlockLengths DEF Places
  <2> HIDE DEF place
  <2>4. /\ own' \in [made : Places, found : Places]
        /\ own'.made = place /\ own'.found = NoSet
    BY <1>t, <2>1, <2>3
  <2>5. place # NoSet
    BY <2>2, <2>3 DEF NoSet
  <2>6. own'.made[1] \in 1 .. Len(blocks') /\ own'.made[2] <= Len(blocks'[own'.made[1]])
    BY <2>2, <2>3, <2>4
  <2> QED BY <2>2, <2>4, <2>5, <2>6 DEF SetLookupInv, FoundSetIsNotOlder
<1>4. CASE FindSetToken
  <2>1. /\ own' = [own EXCEPT !.found = getCreatedSetTokenAddress]
        /\ own.made # NoSet /\ blocks' = blocks
    BY <1>4 DEF FindSetToken
  <2> DEFINE m == own.made[1]
             n == Len(blocks)
  <2>2. /\ m \in 1 .. n /\ n \in Nat
        /\ own.made \in Places /\ own.made[2] <= Len(blocks[m])
    BY <1>t, <2>1
  <2>3. Len(blocks[n]) \in Nat
    BY <1>t, <2>2, BlockLengths
  <2> DEFINE found == getCreatedSetTokenAddress
  <2>4. found = Thrown \/ found = <<n, Len(blocks[n])>>
    BY DEF getCreatedSetTokenAddress, Last
  <2>5. found \in Places
    BY <2>2, <2>3, <2>4 DEF Thrown, Places
  <2>6. /\ own' \in [made : Places, found : Places]
        /\ own'.made = own.made /\ own'.found = found
    BY <1>t, <2>1, <2>5
  <2>7. FoundSetIsNotOlder'
    <3>1. CASE found = Thrown
      BY <2>6, <3>1 DEF FoundSetIsNotOlder
    <3>2. CASE found = <<n, Len(blocks[n])>>
      <4>1. found[1] = n /\ found[2] = Len(blocks[n])
        BY <3>2
      <4>2. n > m \/ n = m
        BY <2>2
      <4>3. n = m => own.made[2] <= found[2]
        BY <2>2, <4>1
      <4>4. own.made[2] \in Nat
        BY <2>2 DEF Places
      <4> HIDE DEF found
      <4> QED BY <2>3, <2>6, <4>1, <4>2, <4>3, <4>4 DEF FoundSetIsNotOlder
    <3> QED BY <2>4, <3>1, <3>2
  <2> QED BY <1>t, <2>1, <2>6, <2>7 DEF SetLookupInv
<1> QED BY <1>1, <1>2, <1>3, <1>4 DEF FixtureNext

\* getCreatedSetTokenAddress (protocolUtils.ts) never returns a Set older than
\* the one the test created, whatever others do on the node and however many
\* blocks pass.
THEOREM FoundSetIsNeverOlder == FixtureSpec => []FoundSetIsNotOlder
<1>1. SetLookupInv => FoundSetIsNotOlder
  BY DEF SetLookupInv
<1>2. SetLookupInv /\ [FixtureNext]_fixtureVars => SetLookupInv'
  BY SetLookupStep
<1> QED BY <1>1, <1>2, SetLookupInit, PTL DEF FixtureSpec

-----------------------------------------------------------------------------
(* The deploy helpers hand every argument on at the place of the parameter  *)
(* it is for: their tables agree with those of the constructors.            *)

\* The constructors that take the Controller only.
LEMMA PlainConstructors ==
  \A c \in ControllerOnly : c \in DOMAIN Constructors /\ Constructors[c] = <<"controller">>
  BY DEF Constructors, Joined, ModuleConstructor

\* No contract has two constructors.
LEMMA DistinctSpecial == ControllerOnly \cap DOMAIN SpecialConstructors = {}
  BY DEF ControllerOnly, SpecialConstructors

\* The constructors that take more than the Controller.
LEMMA SpecialConstructor ==
  \A c \in DOMAIN SpecialConstructors :
    c \in DOMAIN Constructors /\ Constructors[c] = SpecialConstructors[c]
  BY DistinctSpecial DEF Constructors, Joined

\* deployCoreContracts.ts against the constructors.
LEMMA CoreAgrees ==
  \A c \in DOMAIN DeployCoreContracts : c \in DOMAIN Constructors /\ DeployCoreContracts[c] = Constructors[c]
<1>1. \A c \in {"SetTokenCreator", "IntegrationRegistry", "SetValuer"} :
        DeployCoreContracts[c] = <<"controller">> /\ c \in ControllerOnly
  BY DEF DeployCoreContracts, ControllerOnly
<1>2. \A c \in {"Controller", "PriceOracle", "SetToken", "Operator", "ExchangeIssuanceZeroEx"} :
        DeployCoreContracts[c] = SpecialConstructors[c] /\ c \in DOMAIN SpecialConstructors
  BY DEF DeployCoreContracts, SpecialConstructors, PriceOracleConstructor, SetTokenConstructor,
         ExchangeIssuanceZeroExConstructor
<1>3. DOMAIN DeployCoreContracts =
        {"SetTokenCreator", "IntegrationRegistry", "SetValuer"}
        \cup {"Controller", "PriceOracle", "SetToken", "Operator", "ExchangeIssuanceZeroEx"}
  BY DEF DeployCoreContracts
<1> QED BY <1>1, <1>2, <1>3, PlainConstructors, SpecialConstructor

\* deployModules.ts, the methods that link no library.
LEMMA PlainModulesAgree ==
  \A c \in DOMAIN DeployPlainModules : c \in DOMAIN Constructors /\ DeployPlainModules[c] = Constructors[c]
<1> DEFINE special == {"TradeModule", "WrapModule", "CustomOracleNavIssuanceModule", "SingleIndexModule",
                       "GeneralIndexModule"}
<1>1. \A c \in DOMAIN DeployPlainModules \ special :
        DeployPlainModules[c] = <<"controller">> /\ c \in ControllerOnly
  BY DEF DeployPlainModules, ControllerOnly
<1>2. \A c \in special :
        DeployPlainModules[c] = SpecialConstructors[c] /\ c \in DOMAIN SpecialConstructors
  BY DEF DeployPlainModules, SpecialConstructors, TradeModuleConstructor, WrapModuleConstructor,
         CustomOracleNavIssuanceModuleConstructor, SingleIndexModuleConstructor,
         GeneralIndexModuleConstructor
<1> HIDE DEF special
<1> QED BY <1>1, <1>2, PlainConstructors, SpecialConstructor

\* deployModules.ts, the later methods.
LEMMA LinkedModulesAgree ==
  \A c \in DOMAIN DeployLinkedModules : c \in DOMAIN Constructors /\ DeployLinkedModules[c] = Constructors[c]
<1>1. \A c \in DOMAIN DeployLinkedModules :
        DeployLinkedModules[c] = SpecialConstructors[c] /\ c \in DOMAIN SpecialConstructors
  BY DEF DeployLinkedModules, SpecialConstructors, CompoundLeverageModuleConstructor,
         AaveLeverageModuleConstructor, NotionalTradeModuleConstructor, WrapModuleV2Constructor,
         PerpV2LeverageModuleV2Constructor, PositionUnitAdjusterModuleConstructor
<1> QED BY <1>1, SpecialConstructor

\* deployModules.ts as a whole.
LEMMA ModulesAgree ==
  \A c \in DOMAIN DeployModules : c \in DOMAIN Constructors /\ DeployModules[c] = Constructors[c]
  BY PlainModulesAgree, LinkedModulesAgree DEF DeployModules, Joined

\* deploySetV2.ts against the constructors.
LEMMA SetV2Agrees ==
  \A c \in DOMAIN DeploySetV2 : c \in DOMAIN Constructors /\ DeploySetV2[c] = Constructors[c]
<1> DEFINE plain == {"SetTokenCreator", "IntegrationRegistry", "BasicIssuanceModule",
                     "DebtIssuanceModule", "StreamingFeeModule", "GovernanceModule",
                     "AirdropModule", "SlippageIssuanceModule"}
<1>1. \A c \in plain : DeploySetV2[c] = <<"controller">> /\ c \in ControllerOnly
  BY DEF DeploySetV2, ControllerOnly
<1> DEFINE modules == {"SingleIndexModule", "GeneralIndexModule", "WrapModule", "CompoundLeverageModule"}
           others  == {"StandardTokenMock", "SetToken", "ComptrollerMock"}
           short   == {"Controller", "UniswapV2ExchangeAdapter", "ContractCallerMock", "WETH9"}
<1>2. \A c \in modules : DeploySetV2[c] = SpecialConstructors[c] /\ c \in DOMAIN SpecialConstructors
  BY DEF DeploySetV2, SpecialConstructors, SingleIndexModuleConstructor, GeneralIndexModuleConstructor,
         WrapModuleConstructor, CompoundLeverageModuleConstructor
<1>3. \A c \in others : DeploySetV2[c] = SpecialConstructors[c] /\ c \in DOMAIN SpecialConstructors
  BY DEF DeploySetV2, SpecialConstructors, StandardTokenMockConstructor, SetTokenConstructor,
         ComptrollerMockConstructor
<1>4. \A c \in short : DeploySetV2[c] = SpecialConstructors[c] /\ c \in DOMAIN SpecialConstructors
  BY DEF DeploySetV2, SpecialConstructors
<1>5. DOMAIN DeploySetV2 = plain \cup modules \cup others \cup short
  BY DEF DeploySetV2
<1> HIDE DEF plain, modules, others, short
<1> QED BY <1>1, <1>2, <1>3, <1>4, <1>5, PlainConstructors, SpecialConstructor

\* The mocks and external contracts that a fixture deploys.
LEMMA OtherHelpersAgree ==
  /\ \A c \in DOMAIN DeployMocks : c \in DOMAIN Constructors /\ DeployMocks[c] = Constructors[c]
  /\ \A c \in DOMAIN DeployExternalContracts :
       c \in DOMAIN Constructors /\ DeployExternalContracts[c] = Constructors[c]
<1>1. \A c \in {"StandardTokenMock", "OracleMock"} :
        DeployMocks[c] = SpecialConstructors[c] /\ c \in DOMAIN SpecialConstructors
  BY DEF DeployMocks, SpecialConstructors, StandardTokenMockConstructor
<1>2. \A c \in {"WETH9"} :
        DeployExternalContracts[c] = SpecialConstructors[c] /\ c \in DOMAIN SpecialConstructors
  BY DEF DeployExternalContracts, SpecialConstructors
<1>3. DOMAIN DeployMocks = {"StandardTokenMock", "OracleMock"} /\ DOMAIN DeployExternalContracts = {"WETH9"}
  BY DEF DeployMocks, DeployExternalContracts
<1> QED BY <1>1, <1>2, <1>3, SpecialConstructor

\* Every helper hands its arguments on in the order of the constructor.
LEMMA HelpersAgree ==
  \A helper \in DOMAIN Helpers : \A c \in DOMAIN Helpers[helper] :
    c \in DOMAIN Constructors /\ Helpers[helper][c] = Constructors[c]
<1>1. /\ DOMAIN Helpers = {"core", "modules", "setV2", "mocks", "external"}
      /\ Helpers["core"] = DeployCoreContracts /\ Helpers["modules"] = DeployModules
      /\ Helpers["setV2"] = DeploySetV2 /\ Helpers["mocks"] = DeployMocks
      /\ Helpers["external"] = DeployExternalContracts
  BY DEF Helpers
<1> QED BY <1>1, CoreAgrees, ModulesAgree, SetV2Agrees, OtherHelpersAgree

\* So the contract stores what each parameter was meant to be.
LEMMA StoredAsMeant ==
  ASSUME NEW helper \in DOMAIN Helpers, NEW c \in DOMAIN Helpers[helper], NEW given, NEW links
  PROVE  Create(helper, c, Meant(c, given), links).storage = Meant(c, given)
<1> DEFINE order == Constructors[c]
           meant == Meant(c, given)
           position(role) == CHOOSE i \in DOMAIN order : order[i] = role
<1>1. Helpers[helper][c] = order
  BY HelpersAgree
<1>2. DOMAIN meant = {order[i] : i \in DOMAIN order} /\ meant = [role \in DOMAIN meant |-> meant[role]]
  BY DEF Meant, ToSet
<1>3. Create(helper, c, meant, links).storage = [role \in DOMAIN meant |-> meant[order[position(role)]]]
  BY <1>1 DEF Create
<1> HIDE DEF meant, order
<1>4. ASSUME NEW role \in DOMAIN meant PROVE order[position(role)] = role
  BY <1>2, <1>4
<1> HIDE DEF position
<1> QED BY <1>2, <1>3, <1>4 DEF meant

-----------------------------------------------------------------------------
(* The contract under test: what the session created stays as it was, and   *)
(* every library the test deployed is among it.                             *)

Stages == {"building", "testing", "subject", "ready", "thrown"}

CreatedInv ==
  /\ created \in Seq(ToSet(created))
  /\ \A library \in DOMAIN libraries :
       /\ libraries[library][2] \in 1 .. Len(created)
       /\ created[libraries[library][2]].contract = library

SubjectInv ==
  /\ stage \in Stages
  /\ stage \in {"subject", "ready"} =>
       subject[1] \in DOMAIN Helpers /\ subject[2] \in DOMAIN Helpers[subject[1]]
  /\ stage = "ready" =>
       /\ created[Len(created)].storage = Meant(subject[2], SubjectGiven)
       /\ created[Len(created)].links = libraries

ArgumentsInv == CreatedInv /\ SubjectInv

\* A contract more changes none before it.
LEMMA ContractAppended ==
  ASSUME NEW s, s \in Seq(ToSet(s)), NEW new
  PROVE  /\ Append(s, new) \in Seq(ToSet(Append(s, new)))
         /\ Len(s) \in Nat /\ Len(Append(s, new)) = Len(s) + 1
         /\ Append(s, new)[Len(s) + 1] = new
         /\ \A i \in 1 .. Len(s) : i \in 1 .. Len(Append(s, new)) /\ Append(s, new)[i] = s[i]
<1> DEFINE T == ToSet(s) \cup {new}
           t == Append(s, new)
<1>1. s \in Seq(T) /\ new \in T
  OBVIOUS
<1>2. /\ Len(s) \in Nat /\ t \in Seq(T) /\ Len(t) = Len(s) + 1 /\ t[Len(s) + 1] = new
      /\ \A i \in 1 .. Len(s) : i \in 1 .. Len(t) /\ t[i] = s[i]
  <2> HIDE DEF T
  <2> QED BY <1>1
<1> HIDE DEF t, T
<1>3. DOMAIN t = 1 .. Len(t) /\ Len(t) \in Nat /\ t = [i \in 1 .. Len(t) |-> t[i]]
  BY <1>2
<1>4. t \in [1 .. Len(t) -> ToSet(t)]
  BY <1>3 DEF ToSet
<1>5. t \in Seq(ToSet(t))
  BY <1>3, <1>4
<1> QED BY <1>2, <1>5 DEF t

\* Nothing is created, or a contract: the libraries stay where they are.
LEMMA CreatedKept ==
  ASSUME CreatedInv, UNCHANGED libraries,
         created' = created \/ \E new : created' = Append(created, new)
  PROVE  CreatedInv'
<1>1. CASE created' = created
  BY <1>1 DEF CreatedInv
<1>2. ASSUME NEW new, created' = Append(created, new) PROVE CreatedInv'
  <2>1. /\ created' \in Seq(ToSet(created'))
        /\ \A i \in 1 .. Len(created) : i \in 1 .. Len(created') /\ created'[i] = created[i]
    BY <1>2, ContractAppended DEF CreatedInv
  <2> QED BY <2>1 DEF CreatedInv
<1> QED BY <1>1, <1>2

\* A library is deployed before the contract that is linked to it.
LEMMA DeployLibraryKeeps ==
  ASSUME CreatedInv, NEW library, DeployLibrary(library)
  PROVE  CreatedInv'
<1> DEFINE new == [contract |-> library, links |-> <<>>, storage |-> <<>>]
<1>1. /\ library \notin DOMAIN libraries
      /\ libraries' = Joined(libraries, [l \in {library} |-> NextAddress(library)])
      /\ created' = Append(created, new)
  BY DEF DeployLibrary
<1>2. DOMAIN libraries' = DOMAIN libraries \cup {library}
  BY <1>1 DEF Joined
<1>3. libraries'[library] = <<library, Len(created) + 1>>
  BY <1>1, <1>2 DEF Joined, NextAddress
<1>4. \A l \in DOMAIN libraries : libraries'[l] = libraries[l]
  BY <1>1, <1>2 DEF Joined
<1>5. new.contract = library
  OBVIOUS
<1> HIDE DEF new
<1>6. /\ created' \in Seq(ToSet(created'))
      /\ Len(created) \in Nat /\ Len(created') = Len(created) + 1
      /\ created'[Len(created) + 1] = new
      /\ \A i \in 1 .. Len(created) : i \in 1 .. Len(created') /\ created'[i] = created[i]
  BY <1>1, ContractAppended DEF CreatedInv
<1>7. libraries'[library][2] = Len(created) + 1 /\ Len(created) + 1 \in 1 .. Len(created')
  BY <1>3, <1>6
<1>8. ASSUME NEW l \in DOMAIN libraries
      PROVE  /\ libraries'[l][2] \in 1 .. Len(created')
             /\ created'[libraries'[l][2]].contract = l
  BY <1>4, <1>6 DEF CreatedInv
<1> QED BY <1>2, <1>5, <1>6, <1>7, <1>8 DEF CreatedInv

\* What is meant depends on the fields, which a test does not change.
LEMMA MeantKept ==
  ASSUME UNCHANGED <<fields, subject>>
  PROVE  Meant(subject[2], SubjectGiven)' = Meant(subject[2], SubjectGiven)
  BY DEF Meant, SubjectGiven, Value

\* The helper of the subject stores what the test means.
LEMMA DeploySubjectKeeps ==
  ASSUME ArgumentsInv, DeploySubject
  PROVE  ArgumentsInv'
<1>1. /\ stage = "subject" /\ CreatedInv
      /\ subject[1] \in DOMAIN Helpers /\ subject[2] \in DOMAIN Helpers[subject[1]]
  BY DEF DeploySubject, ArgumentsInv, SubjectInv
<1>2. CASE Throw
  <2>1. UNCHANGED <<created, libraries, subject>> /\ stage' = "thrown"
    BY <1>2 DEF Throw, world, testing
  <2>2. CreatedInv'
    BY <1>1, <2>1, CreatedKept
  <2> QED BY <2>1, <2>2 DEF ArgumentsInv, SubjectInv, Stages
<1>3. CASE ~Throw
  <2> DEFINE meant == Meant(subject[2], SubjectGiven)
             new == Create(subject[1], subject[2], meant, libraries)
  <2>1. /\ created' = Append(created, new) /\ stage' = "ready"
        /\ UNCHANGED <<fields, subject, libraries>>
    BY <1>3 DEF DeploySubject, testing
  <2>2. new.storage = meant
    BY <1>1, StoredAsMeant
  <2>3. new.links = libraries
    BY DEF Create
  <2>4. meant' = meant
    BY <2>1, MeantKept
  <2> HIDE DEF new
  <2>5. CreatedInv'
    BY <1>1, <2>1, CreatedKept
  <2>6. created'[Len(created')] = new
    BY <1>1, <2>1, ContractAppended DEF CreatedInv
  <2> HIDE DEF meant
  <2>7. created'[Len(created')].storage = meant' /\ created'[Len(created')].links = libraries'
    BY <2>1, <2>2, <2>3, <2>4, <2>6
  <2> QED BY <1>1, <2>1, <2>5, <2>7 DEF ArgumentsInv, SubjectInv, Stages, meant
<1> QED BY <1>2, <1>3

\* Every step preserves the invariant.
LEMMA ArgumentsStep ==
  ASSUME ArgumentsInv, [FixtureNext]_fixtureVars
  PROVE  ArgumentsInv'
<1>t. CreatedInv /\ SubjectInv
  BY DEF ArgumentsInv
<1>q. ASSUME UNCHANGED <<stage, fields, created, subject, libraries>> PROVE ArgumentsInv'
  <2>1. CreatedInv'
    BY <1>t, <1>q, CreatedKept
  <2>2. Meant(subject[2], SubjectGiven)' = Meant(subject[2], SubjectGiven)
    BY <1>q, MeantKept
  <2> QED BY <1>t, <1>q, <2>1, <2>2 DEF ArgumentsInv, SubjectInv
<1>b. ASSUME stage = "building", stage' \in {"building", "testing", "thrown"}, UNCHANGED libraries,
             created' = created \/ \E new : created' = Append(created, new)
      PROVE  ArgumentsInv'
  <2>1. CreatedInv'
    BY <1>t, <1>b, CreatedKept
  <2> QED BY <1>b, <2>1 DEF ArgumentsInv, SubjectInv, Stages
<1>1. CASE \E name \in DOMAIN Fixtures : ChooseFixture(name)
  BY <1>1, <1>q DEF ChooseFixture, world, testing
<1>2. CASE DeployStep
  <2>1. stage = "building"
    BY <1>2 DEF DeployStep, Step
  <2>2. CASE Throw
    BY <1>b, <2>1, <2>2 DEF Throw, world, testing
  <2>3. CASE ~Throw
    <3>1. stage' = stage /\ UNCHANGED libraries
      BY <1>2, <2>3 DEF DeployStep, GoOnBuilding, testing
    <3>2. \E new : created' = Append(created, new)
      BY <1>2, <2>3 DEF DeployStep
    <3> QED BY <1>b, <2>1, <3>1, <3>2
  <2> QED BY <2>2, <2>3
<1>3. CASE ApproveStep
  <2>1. stage = "building" /\ stage' \in {"building", "thrown"} /\ UNCHANGED <<created, libraries>>
    BY <1>3 DEF ApproveStep, Step, Throw, GoOnBuilding, world, testing
  <2> QED BY <1>b, <2>1
<1>4. CASE InitializeStep
  <2>1. stage = "building" /\ stage' \in {"building", "thrown"} /\ UNCHANGED <<created, libraries>>
    BY <1>4 DEF InitializeStep, Step, Throw, GoOnBuilding, world, testing
  <2> QED BY <1>b, <2>1
<1>5. CASE EndFixture
  BY <1>5, <1>b DEF EndFixture, world, testing
<1>6. ASSUME NEW choice \in Subjects, choice[2] \in DOMAIN Helpers[choice[1]],
             ChooseSubject(choice[1], choice[2])
      PROVE  ArgumentsInv'
  <2>1. /\ stage' = "subject" /\ subject' = <<choice[1], choice[2]>>
        /\ UNCHANGED <<created, libraries>>
    BY <1>6 DEF ChooseSubject, world
  <2>2. choice[1] \in DOMAIN Helpers
    BY DEF Subjects, Helpers
  <2>3. CreatedInv'
    BY <1>t, <2>1, CreatedKept
  <2>4. SubjectInv'
    BY <1>6, <2>1, <2>2 DEF SubjectInv, Stages
  <2> QED BY <2>3, <2>4 DEF ArgumentsInv
<1>7. ASSUME NEW library \in DeployLibraries, DeployLibrary(library) PROVE ArgumentsInv'
  <2>1. stage = "subject" /\ UNCHANGED <<stage, subject>>
    BY <1>7 DEF DeployLibrary, session
  <2>2. CreatedInv'
    BY <1>t, <1>7, DeployLibraryKeeps
  <2> QED BY <1>t, <2>1, <2>2 DEF ArgumentsInv, SubjectInv
<1>8. CASE DeploySubject
  BY <1>8, DeploySubjectKeeps
<1>9. CASE \E block \in Creators : MineOthers(block)
  BY <1>9, <1>q DEF MineOthers, session, world, testing
<1>10. CASE \E block \in OwnBlocks : CreateSetToken(block)
  BY <1>10, <1>q DEF CreateSetToken, session, world, testing
<1>11. CASE FindSetToken
  BY <1>11, <1>q DEF FindSetToken, session, world, testing
<1>12. CASE UNCHANGED fixtureVars
  BY <1>12, <1>q DEF fixtureVars, session, world, testing
<1> QED BY <1>1, <1>2, <1>3, <1>4, <1>5, <1>6, <1>7, <1>8, <1>9, <1>10, <1>11, <1>12
        DEF FixtureNext, FixtureStep

\* Nothing is created at first.
LEMMA ArgumentsStart == FixtureInit => ArgumentsInv
<1> SUFFICES ASSUME FixtureInit PROVE ArgumentsInv
  OBVIOUS
<1>1. created = <<>> /\ libraries = <<>> /\ stage = "building"
  BY DEF FixtureInit
<1>2. created \in Seq(ToSet(created)) /\ DOMAIN libraries = {}
  BY <1>1
<1> QED BY <1>1, <1>2 DEF ArgumentsInv, CreatedInv, SubjectInv, Stages

\* Whatever contract a helper deploys for a test, every argument reaches the
\* parameter of the constructor it is meant for, and every library it is linked
\* to is a contract of that name (deployModules.ts, deployCoreContracts.ts,
\* deploySetV2.ts).
THEOREM EveryArgumentReachesItsParameter == FixtureSpec => []ArgumentsReachTheirParameters
<1>1. ArgumentsInv /\ [FixtureNext]_fixtureVars => ArgumentsInv'
  BY ArgumentsStep
<1>2. ArgumentsInv => ArgumentsReachTheirParameters
  BY DEF ArgumentsInv, CreatedInv, SubjectInv, ArgumentsReachTheirParameters
<1> QED BY <1>1, <1>2, ArgumentsStart, PTL DEF FixtureSpec

-----------------------------------------------------------------------------
(* The scripts of the fixtures, step by step                               *)

\* The Controller is the first argument, and no other is for it.
GivenController(contract, given) ==
  /\ contract \in DOMAIN Constructors
  /\ DOMAIN given = DOMAIN Constructors[contract] /\ 1 \in DOMAIN given /\ given[1] = <<"controller">>
  /\ \A i \in DOMAIN given : Constructors[contract][i] = "controller" <=> i = 1

\* What makes a script build one system: the Controller comes first and only
\* once, initialize comes last, what it registers is built with the
\* Controller, and no field is deployed again after it was approved.
SoundScript(s, last, registers) ==
  /\ last \in Nat /\ last >= 2 /\ Len(s) = last /\ DOMAIN s = 1 .. last
  /\ s[last].fields = registers /\ registers \subseteq Fields /\ "controller" \notin registers
  /\ \A i \in 1 .. last : s[i].do = "initialize" <=> i = last
  /\ \A i \in 1 .. last : s[i].do = "deploy" => s[i].field \in Fields
  /\ \A i \in 1 .. last : s[i].do = "deploy" /\ s[i].field = "controller" => i = 1
  /\ \A i \in 1 .. last : s[i].do = "deploy" /\ s[i].field \in registers =>
       /\ s[i].helper \in DOMAIN Helpers
       /\ s[i].contract \in DOMAIN Helpers[s[i].helper]
       /\ GivenController(s[i].contract, s[i].given)
  /\ \A i, j \in 1 .. last :
       i < j /\ s[i].do = "approve" /\ s[j].do = "deploy" =>
         s[j].field \notin {s[i].token, s[i].spender}
  /\ \A i \in 1 .. last : s[i].do = "approve" => s[i].token \in Fields /\ s[i].spender \in Fields
  /\ \A token \in {"weth", "usdc", "wbtc", "dai"} : \E i \in 1 .. last :
       s[i] = Approve(token, "issuanceModule")

\* systemFixture.ts, step by step.
SystemSteps(s) ==
  /\ Len(s) = 22 /\ DOMAIN s = 1 .. 22
  /\ s[1] = Deploy("controller", "core", "Controller", <<<<"feeRecipient">>>>)
  /\ s[2] = Deploy("issuanceModule", "modules", "BasicIssuanceModule", Self)
  /\ s[3] = Deploy("weth", "external", "WETH9", <<>>)
  /\ s[4] = Deploy("usdc", "mocks", "StandardTokenMock", <<<<"owner">>>>)
  /\ s[5] = Deploy("wbtc", "mocks", "StandardTokenMock", <<<<"owner">>>>)
  /\ s[6] = Deploy("dai", "mocks", "StandardTokenMock", <<<<"owner">>>>)
  /\ s[7] = Deploy("ETH_USD_Oracle", "mocks", "OracleMock", <<>>)
  /\ s[8] = Deploy("USD_USD_Oracle", "mocks", "OracleMock", <<>>)
  /\ s[9] = Deploy("BTC_USD_Oracle", "mocks", "OracleMock", <<>>)
  /\ s[10] = Deploy("DAI_USD_Oracle", "mocks", "OracleMock", <<>>)
  /\ s[11] = Approve("weth", "issuanceModule")
  /\ s[12] = Approve("usdc", "issuanceModule")
  /\ s[13] = Approve("wbtc", "issuanceModule")
  /\ s[14] = Approve("dai", "issuanceModule")
  /\ s[15] = Deploy("integrationRegistry", "core", "IntegrationRegistry", Self)
  /\ s[16] = Deploy("factory", "core", "SetTokenCreator", Self)
  /\ s[17] = SystemPriceOracle
  /\ s[18] = Deploy("integrationRegistry", "core", "IntegrationRegistry", Self)
  /\ s[19] = Deploy("setValuer", "core", "SetValuer", Self)
  /\ s[20] = Deploy("streamingFeeModule", "modules", "StreamingFeeModule", Self)
  /\ s[21] = Deploy("navIssuanceModule", "modules", "CustomOracleNavIssuanceModule", SelfAndWeth)
  /\ s[22] = SystemInitialize

\* setFixture.ts, step by step.
SetSteps(s) ==
  /\ Len(s) = 27 /\ DOMAIN s = 1 .. 27
  /\ s[1] = Deploy("controller", "setV2", "Controller", <<<<"feeRecipient">>>>)
  /\ s[2] = Deploy("integrationRegistry", "setV2", "IntegrationRegistry", Self)
  /\ s[3] = Deploy("factory", "setV2", "SetTokenCreator", Self)
  /\ s[4] = Deploy("issuanceModule", "setV2", "BasicIssuanceModule", Self)
  /\ s[5] = Deploy("streamingFeeModule", "setV2", "StreamingFeeModule", Self)
  /\ s[6] = Deploy("debtIssuanceModule", "setV2", "DebtIssuanceModule", Self)
  /\ s[7] = Deploy("governanceModule", "setV2", "GovernanceModule", Self)
  /\ s[8] = Deploy("airdropModule", "setV2", "AirdropModule", Self)
  /\ s[9] = Deploy("slippageIssuanceModule", "setV2", "SlippageIssuanceModule", Self)
  /\ s[10] = Deploy("weth", "setV2", "WETH9", <<>>)
  /\ s[11] = Deploy("usdc", "setV2", "StandardTokenMock", <<<<"owner">>>>)
  /\ s[12] = Deploy("wbtc", "setV2", "StandardTokenMock", <<<<"owner">>>>)
  /\ s[13] = Deploy("dai", "setV2", "StandardTokenMock", <<<<"owner">>>>)
  /\ s[14] = Deploy("usdt", "setV2", "StandardTokenMock", <<<<"owner">>>>)
  /\ s[15] = Approve("weth", "issuanceModule") /\ s[20] = Approve("weth", "debtIssuanceModule")
  /\ s[16] = Approve("usdc", "issuanceModule") /\ s[21] = Approve("usdc", "debtIssuanceModule")
  /\ s[17] = Approve("wbtc", "issuanceModule") /\ s[22] = Approve("wbtc", "debtIssuanceModule")
  /\ s[18] = Approve("dai", "issuanceModule") /\ s[23] = Approve("dai", "debtIssuanceModule")
  /\ s[19] = Approve("usdt", "issuanceModule") /\ s[24] = Approve("usdt", "debtIssuanceModule")
  /\ s[25] = Deploy("generalIndexModule", "setV2", "GeneralIndexModule", SelfAndWeth)
  /\ s[26] = Deploy("wrapModule", "setV2", "WrapModule", SelfAndWeth)
  /\ s[27] = SetInitialize

\* The parts of systemFixture.ts, one after the other.
LEMMA SystemWrittenOut == SystemSteps(SystemFixture)
<1> DEFINE components ==
             <<Deploy("weth", "external", "WETH9", <<>>)>>
             \o <<Deploy("usdc", "mocks", "StandardTokenMock", <<<<"owner">>>>),
                  Deploy("wbtc", "mocks", "StandardTokenMock", <<<<"owner">>>>),
                  Deploy("dai", "mocks", "StandardTokenMock", <<<<"owner">>>>)>>
             \o <<Deploy("ETH_USD_Oracle", "mocks", "OracleMock", <<>>),
                  Deploy("USD_USD_Oracle", "mocks", "OracleMock", <<>>),
                  Deploy("BTC_USD_Oracle", "mocks", "OracleMock", <<>>),
                  Deploy("DAI_USD_Oracle", "mocks", "OracleMock", <<>>)>>
             \o <<Approve("weth", "issuanceModule"), Approve("usdc", "issuanceModule"),
                  Approve("wbtc", "issuanceModule"), Approve("dai", "issuanceModule")>>
           script == SystemBegin \o components \o SystemRegistryAndFactory \o <<SystemPriceOracle>>
                     \o SystemRest \o <<SystemInitialize>>
<1>1. TokenDeployments("mocks", <<"usdc", "wbtc", "dai">>) =
        <<Deploy("usdc", "mocks", "StandardTokenMock", <<<<"owner">>>>),
          Deploy("wbtc", "mocks", "StandardTokenMock", <<<<"owner">>>>),
          Deploy("dai", "mocks", "StandardTokenMock", <<<<"owner">>>>)>>
  BY DEF TokenDeployments
<1>2. Approvals(<<"weth", "usdc", "wbtc", "dai">>, "issuanceModule") =
        <<Approve("weth", "issuanceModule"), Approve("usdc", "issuanceModule"),
          Approve("wbtc", "issuanceModule"), Approve("dai", "issuanceModule")>>
  BY DEF Approvals
<1>3. SystemStandardComponents = components
  BY <1>1, <1>2, Zenon DEF SystemStandardComponents
<1>4. SystemFixture = script
  BY <1>3, Zenon DEF SystemFixture
<1>5. SystemSteps(script)
  BY DEF SystemSteps, SystemBegin, SystemRegistryAndFactory, SystemRest
<1> HIDE DEF script
<1> QED BY <1>4, <1>5

\* The parts of setFixture.ts, one after the other.
LEMMA SetWrittenOut == SetSteps(SetFixture)
<1> DEFINE components ==
             <<Deploy("weth", "setV2", "WETH9", <<>>)>>
             \o <<Deploy("usdc", "setV2", "StandardTokenMock", <<<<"owner">>>>),
                  Deploy("wbtc", "setV2", "StandardTokenMock", <<<<"owner">>>>),
                  Deploy("dai", "setV2", "StandardTokenMock", <<<<"owner">>>>),
                  Deploy("usdt", "setV2", "StandardTokenMock", <<<<"owner">>>>)>>
             \o <<Approve("weth", "issuanceModule"), Approve("usdc", "issuanceModule"),
                  Approve("wbtc", "issuanceModule"), Approve("dai", "issuanceModule"),
                  Approve("usdt", "issuanceModule")>>
             \o <<Approve("weth", "debtIssuanceModule"), Approve("usdc", "debtIssuanceModule"),
                  Approve("wbtc", "debtIssuanceModule"), Approve("dai", "debtIssuanceModule"),
                  Approve("usdt", "debtIssuanceModule")>>
           script ==
             <<Deploy("controller", "setV2", "Controller", <<<<"feeRecipient">>>>),
               Deploy("integrationRegistry", "setV2", "IntegrationRegistry", Self),
               Deploy("factory", "setV2", "SetTokenCreator", Self)>>
             \o SetModules \o components
             \o <<Deploy("generalIndexModule", "setV2", "GeneralIndexModule", SelfAndWeth),
                  Deploy("wrapModule", "setV2", "WrapModule", SelfAndWeth), SetInitialize>>
<1>1. Tail(SetTokens) = <<"usdc", "wbtc", "dai", "usdt">>
  BY DEF SetTokens
<1>2. TokenDeployments("setV2", <<"usdc", "wbtc", "dai", "usdt">>) =
        <<Deploy("usdc", "setV2", "StandardTokenMock", <<<<"owner">>>>),
          Deploy("wbtc", "setV2", "StandardTokenMock", <<<<"owner">>>>),
          Deploy("dai", "setV2", "StandardTokenMock", <<<<"owner">>>>),
          Deploy("usdt", "setV2", "StandardTokenMock", <<<<"owner">>>>)>>
  BY DEF TokenDeployments
<1>3. ASSUME NEW spender
      PROVE  Approvals(SetTokens, spender) =
               <<Approve("weth", spender), Approve("usdc", spender), Approve("wbtc", spender),
                 Approve("dai", spender), Approve("usdt", spender)>>
  BY DEF Approvals, SetTokens
<1>4. SetStandardComponents = components
  BY <1>1, <1>2, <1>3, Zenon DEF SetStandardComponents
<1>5. SetFixture = script
  BY <1>4, Zenon DEF SetFixture
<1>6. SetSteps(script)
  BY DEF SetSteps, SetModules
<1> HIDE DEF script
<1> QED BY <1>5, <1>6

\* The contracts of the modules helper, and the core contracts that are built
\* with the Controller, take it as their first parameter.
ControlledContracts ==
  DOMAIN DeployModules \cup {"SetTokenCreator", "IntegrationRegistry", "SetValuer", "PriceOracle"}

\* All of them do.
LEMMA ControllerComesFirst ==
  \A c \in ControlledContracts :
    /\ c \in DOMAIN Constructors /\ 1 \in DOMAIN Constructors[c]
    /\ \A i \in DOMAIN Constructors[c] : Constructors[c][i] = "controller" <=> i = 1
<1> DEFINE first(order) == 1 \in DOMAIN order /\ \A i \in DOMAIN order : order[i] = "controller" <=> i = 1
<1>1. \A c \in DOMAIN DeployPlainModules : first(DeployPlainModules[c])
  BY DEF DeployPlainModules
<1>2. \A c \in DOMAIN DeployLinkedModules : first(DeployLinkedModules[c])
  BY DEF DeployLinkedModules
<1>3. \A c \in {"SetTokenCreator", "IntegrationRegistry", "SetValuer", "PriceOracle"} :
        c \in DOMAIN DeployCoreContracts /\ first(DeployCoreContracts[c])
  BY DEF DeployCoreContracts
<1> HIDE DEF first
<1>4. \A c \in DOMAIN DeployModules : first(DeployModules[c])
  BY <1>1, <1>2 DEF DeployModules, Joined
<1>5. \A c \in ControlledContracts : c \in DOMAIN Constructors /\ first(Constructors[c])
  BY <1>3, <1>4, CoreAgrees, ModulesAgree DEF ControlledContracts
<1> QED BY <1>5 DEF first

\* A contract deployed by a fixture with nothing but the Controller, or with
\* the Controller and WETH.
LEMMA ControllerGiven ==
  /\ \A c \in ControllerOnly : GivenController(c, Self)
  /\ \A c \in {"CustomOracleNavIssuanceModule", "GeneralIndexModule", "WrapModule"} :
       GivenController(c, SelfAndWeth)
  /\ GivenController("PriceOracle", SystemPriceOracle.given)
<1>1. \A c \in ControllerOnly : GivenController(c, Self)
  BY PlainConstructors DEF GivenController, Self
<1>2. \A c \in {"CustomOracleNavIssuanceModule", "GeneralIndexModule", "WrapModule"} :
        c \in DOMAIN SpecialConstructors /\ SpecialConstructors[c] = <<"controller", "weth">>
  BY DEF SpecialConstructors, CustomOracleNavIssuanceModuleConstructor, GeneralIndexModuleConstructor,
         WrapModuleConstructor
<1>3. \A c \in {"CustomOracleNavIssuanceModule", "GeneralIndexModule", "WrapModule"} :
        GivenController(c, SelfAndWeth)
  BY <1>2, SpecialConstructor DEF GivenController, SelfAndWeth
<1>4. "PriceOracle" \in DOMAIN SpecialConstructors
      /\ SpecialConstructors["PriceOracle"] = PriceOracleConstructor
  BY DEF SpecialConstructors
<1>5. Constructors["PriceOracle"] = PriceOracleConstructor /\ "PriceOracle" \in DOMAIN Constructors
  BY <1>4, SpecialConstructor
<1>6. GivenController("PriceOracle", SystemPriceOracle.given)
  BY <1>5 DEF GivenController, SystemPriceOracle, Deploy, PriceOracleConstructor
<1> QED BY <1>1, <1>3, <1>6

\* What the fixtures register.
SystemRegisters ==
  {"factory", "issuanceModule", "streamingFeeModule", "navIssuanceModule", "integrationRegistry",
   "priceOracle", "setValuer"}

SetRegisters ==
  {"factory", "issuanceModule", "streamingFeeModule", "debtIssuanceModule", "governanceModule",
   "generalIndexModule", "airdropModule", "wrapModule", "slippageIssuanceModule",
   "integrationRegistry"}

\* What each step of systemFixture.ts deploys or approves.
SystemOutline(s) ==
  /\ s[1].do = "deploy" /\ s[1].field = "controller"
  /\ s[2].do = "deploy" /\ s[2].field = "issuanceModule"
  /\ s[3].do = "deploy" /\ s[3].field = "weth"
  /\ s[4].do = "deploy" /\ s[4].field = "usdc"
  /\ s[5].do = "deploy" /\ s[5].field = "wbtc"
  /\ s[6].do = "deploy" /\ s[6].field = "dai"
  /\ s[7].do = "deploy" /\ s[7].field = "ETH_USD_Oracle"
  /\ s[8].do = "deploy" /\ s[8].field = "USD_USD_Oracle"
  /\ s[9].do = "deploy" /\ s[9].field = "BTC_USD_Oracle"
  /\ s[10].do = "deploy" /\ s[10].field = "DAI_USD_Oracle"
  /\ s[11].do = "approve" /\ s[11].token = "weth" /\ s[11].spender = "issuanceModule"
  /\ s[12].do = "approve" /\ s[12].token = "usdc" /\ s[12].spender = "issuanceModule"
  /\ s[13].do = "approve" /\ s[13].token = "wbtc" /\ s[13].spender = "issuanceModule"
  /\ s[14].do = "approve" /\ s[14].token = "dai" /\ s[14].spender = "issuanceModule"
  /\ s[15].do = "deploy" /\ s[15].field = "integrationRegistry"
  /\ s[16].do = "deploy" /\ s[16].field = "factory"
  /\ s[17].do = "deploy" /\ s[17].field = "priceOracle"
  /\ s[18].do = "deploy" /\ s[18].field = "integrationRegistry"
  /\ s[19].do = "deploy" /\ s[19].field = "setValuer"
  /\ s[20].do = "deploy" /\ s[20].field = "streamingFeeModule"
  /\ s[21].do = "deploy" /\ s[21].field = "navIssuanceModule"
  /\ s[22].do = "initialize"

\* The outline of the script is read off its steps.
LEMMA SystemOutlined == ASSUME NEW s, SystemSteps(s) PROVE SystemOutline(s)
  BY DEF SystemSteps, SystemOutline, Deploy, Approve, SystemPriceOracle, SystemInitialize, Initialize

\* systemFixture.ts builds one system.
LEMMA SystemIsSound == SoundScript(SystemFixture, 22, SystemRegisters)
<1> DEFINE s == SystemFixture
           F == SystemRegisters
           G == {"controller", "weth", "usdc", "wbtc", "dai", "ETH_USD_Oracle", "USD_USD_Oracle",
                 "BTC_USD_Oracle", "DAI_USD_Oracle"}
<1>1. SystemSteps(s)
  BY SystemWrittenOut
<1> HIDE DEF s
<1>o. SystemOutline(s)
  BY <1>1, SystemOutlined
<1>2. Len(s) = 22 /\ DOMAIN s = 1 .. 22 /\ s[22].fields = F
  BY <1>1 DEF SystemSteps, SystemRegisters, SystemInitialize, Initialize
<1>3. F \cup G \subseteq Fields /\ "controller" \notin F /\ {"core", "modules"} \subseteq DOMAIN Helpers
  BY DEF SystemRegisters, Fields, Helpers
<1>4. \A i \in 1 .. 22 : s[i].do = "initialize" <=> i = 22
  BY <1>o DEF SystemOutline
<1>5. \A i \in 1 .. 22 : s[i].do = "deploy" /\ s[i].field = "controller" => i = 1
  BY <1>o DEF SystemOutline
<1>6. \A i \in 1 .. 22 : s[i].do = "deploy" => s[i].field \in F \cup G
  BY <1>o DEF SystemOutline, SystemRegisters
<1>7. ASSUME NEW i \in 1 .. 22, s[i].do = "deploy", s[i].field \in F
      PROVE  /\ s[i].helper \in {"core", "modules"}
             /\ s[i].contract \in DOMAIN Helpers[s[i].helper]
             /\ GivenController(s[i].contract, s[i].given)
  <2>1. i \in {2, 15, 16, 17, 18, 19, 20, 21}
    BY <1>o, <1>7 DEF SystemOutline, SystemRegisters
  <2>2. /\ {"SetTokenCreator", "IntegrationRegistry", "SetValuer", "PriceOracle"}
               \subseteq DOMAIN Helpers["core"]
        /\ {"BasicIssuanceModule", "StreamingFeeModule", "CustomOracleNavIssuanceModule"}
               \subseteq DOMAIN Helpers["modules"]
    BY DEF Helpers, DeployCoreContracts, DeployModules, Joined, DeployPlainModules
  <2>3. {"SetTokenCreator", "IntegrationRegistry", "SetValuer", "BasicIssuanceModule",
         "StreamingFeeModule"} \subseteq ControllerOnly
    BY DEF ControllerOnly
  <2>4. \A j \in {2, 20} : /\ s[j].helper = "modules" /\ s[j].given = Self
                           /\ s[j].contract \in {"BasicIssuanceModule", "StreamingFeeModule"}
    BY <1>1 DEF SystemSteps, Deploy
  <2>5. \A j \in {15, 16, 18, 19} :
          /\ s[j].helper = "core" /\ s[j].given = Self
          /\ s[j].contract \in {"IntegrationRegistry", "SetTokenCreator", "SetValuer"}
    BY <1>1, SMTT(30) DEF SystemSteps, Deploy
  <2>6. /\ s[21].helper = "modules" /\ s[21].given = SelfAndWeth
        /\ s[21].contract = "CustomOracleNavIssuanceModule"
    BY <1>1 DEF SystemSteps, Deploy
  <2>7. s[17].helper = "core" /\ s[17].contract = "PriceOracle" /\ s[17].given = SystemPriceOracle.given
    BY <1>1 DEF SystemSteps, SystemPriceOracle, Deploy
  <2> QED BY <2>1, <2>2, <2>3, <2>4, <2>5, <2>6, <2>7, ControllerGiven
<1>8. \A i, j \in 1 .. 22 :
        i < j /\ s[i].do = "approve" /\ s[j].do = "deploy" =>
          s[j].field \notin {s[i].token, s[i].spender}
  <2>1. \A i \in 1 .. 22 : s[i].do = "approve" =>
          /\ i >= 11 /\ s[i].token \in {"weth", "usdc", "wbtc", "dai"}
          /\ s[i].spender = "issuanceModule"
    BY <1>o DEF SystemOutline
  <2>2. \A j \in 11 .. 22 : s[j].do = "deploy" =>
          s[j].field \notin {"weth", "usdc", "wbtc", "dai", "issuanceModule"}
    BY <1>o DEF SystemOutline
  <2> QED BY <2>1, <2>2
<1>9. \A i \in 1 .. 22 : s[i].do = "approve" => s[i].token \in Fields /\ s[i].spender \in Fields
  BY <1>o DEF SystemOutline, Fields
<1>10. \A token \in {"weth", "usdc", "wbtc", "dai"} : \E i \in 1 .. 22 :
         s[i] = Approve(token, "issuanceModule")
  BY <1>1 DEF SystemSteps
<1>11. \A i \in 1 .. 22 : s[i].do = "deploy" => s[i].field \in Fields
  BY <1>3, <1>6
<1>12. F \subseteq Fields /\ \A i \in 1 .. 22 : s[i].do = "deploy" /\ s[i].field \in F =>
         /\ s[i].helper \in DOMAIN Helpers
         /\ s[i].contract \in DOMAIN Helpers[s[i].helper]
         /\ GivenController(s[i].contract, s[i].given)
  BY <1>3, <1>7
<1>13. 22 \in Nat /\ 22 >= 2
  OBVIOUS
<1> HIDE DEF F, G
<1> QED BY <1>2, <1>3, <1>4, <1>5, <1>8, <1>9, <1>10, <1>11, <1>12, <1>13, Zenon DEF SoundScript, s, F

\* What each step of setFixture.ts deploys or approves.
SetOutline(s) ==
  /\ s[1].do = "deploy" /\ s[1].field = "controller"
  /\ s[2].do = "deploy" /\ s[2].field = "integrationRegistry"
  /\ s[3].do = "deploy" /\ s[3].field = "factory"
  /\ s[4].do = "deploy" /\ s[4].field = "issuanceModule"
  /\ s[5].do = "deploy" /\ s[5].field = "streamingFeeModule"
  /\ s[6].do = "deploy" /\ s[6].field = "debtIssuanceModule"
  /\ s[7].do = "deploy" /\ s[7].field = "governanceModule"
  /\ s[8].do = "deploy" /\ s[8].field = "airdropModule"
  /\ s[9].do = "deploy" /\ s[9].field = "slippageIssuanceModule"
  /\ s[10].do = "deploy" /\ s[10].field = "weth"
  /\ s[11].do = "deploy" /\ s[11].field = "usdc"
  /\ s[12].do = "deploy" /\ s[12].field = "wbtc"
  /\ s[13].do = "deploy" /\ s[13].field = "dai"
  /\ s[14].do = "deploy" /\ s[14].field = "usdt"
  /\ s[15].do = "approve" /\ s[15].token = "weth" /\ s[15].spender = "issuanceModule"
  /\ s[16].do = "approve" /\ s[16].token = "usdc" /\ s[16].spender = "issuanceModule"
  /\ s[17].do = "approve" /\ s[17].token = "wbtc" /\ s[17].spender = "issuanceModule"
  /\ s[18].do = "approve" /\ s[18].token = "dai" /\ s[18].spender = "issuanceModule"
  /\ s[19].do = "approve" /\ s[19].token = "usdt" /\ s[19].spender = "issuanceModule"
  /\ s[20].do = "approve" /\ s[20].token = "weth" /\ s[20].spender = "debtIssuanceModule"
  /\ s[21].do = "approve" /\ s[21].token = "usdc" /\ s[21].spender = "debtIssuanceModule"
  /\ s[22].do = "approve" /\ s[22].token = "wbtc" /\ s[22].spender = "debtIssuanceModule"
  /\ s[23].do = "approve" /\ s[23].token = "dai" /\ s[23].spender = "debtIssuanceModule"
  /\ s[24].do = "approve" /\ s[24].token = "usdt" /\ s[24].spender = "debtIssuanceModule"
  /\ s[25].do = "deploy" /\ s[25].field = "generalIndexModule"
  /\ s[26].do = "deploy" /\ s[26].field = "wrapModule"
  /\ s[27].do = "initialize"

\* The outline of the script is read off its steps.
LEMMA SetOutlined == ASSUME NEW s, SetSteps(s) PROVE SetOutline(s)
  BY DEF SetSteps, SetOutline, Deploy, Approve, SetInitialize, Initialize

\* setFixture.ts builds one system.
LEMMA SetIsSound == SoundScript(SetFixture, 27, SetRegisters)
<1> DEFINE s == SetFixture
           F == SetRegisters
           G == {"controller", "weth", "usdc", "wbtc", "dai", "usdt"}
<1>1. SetSteps(s)
  BY SetWrittenOut
<1> HIDE DEF s
<1>o. SetOutline(s)
  BY <1>1, SetOutlined
<1>2. Len(s) = 27 /\ DOMAIN s = 1 .. 27 /\ s[27].fields = F
  BY <1>1 DEF SetSteps, SetRegisters, SetInitialize, Initialize
<1>3. F \cup G \subseteq Fields /\ "controller" \notin F /\ "setV2" \in DOMAIN Helpers
  BY DEF SetRegisters, Fields, Helpers
<1>4. \A i \in 1 .. 27 : s[i].do = "initialize" <=> i = 27
  BY <1>o DEF SetOutline
<1>5. \A i \in 1 .. 27 : s[i].do = "deploy" /\ s[i].field = "controller" => i = 1
  BY <1>o DEF SetOutline
<1>6. \A i \in 1 .. 27 : s[i].do = "deploy" => s[i].field \in F \cup G
  BY <1>o DEF SetOutline, SetRegisters
<1>7. ASSUME NEW i \in 1 .. 27, s[i].do = "deploy", s[i].field \in F
      PROVE  /\ s[i].helper = "setV2"
             /\ s[i].contract \in DOMAIN Helpers[s[i].helper]
             /\ GivenController(s[i].contract, s[i].given)
  <2> DEFINE plain == {"IntegrationRegistry", "SetTokenCreator", "BasicIssuanceModule",
                       "StreamingFeeModule", "DebtIssuanceModule", "GovernanceModule",
                       "AirdropModule", "SlippageIssuanceModule"}
  <2>1. i \in {2, 3, 4, 5} \/ i \in {6, 7, 8, 9} \/ i \in {25, 26}
    BY <1>o, <1>7 DEF SetOutline, SetRegisters
  <2>2. plain \cup {"GeneralIndexModule", "WrapModule"} \subseteq DOMAIN Helpers["setV2"]
    BY DEF Helpers, DeploySetV2
  <2>3. plain \subseteq ControllerOnly
    BY DEF ControllerOnly
  <2>4. \A j \in {2, 3, 4, 5} : s[j].helper = "setV2" /\ s[j].given = Self /\ s[j].contract \in plain
    BY SMTT(30), <1>1 DEF SetSteps, Deploy
  <2>5. \A j \in {6, 7, 8, 9} : s[j].helper = "setV2" /\ s[j].given = Self /\ s[j].contract \in plain
    BY SMTT(30), <1>1 DEF SetSteps, Deploy
  <2>6. \A j \in {25, 26} : /\ s[j].helper = "setV2" /\ s[j].given = SelfAndWeth
                            /\ s[j].contract \in {"GeneralIndexModule", "WrapModule"}
    BY SMTT(30), <1>1 DEF SetSteps, Deploy
  <2> HIDE DEF plain
  <2> QED BY <2>1, <2>2, <2>3, <2>4, <2>5, <2>6, ControllerGiven
<1>8. \A i, j \in 1 .. 27 :
        i < j /\ s[i].do = "approve" /\ s[j].do = "deploy" =>
          s[j].field \notin {s[i].token, s[i].spender}
  <2>1. \A i \in 1 .. 27 : s[i].do = "approve" =>
          /\ i >= 15 /\ s[i].token \in G \ {"controller"}
          /\ s[i].spender \in {"issuanceModule", "debtIssuanceModule"}
    BY <1>o DEF SetOutline
  <2>2. \A j \in 15 .. 27 : s[j].do = "deploy" => s[j].field \in {"generalIndexModule", "wrapModule"}
    BY <1>o DEF SetOutline
  <2> QED BY <2>1, <2>2
<1>9. \A i \in 1 .. 27 : s[i].do = "approve" => s[i].token \in Fields /\ s[i].spender \in Fields
  BY <1>o DEF SetOutline, Fields
<1>10. \A token \in {"weth", "usdc", "wbtc", "dai"} : \E i \in 1 .. 27 :
         s[i] = Approve(token, "issuanceModule")
  BY SMTT(30), <1>1 DEF SetSteps
<1>11. \A i \in 1 .. 27 : s[i].do = "deploy" => s[i].field \in Fields
  BY <1>3, <1>6
<1>12. F \subseteq Fields /\ \A i \in 1 .. 27 : s[i].do = "deploy" /\ s[i].field \in F =>
         /\ s[i].helper \in DOMAIN Helpers
         /\ s[i].contract \in DOMAIN Helpers[s[i].helper]
         /\ GivenController(s[i].contract, s[i].given)
  BY <1>3, <1>7
<1>13. 27 \in Nat /\ 27 >= 2
  OBVIOUS
<1> HIDE DEF F, G
<1> QED BY <1>2, <1>3, <1>4, <1>5, <1>8, <1>9, <1>10, <1>11, <1>12, <1>13, Zenon DEF SoundScript, s, F

\* What the initialize step of a fixture registers.
Registers(name) == IF name = "system" THEN SystemRegisters ELSE SetRegisters

\* Each fixture, with what it registers.
LEMMA FixturesAreSound ==
  \A name \in DOMAIN Fixtures : SoundScript(Fixtures[name], Len(Fixtures[name]), Registers(name))
<1>1. DOMAIN Fixtures = {"system", "set"} /\ Fixtures["system"] = SystemFixture
      /\ Fixtures["set"] = SetFixture
  BY DEF Fixtures
<1>2. Len(SystemFixture) = 22 /\ Len(SetFixture) = 27
  BY SystemIsSound, SetIsSound DEF SoundScript
<1> QED BY <1>1, <1>2, SystemIsSound, SetIsSound DEF Registers

-----------------------------------------------------------------------------
(* The bring-up: behind the cursor of the script every field that will be   *)
(* registered was built with the Controller, and what was approved is the   *)
(* field the tests will use.                                                *)

BuiltWithController(address) ==
  /\ address[2] \in 1 .. Len(created)
  /\ created[address[2]].storage["controller"] = <<fields["controller"]>>

BringUpInv ==
  /\ fixture \in DOMAIN Fixtures \cup {"none"} /\ at \in Nat /\ at >= 1
  /\ fixture = "none" => at = 1 /\ stage = "building"
  /\ DOMAIN fields = Fields
  /\ at = 1 => \A field \in Fields : fields[field] = Undefined
  /\ \A address \in registered : BuiltWithController(address)
  /\ fixture = "none" => registered = {}
  /\ fixture # "none" =>
       /\ \A field \in Registers(fixture) :
            fields[field] # Undefined => BuiltWithController(fields[field])
       /\ \A i \in 1 .. Len(Fixtures[fixture]) : i < at /\ Fixtures[fixture][i].do = "approve" =>
            <<fields[Fixtures[fixture][i].token], fields[Fixtures[fixture][i].spender]>> \in allowances
       /\ at <= Len(Fixtures[fixture]) => registered = {}
       /\ at > Len(Fixtures[fixture]) => \A field \in Registers(fixture) : fields[field] \in registered
       /\ stage \notin {"building", "thrown"} => at > Len(Fixtures[fixture])

\* The Controller a contract is given is the one of the fixture.
LEMMA MeantController ==
  ASSUME NEW contract, NEW given, GivenController(contract, given)
  PROVE  Meant(contract, given)["controller"] = <<fields["controller"]>>
<1> DEFINE order == Constructors[contract]
           position == CHOOSE i \in DOMAIN given : order[i] = "controller"
<1>1. /\ DOMAIN given = DOMAIN order /\ 1 \in DOMAIN given /\ given[1] = <<"controller">>
      /\ \A i \in DOMAIN given : order[i] = "controller" <=> i = 1
  BY DEF GivenController
<1>2. position = 1 /\ "controller" \in ToSet(order)
  BY <1>1 DEF ToSet
<1>3. Meant(contract, given)["controller"] =
        [i \in DOMAIN given[position] |-> Value(given[position][i])]
  BY <1>2 DEF Meant
<1> HIDE DEF position
<1>4. Value("controller") = fields["controller"]
  BY DEF Value, Fields
<1>5. DOMAIN <<"controller">> = {1} /\ <<"controller">>[1] = "controller"
  OBVIOUS
<1>6. Meant(contract, given)["controller"] = [i \in {1} |-> fields["controller"]]
  BY <1>1, <1>2, <1>3, <1>4, <1>5
<1> QED BY <1>6

\* What was built with the Controller stays so while contracts are added.
LEMMA StaysBuilt ==
  ASSUME CreatedInv, fields'["controller"] = fields["controller"],
         NEW new, created' = Append(created, new), NEW address, BuiltWithController(address)
  PROVE  /\ address[2] \in 1 .. Len(created')
         /\ created'[address[2]].storage["controller"] = <<fields'["controller"]>>
<1>1. \A i \in 1 .. Len(created) : i \in 1 .. Len(created') /\ created'[i] = created[i]
  BY ContractAppended DEF CreatedInv
<1> QED BY <1>1 DEF BuiltWithController

\* A contract that is given the Controller is built with it.
LEMMA NewlyBuilt ==
  ASSUME CreatedInv, fields'["controller"] = fields["controller"],
         NEW helper \in DOMAIN Helpers, NEW contract \in DOMAIN Helpers[helper],
         NEW given, NEW links, GivenController(contract, given),
         created' = Append(created, Create(helper, contract, Meant(contract, given), links))
  PROVE  /\ NextAddress(contract)[2] \in 1 .. Len(created')
         /\ created'[NextAddress(contract)[2]].storage["controller"] = <<fields'["controller"]>>
<1> DEFINE new == Create(helper, contract, Meant(contract, given), links)
<1>1. new.storage = Meant(contract, given)
  BY StoredAsMeant
<1>2. new.storage["controller"] = <<fields["controller"]>>
  BY <1>1, MeantController
<1> HIDE DEF new
<1>3. created' = Append(created, new)
  BY DEF new
<1>4. Len(created) \in Nat /\ Len(created') = Len(created) + 1 /\ created'[Len(created) + 1] = new
  BY <1>3, ContractAppended DEF CreatedInv
<1>5. NextAddress(contract)[2] = Len(created) + 1 /\ Len(created) + 1 \in 1 .. Len(created')
  BY <1>4 DEF NextAddress
<1> QED BY <1>2, <1>4, <1>5

\* A step of the script that deploys.
LEMMA DeployStepBrings ==
  ASSUME CreatedInv, BringUpInv, DeployStep, ~Throw, fixture \in DOMAIN Fixtures
  PROVE  BringUpInv'
<1> DEFINE s == Fixtures[fixture]
           n == Len(s)
           F == Registers(fixture)
           step == s[at]
           meant == Meant(step.contract, step.given)
           new == Create(step.helper, step.contract, meant, <<>>)
<1>1. /\ stage = "building" /\ at <= n /\ step.do = "deploy" /\ fixture # "none"
      /\ fields' = [fields EXCEPT ![step.field] = NextAddress(step.contract)]
      /\ created' = Append(created, new)
      /\ UNCHANGED <<registered, allowances, fixture, stage>> /\ at' = at + 1
  BY DEF DeployStep, Step, GoOnBuilding
<1>2. SoundScript(s, n, F)
  BY FixturesAreSound
<1>3. n \in Nat /\ at \in 1 .. n /\ at # n
  <2>1. n \in Nat /\ n >= 2 /\ \A i \in 1 .. n : s[i].do = "initialize" <=> i = n
    BY <1>2 DEF SoundScript
  <2>2. at \in Nat /\ at >= 1
    BY DEF BringUpInv
  <2> QED BY <1>1, <2>1, <2>2
<1>4. /\ step.field \in Fields /\ (step.field = "controller" => at = 1)
      /\ F \subseteq Fields /\ "controller" \notin F
  BY <1>1, <1>2, <1>3 DEF SoundScript
<1>5. /\ DOMAIN fields' = Fields /\ fields'[step.field] = NextAddress(step.contract)
      /\ \A field \in Fields : field # step.field => fields'[field] = fields[field]
  BY <1>1, <1>4 DEF BringUpInv
<1>6. registered = {} /\ registered' = {}
  BY <1>1, <1>3 DEF BringUpInv
<1>7. ASSUME NEW field \in F, fields'[field] # Undefined
      PROVE  BuiltWithController(fields[field])'
  <2>1. field \in Fields /\ field # "controller" /\ "controller" \in Fields
    BY <1>4 DEF Fields
  <2>2. CASE step.field = "controller"
    <3>1. fields'[field] = Undefined
      BY <1>4, <1>5, <2>1, <2>2 DEF BringUpInv
    <3> QED BY <3>1, <1>7
  <2>3. CASE step.field = field
    <3>1. /\ step.helper \in DOMAIN Helpers /\ step.contract \in DOMAIN Helpers[step.helper]
          /\ GivenController(step.contract, step.given)
      BY <1>1, <1>2, <1>3, <1>7, <2>3 DEF SoundScript
    <3>2. fields'["controller"] = fields["controller"]
      BY <1>5, <2>1, <2>3
    <3> DEFINE contract == step.contract
               given == step.given
               helper == step.helper
    <3>3. created' = Append(created, Create(helper, contract, Meant(contract, given), <<>>))
      BY <1>1
    <3> HIDE DEF contract, given, helper
    <3>4. /\ NextAddress(contract)[2] \in 1 .. Len(created')
          /\ created'[NextAddress(contract)[2]].storage["controller"] = <<fields'["controller"]>>
      BY <3>1, <3>2, <3>3, NewlyBuilt DEF contract, given, helper
    <3> QED BY <1>5, <2>3, <3>4 DEF BuiltWithController, contract
  <2>4. CASE step.field \notin {"controller", field}
    <3>1. fields'["controller"] = fields["controller"] /\ fields'[field] = fields[field]
      BY <1>5, <2>1, <2>4
    <3>2. BuiltWithController(fields[field])
      BY <1>1, <1>7, <3>1 DEF BringUpInv
    <3> DEFINE address == fields[field]
    <3>3. BuiltWithController(address)
      BY <3>2
    <3> HIDE DEF address
    <3>4. /\ address[2] \in 1 .. Len(created')
          /\ created'[address[2]].storage["controller"] = <<fields'["controller"]>>
      BY <1>1, <3>1, <3>3, StaysBuilt
    <3> QED BY <3>1, <3>4 DEF BuiltWithController, address
  <2> QED BY <2>2, <2>3, <2>4
<1>8. ASSUME NEW i \in 1 .. n, i < at', s[i].do = "approve"
      PROVE  <<fields'[s[i].token], fields'[s[i].spender]>> \in allowances'
  <2>1. i < at
    BY <1>1, <1>3, <1>8
  <2>2. step.field \notin {s[i].token, s[i].spender} /\ s[i].token \in Fields /\ s[i].spender \in Fields
    BY <1>1, <1>2, <1>3, <1>8, <2>1 DEF SoundScript
  <2>3. <<fields[s[i].token], fields[s[i].spender]>> \in allowances
    BY <1>1, <1>8, <2>1 DEF BringUpInv
  <2> QED BY <1>1, <1>5, <2>2, <2>3
<1>9. at' \in Nat /\ at' >= 1 /\ at' # 1 /\ ~(at' > n)
  BY <1>1, <1>3
<1>10. fixture' = fixture /\ stage' = "building" /\ fixture' \in DOMAIN Fixtures /\ fixture' # "none"
  BY <1>1
<1> HIDE DEF step, meant, new
<1> QED BY <1>5, <1>6, <1>7, <1>8, <1>9, <1>10 DEF BringUpInv

\* A step of the script that approves.
LEMMA ApproveStepBrings ==
  ASSUME BringUpInv, ApproveStep, ~Throw, fixture \in DOMAIN Fixtures
  PROVE  BringUpInv'
<1> DEFINE s == Fixtures[fixture]
           n == Len(s)
           F == Registers(fixture)
           step == s[at]
<1>1. /\ stage = "building" /\ at <= n /\ step.do = "approve" /\ fixture # "none"
      /\ allowances' = allowances \cup {<<fields[step.token], fields[step.spender]>>}
      /\ UNCHANGED <<fields, created, registered, fixture, stage>> /\ at' = at + 1
  BY DEF ApproveStep, Step, GoOnBuilding
<1>2. SoundScript(s, n, F)
  BY FixturesAreSound
<1>3. n \in Nat /\ at \in 1 .. n /\ at # n
  <2>1. n \in Nat /\ n >= 2 /\ \A i \in 1 .. n : s[i].do = "initialize" <=> i = n
    BY <1>2 DEF SoundScript
  <2>2. at \in Nat /\ at >= 1
    BY DEF BringUpInv
  <2> QED BY <1>1, <2>1, <2>2
<1>4. registered' = {} /\ DOMAIN fields' = Fields
  BY <1>1, <1>3 DEF BringUpInv
<1>5. \A field \in F : fields'[field] # Undefined => BuiltWithController(fields[field])'
  BY <1>1 DEF BringUpInv, BuiltWithController
<1>6. ASSUME NEW i \in 1 .. n, i < at', s[i].do = "approve"
      PROVE  <<fields'[s[i].token], fields'[s[i].spender]>> \in allowances'
  <2>1. CASE i = at
    BY <1>1, <2>1
  <2>2. CASE i # at
    <3>1. i < at
      BY <1>1, <1>3, <1>6, <2>2
    <3>2. <<fields[s[i].token], fields[s[i].spender]>> \in allowances
      BY <1>1, <1>6, <3>1 DEF BringUpInv
    <3> QED BY <1>1, <3>2
  <2> QED BY <2>1, <2>2
<1>7. at' \in Nat /\ at' >= 1 /\ at' # 1 /\ ~(at' > n)
  BY <1>1, <1>3
<1>8. fixture' = fixture /\ stage' = "building" /\ fixture' \in DOMAIN Fixtures /\ fixture' # "none"
  BY <1>1
<1> HIDE DEF step
<1> QED BY <1>4, <1>5, <1>6, <1>7, <1>8 DEF BringUpInv

\* The last step of the script registers the fields with the Controller.
LEMMA InitializeStepBrings ==
  ASSUME BringUpInv, InitializeStep, ~Throw, fixture \in DOMAIN Fixtures
  PROVE  BringUpInv'
<1> DEFINE s == Fixtures[fixture]
           n == Len(s)
           F == Registers(fixture)
<1>1. SoundScript(s, n, F)
  BY FixturesAreSound
<1>2. /\ n \in Nat /\ n >= 2 /\ s[n].fields = F
      /\ \A i \in 1 .. n : s[i].do = "initialize" <=> i = n
  BY <1>1 DEF SoundScript
<1>3. stage = "building" /\ at <= n /\ s[at].do = "initialize" /\ fixture # "none"
  BY DEF InitializeStep, Step
<1>4. at = n
  BY <1>2, <1>3 DEF BringUpInv
<1>5. /\ Undefined \notin {fields[field] : field \in F}
      /\ registered' = {fields[field] : field \in F}
      /\ UNCHANGED <<fields, created, allowances, fixture, stage>> /\ at' = at + 1
  BY <1>2, <1>4 DEF InitializeStep, GoOnBuilding
<1>6. \A field \in F : fields[field] # Undefined /\ BuiltWithController(fields[field])'
  BY <1>3, <1>5 DEF BringUpInv, BuiltWithController
<1>7. ASSUME NEW address \in registered' PROVE BuiltWithController(address)'
  <2>1. PICK field \in F : address = fields[field]
    BY <1>5
  <2> QED BY <1>5, <1>6, <2>1 DEF BuiltWithController
<1>8. ASSUME NEW i \in 1 .. n, i < at', s[i].do = "approve"
      PROVE  <<fields'[s[i].token], fields'[s[i].spender]>> \in allowances'
  <2>1. i < at
    BY <1>2, <1>3, <1>4, <1>5, <1>8
  <2>2. <<fields[s[i].token], fields[s[i].spender]>> \in allowances
    BY <1>3, <1>8, <2>1 DEF BringUpInv
  <2> QED BY <1>5, <2>2
<1>9. at' \in Nat /\ at' >= 1 /\ at' # 1 /\ at' > n /\ ~(at' <= n)
  BY <1>2, <1>4, <1>5
<1>10. /\ fixture' = fixture /\ stage' = "building" /\ fixture' \in DOMAIN Fixtures /\ fixture' # "none"
       /\ DOMAIN fields' = Fields /\ \A field \in F : fields'[field] \in registered'
  BY <1>3, <1>5 DEF BringUpInv
<1>11. \A field \in F : BuiltWithController(fields[field])'
  BY <1>6
<1> QED BY <1>7, <1>8, <1>9, <1>10, <1>11 DEF BringUpInv

\* A contract under test is given the Controller when a module's helper
\* deploys it, which also registers it.
LEMMA DeploySubjectBrings ==
  ASSUME ArgumentsInv, BringUpInv, DeploySubject, ~Throw
  PROVE  BringUpInv'
<1> DEFINE contract == subject[2]
           helper == subject[1]
           given == SubjectGiven
           new == Create(helper, contract, Meant(contract, given), libraries)
<1>1. /\ stage = "subject" /\ stage' = "ready" /\ created' = Append(created, new)
      /\ registered' = IF helper = "modules" THEN registered \cup {NextAddress(contract)} ELSE registered
      /\ UNCHANGED <<fixture, at, fields, allowances>>
  BY DEF DeploySubject
<1>2. CreatedInv /\ helper \in DOMAIN Helpers /\ contract \in DOMAIN Helpers[helper]
  BY <1>1 DEF ArgumentsInv, SubjectInv
<1>3. fixture # "none" /\ fixture \in DOMAIN Fixtures /\ at > Len(Fixtures[fixture])
  BY <1>1 DEF BringUpInv
<1> HIDE DEF new
<1>4. ASSUME NEW address, BuiltWithController(address)
      PROVE  /\ address[2] \in 1 .. Len(created')
             /\ created'[address[2]].storage["controller"] = <<fields'["controller"]>>
  BY <1>1, <1>2, <1>4, StaysBuilt
<1>5. ASSUME helper = "modules"
      PROVE  /\ NextAddress(contract)[2] \in 1 .. Len(created')
             /\ created'[NextAddress(contract)[2]].storage["controller"] = <<fields'["controller"]>>
  <2>1. contract \in ControlledContracts
    BY <1>2, <1>5 DEF ControlledContracts, Helpers
  <2>2. DOMAIN given = DOMAIN Constructors[contract]
        /\ \A i \in DOMAIN given : given[i] = <<Constructors[contract][i]>>
    BY DEF SubjectGiven
  <2> HIDE DEF given
  <2>3. GivenController(contract, given)
    BY <2>1, <2>2, ControllerComesFirst DEF GivenController
  <2> HIDE DEF helper, contract
  <2> QED BY <1>1, <1>2, <2>3, NewlyBuilt DEF new
<1>6. ASSUME NEW address \in registered' PROVE BuiltWithController(address)'
  <2>1. CASE address \in registered
    <3>1. BuiltWithController(address)
      BY <2>1 DEF BringUpInv
    <3> QED BY <1>4, <3>1 DEF BuiltWithController
  <2>2. CASE address = NextAddress(contract) /\ helper = "modules"
    <3> HIDE DEF contract, helper
    <3> QED BY <1>5, <2>2 DEF BuiltWithController
  <2> QED BY <1>1, <2>1, <2>2
<1>7. ASSUME NEW field \in Registers(fixture), fields[field] # Undefined
      PROVE  BuiltWithController(fields[field])'
  <2> DEFINE address == fields[field]
  <2>1. BuiltWithController(address)
    BY <1>3, <1>7 DEF BringUpInv
  <2> HIDE DEF address
  <2>2. /\ address[2] \in 1 .. Len(created')
        /\ created'[address[2]].storage["controller"] = <<fields'["controller"]>>
    BY <1>4, <2>1
  <2> QED BY <1>1, <2>2 DEF address, BuiltWithController
<1>8. registered \subseteq registered' /\ at' = at /\ fixture' = fixture /\ fields' = fields
      /\ allowances' = allowances
  BY <1>1
<1>9. ~(at <= Len(Fixtures[fixture]))
  <2>1. Len(Fixtures[fixture]) \in Nat
    BY <1>3, FixturesAreSound DEF SoundScript
  <2> QED BY <1>3, <2>1 DEF BringUpInv
<1> QED BY <1>3, <1>6, <1>7, <1>8, <1>9 DEF BringUpInv

\* Every step preserves the invariant.
LEMMA BringUpStep ==
  ASSUME ArgumentsInv, BringUpInv, [FixtureNext]_fixtureVars
  PROVE  BringUpInv'
<1>c. CreatedInv
  BY DEF ArgumentsInv
<1>n. \A name \in DOMAIN Fixtures : name # "none" /\ Len(Fixtures[name]) \in Nat /\ Len(Fixtures[name]) >= 2
  BY FixturesAreSound DEF SoundScript, Fixtures
<1>q. ASSUME UNCHANGED <<fixture, at, fields, created, registered, allowances>>,
             stage' \in {stage, "thrown"}, stage' = "thrown" => fixture # "none" \/ stage = "thrown"
      PROVE  BringUpInv'
  BY <1>q DEF BringUpInv, BuiltWithController
<1>u. ASSUME UNCHANGED <<fixture, at, stage, fields, created, registered, allowances>> PROVE BringUpInv'
  <2>1. stage' = stage
    BY <1>u
  <2> QED BY <1>q, <1>u, <2>1
<1>s. ASSUME NEW kind, Step(kind) PROVE fixture \in DOMAIN Fixtures
  BY <1>s DEF Step, BringUpInv
<1>1. ASSUME NEW name \in DOMAIN Fixtures, ChooseFixture(name) PROVE BringUpInv'
  <2>1. /\ fixture = "none" /\ fixture' = name
        /\ UNCHANGED <<at, stage, fields, created, registered, allowances>>
    BY <1>1 DEF ChooseFixture, world
  <2>2. at = 1 /\ stage = "building" /\ registered = {} /\ DOMAIN fields = Fields
        /\ \A field \in Fields : fields[field] = Undefined
    BY <2>1 DEF BringUpInv
  <2>3. name # "none" /\ Len(Fixtures[name]) \in Nat /\ Len(Fixtures[name]) >= 2
    BY <1>n
  <2>4. Registers(name) \subseteq Fields
    BY FixturesAreSound DEF SoundScript
  <2>5. ~(at > Len(Fixtures[name])) /\ at \in Nat /\ at >= 1
        /\ \A i \in 1 .. Len(Fixtures[name]) : ~(i < at)
    BY <2>2, <2>3
  <2> QED BY <2>1, <2>2, <2>3, <2>4, <2>5 DEF BringUpInv
<1>2. CASE Throw /\ fixture # "none"
  BY <1>2, <1>q DEF Throw, world
<1>3. CASE DeployStep
  <2>1. fixture \in DOMAIN Fixtures /\ fixture # "none"
    BY <1>3, <1>s DEF DeployStep, Step
  <2> QED BY <1>c, <1>2, <1>3, <2>1, DeployStepBrings
<1>4. CASE ApproveStep
  <2>1. fixture \in DOMAIN Fixtures /\ fixture # "none"
    BY <1>4, <1>s DEF ApproveStep, Step
  <2> QED BY <1>2, <1>4, <2>1, ApproveStepBrings
<1>5. CASE InitializeStep
  <2>1. fixture \in DOMAIN Fixtures /\ fixture # "none"
    BY <1>5, <1>s DEF InitializeStep, Step
  <2> QED BY <1>2, <1>5, <2>1, InitializeStepBrings
<1>6. CASE EndFixture
  <2>1. /\ fixture # "none" /\ at > Len(Fixtures[fixture])
        /\ UNCHANGED <<fixture, at, fields, created, registered, allowances>>
    BY <1>6 DEF EndFixture, world
  <2> QED BY <2>1 DEF BringUpInv, BuiltWithController
<1>7. ASSUME NEW helper, NEW contract, ChooseSubject(helper, contract) PROVE BringUpInv'
  <2>1. /\ stage = "testing"
        /\ UNCHANGED <<fixture, at, fields, created, registered, allowances>>
    BY <1>7 DEF ChooseSubject, world
  <2> QED BY <2>1 DEF BringUpInv, BuiltWithController
<1>8. ASSUME NEW library, DeployLibrary(library) PROVE BringUpInv'
  <2> DEFINE new == [contract |-> library, links |-> <<>>, storage |-> <<>>]
  <2>1. /\ created' = Append(created, new)
        /\ UNCHANGED <<fixture, at, stage, fields, registered, allowances>>
    BY <1>8 DEF DeployLibrary, session
  <2> HIDE DEF new
  <2>2. ASSUME NEW address, BuiltWithController(address)
        PROVE  /\ address[2] \in 1 .. Len(created')
               /\ created'[address[2]].storage["controller"] = <<fields'["controller"]>>
    BY <1>c, <2>1, <2>2, StaysBuilt
  <2> QED BY <2>1, <2>2 DEF BringUpInv, BuiltWithController
<1>9. CASE DeploySubject
  <2>1. fixture # "none"
    BY <1>9 DEF DeploySubject, BringUpInv
  <2> QED BY <1>2, <1>9, <2>1, DeploySubjectBrings
<1>10. CASE \E block \in Creators : MineOthers(block)
  BY <1>10, <1>u DEF MineOthers, session, world
<1>11. CASE \E block \in OwnBlocks : CreateSetToken(block)
  BY <1>11, <1>u DEF CreateSetToken, session, world
<1>12. CASE FindSetToken
  BY <1>12, <1>u DEF FindSetToken, session, world
<1>13. CASE UNCHANGED fixtureVars
  BY <1>13, <1>u DEF fixtureVars, session, world
<1> QED BY <1>1, <1>3, <1>4, <1>5, <1>6, <1>7, <1>8, <1>9, <1>10, <1>11, <1>12, <1>13
        DEF FixtureNext, FixtureStep

\* A fixture that has come up is one system.
LEMMA BringUpSuffices == BringUpInv => OneFixtureSystem
<1> SUFFICES ASSUME BringUpInv, stage \notin {"building", "thrown"} PROVE
      /\ \A address \in registered : created[address[2]].storage["controller"] = <<fields["controller"]>>
      /\ \A step \in ToSet(Fixtures[fixture]) :
           step.do = "initialize" => {fields[field] : field \in step.fields} \subseteq registered
      /\ \A token \in {"weth", "usdc", "wbtc", "dai"} :
           <<fields[token], fields["issuanceModule"]>> \in allowances
  BY DEF OneFixtureSystem
<1> DEFINE s == Fixtures[fixture]
           n == Len(s)
           F == Registers(fixture)
<1>1. fixture \in DOMAIN Fixtures /\ fixture # "none" /\ at > n /\ at \in Nat
  BY DEF BringUpInv
<1>2. SoundScript(s, n, F)
  BY <1>1, FixturesAreSound
<1>3. \A address \in registered : created[address[2]].storage["controller"] = <<fields["controller"]>>
  BY DEF BringUpInv, BuiltWithController
<1>4. ASSUME NEW step \in ToSet(s), step.do = "initialize"
      PROVE  {fields[field] : field \in step.fields} \subseteq registered
  <2>1. PICK i \in 1 .. n : step = s[i]
    BY <1>2 DEF ToSet, SoundScript
  <2>2. step.fields = F
    BY <1>2, <1>4, <2>1 DEF SoundScript
  <2>3. \A field \in F : fields[field] \in registered
    BY <1>1 DEF BringUpInv
  <2> QED BY <2>2, <2>3
<1>5. ASSUME NEW token \in {"weth", "usdc", "wbtc", "dai"}
      PROVE  <<fields[token], fields["issuanceModule"]>> \in allowances
  <2>1. PICK i \in 1 .. n : s[i] = Approve(token, "issuanceModule")
    BY <1>2 DEF SoundScript
  <2>2. s[i].do = "approve" /\ s[i].token = token /\ s[i].spender = "issuanceModule"
    BY <2>1 DEF Approve
  <2>3. n \in Nat
    BY <1>2 DEF SoundScript
  <2>4. i < at
    BY <1>1, <2>3
  <2> QED BY <1>1, <2>2, <2>4 DEF BringUpInv
<1> QED BY <1>3, <1>4, <1>5

\* However a test session goes, a fixture that has come up is one system:
\* everything its Controller registered was built with that Controller, the
\* fields are what is registered, and the tokens are approved for the issuance
\* module (systemFixture.ts, setFixture.ts).
THEOREM FixtureIsOneSystem == FixtureSpec => []OneFixtureSystem
<1>1. FixtureInit => ArgumentsInv /\ BringUpInv
  <2> SUFFICES ASSUME FixtureInit PROVE ArgumentsInv /\ BringUpInv
    OBVIOUS
  <2>1. /\ fixture = "none" /\ at = 1 /\ stage = "building" /\ registered = {}
        /\ fields = [field \in Fields |-> Undefined]
    BY DEF FixtureInit
  <2>2. BringUpInv
    BY <2>1 DEF BringUpInv
  <2> QED BY <2>2, ArgumentsStart
<1>2. ArgumentsInv /\ BringUpInv /\ [FixtureNext]_fixtureVars => (ArgumentsInv /\ BringUpInv)'
  BY ArgumentsStep, BringUpStep
<1> QED BY <1>1, <1>2, BringUpSuffices, PTL DEF FixtureSpec

-----------------------------------------------------------------------------
(* The allowances: a callback pushes a whole group in one step.             *)

\* What % means for a positive divisor.
LEMMA Remainder ==
  ASSUME NEW S \in Nat \ {0}, NEW n \in Nat
  PROVE  /\ n \div S \in Nat
         /\ n = S * (n \div S) + (n % S)
<1>1. n \div S \in Nat
  OBVIOUS
<1>2. n = S * (n \div S) + (n % S)
  OBVIOUS
<1> QED BY <1>1, <1>2

\* The remainder of a number between two multiples.
LEMMA RemainderAfterMultiple ==
  ASSUME NEW S \in Nat \ {0}, NEW q \in Nat, NEW k \in Nat, k < S
  PROVE  (q * S + k) % S = k
  OBVIOUS

\* Remainders of places in a group that starts at a multiple of its size.
LEMMA RemainderInGroup ==
  ASSUME NEW S \in Nat \ {0}, NEW n \in Nat, n % S = 0
  PROVE  /\ (n + S) % S = 0
         /\ \A k \in 0 .. S - 1 : (n + k) % S = k
<1> DEFINE q == n \div S
<1>1. q \in Nat /\ n = S * q + 0
  BY Remainder
<1> HIDE DEF q
<1>2. n = q * S /\ q + 1 \in Nat
  BY <1>1
<1>3. ASSUME NEW k \in 0 .. S - 1 PROVE (n + k) % S = k
  BY <1>1, <1>2, RemainderAfterMultiple
<1>4. n + S = (q + 1) * S + 0
  BY <1>1, <1>2
<1>5. ((q + 1) * S + 0) % S = 0
  BY <1>2, RemainderAfterMultiple
<1> QED BY <1>3, <1>4, <1>5

GroupsInv == result \in Seq(Tokens \X Spenders) /\ AllowancesComeInGroups

\* The place before i where its group starts.
First(i) == i - ((i - 1) % SpenderCount)

\* The group of a place starts at or before it.
LEMMA FirstBounds ==
  ASSUME NEW i \in Nat \ {0}
  PROVE  First(i) \in 1 .. i
<1>1. SpenderCount \in Nat \ {0} /\ i - 1 \in Nat
  BY AllowanceAssumption
<1>2. (i - 1) \div SpenderCount \in Nat
      /\ i - 1 = SpenderCount * ((i - 1) \div SpenderCount) + ((i - 1) % SpenderCount)
  BY <1>1, Remainder
<1>3. (i - 1) % SpenderCount \in Nat
  BY <1>1
<1>4. (i - 1) % SpenderCount <= i - 1
  <2> DEFINE d == (i - 1) \div SpenderCount
             r == (i - 1) % SpenderCount
  <2>1. d \in Nat /\ r \in Nat /\ i - 1 = SpenderCount * d + r
    BY <1>2, <1>3
  <2> HIDE DEF d, r
  <2>2. SpenderCount * d >= 0
    BY <1>1, <2>1
  <2>3. r <= i - 1
    BY <1>1, <2>1, <2>2
  <2> QED BY <2>3 DEF r
<1> QED BY <1>1, <1>3, <1>4 DEF First

\* The elements of a concatenation.
LEMMA Concatenation ==
  ASSUME NEW T, NEW s \in Seq(T), NEW t \in Seq(T)
  PROVE  /\ s \o t \in Seq(T)
         /\ Len(s \o t) = Len(s) + Len(t)
         /\ \A i \in 1 .. Len(s) : (s \o t)[i] = s[i]
         /\ \A j \in 1 .. Len(t) : (s \o t)[Len(s) + j] = t[j]
<1>1. s \o t \in Seq(T) /\ Len(s \o t) = Len(s) + Len(t)
  OBVIOUS
<1>2. ASSUME NEW i \in 1 .. Len(s) PROVE (s \o t)[i] = s[i]
  OBVIOUS
<1>3. ASSUME NEW j \in 1 .. Len(t) PROVE (s \o t)[Len(s) + j] = t[j]
  <2>1. /\ Len(s) + j \in 1 .. Len(s) + Len(t)
        /\ Len(s) + j - Len(s) = j
        /\ ~(Len(s) + j <= Len(s))
    OBVIOUS
  <2> QED BY <2>1
<1> QED BY <1>1, <1>2, <1>3

\* A callback appends a whole group.
LEMMA PushInv ==
  ASSUME GroupsInv, NEW token \in Tokens, PushAllowances(token)
  PROVE  GroupsInv'
<1> DEFINE n == Len(result)
           S == SpenderCount
           group == [spender \in Spenders |-> <<token, spender>>]
<1>1. S \in Nat \ {0} /\ Spenders = 1 .. S
  BY AllowanceAssumption DEF Spenders
<1>2. result \in Seq(Tokens \X Spenders) /\ n \in Nat /\ DOMAIN result = 1 .. n
  BY DEF GroupsInv
<1>3. /\ n % S = 0
      /\ \A i \in 1 .. n : result[i] = <<result[First(i)][1], i - First(i) + 1>>
  BY <1>2 DEF GroupsInv, AllowancesComeInGroups, First
<1>4. group \in Seq(Tokens \X Spenders) /\ Len(group) = S
  BY <1>1
<1>5. result' = result \o group
  BY DEF PushAllowances
<1> HIDE DEF group
<1>6. /\ result' \in Seq(Tokens \X Spenders)
      /\ Len(result') = n + S /\ DOMAIN result' = 1 .. n + S
      /\ \A i \in 1 .. n : result'[i] = result[i]
      /\ \A j \in 1 .. S : result'[n + j] = group[j]
  <2>1. /\ result' \in Seq(Tokens \X Spenders)
        /\ Len(result') = n + S
        /\ \A i \in 1 .. n : result'[i] = result[i]
        /\ \A j \in 1 .. S : result'[n + j] = group[j]
    <3>1. /\ result \o group \in Seq(Tokens \X Spenders)
          /\ Len(result \o group) = Len(result) + Len(group)
          /\ \A i \in 1 .. Len(result) : (result \o group)[i] = result[i]
          /\ \A j \in 1 .. Len(group) : (result \o group)[Len(result) + j] = group[j]
      BY <1>2, <1>4, Concatenation
    <3> QED BY <1>4, <1>5, <3>1, Zenon
  <2> QED BY <2>1
<1>7. \A j \in 1 .. S : group[j] = <<token, j>>
  BY <1>1 DEF group
<1> HIDE DEF n, S
<1>8. Len(result') % S = 0
  BY <1>1, <1>2, <1>3, <1>6, RemainderInGroup
<1>9. ASSUME NEW i \in 1 .. n
      PROVE  result'[i] = <<result'[First(i)][1], i - First(i) + 1>>
  <2>1. First(i) \in 1 .. i /\ i \in Nat
    BY <1>2, FirstBounds
  <2>2. First(i) \in 1 .. n
    BY <1>2, <2>1
  <2> QED BY <1>3, <1>6, <2>2
<1>10. ASSUME NEW i \in 1 .. n + S, i \notin 1 .. n
       PROVE  result'[i] = <<result'[First(i)][1], i - First(i) + 1>>
  <2> DEFINE j == i - n
  <2>1. j \in 1 .. S /\ i = n + j /\ 1 \in 1 .. S
    BY <1>1, <1>2, <1>10
  <2>2. j - 1 \in 0 .. S - 1 /\ i - 1 = n + (j - 1)
    BY <1>1, <1>2, <1>10
  <2>3. result'[n + 1] = <<token, 1>> /\ result'[n + j] = <<token, j>>
    BY <1>6, <1>7, <2>1
  <2>4. result'[i] = <<token, j>> /\ result'[n + 1][1] = token
    BY <2>1, <2>3
  <2>5. (i - 1) % S = j - 1
    BY <1>1, <1>2, <1>3, <2>2, RemainderInGroup
  <2>6. First(i) = n + 1 /\ i - (n + 1) + 1 = j
    BY <1>1, <1>2, <1>10, <2>5 DEF First, S
  <2> HIDE DEF j
  <2> QED BY <2>4, <2>6
<1>11. ASSUME NEW i \in DOMAIN result'
       PROVE  result'[i] = <<result'[First(i)][1], i - First(i) + 1>>
  BY <1>6, <1>9, <1>10
<1> QED BY <1>6, <1>8, <1>11 DEF GroupsInv, AllowancesComeInGroups, First, S

\* Whenever the caller of getAllowances (exchangeIssuanceUtils.ts) looks at the
\* array, it holds whole groups, one per token, for any number of tokens and
\* spenders and any order of answers and rejections.
THEOREM AllowancesStayInGroups == AllowanceSpec => []AllowancesComeInGroups
<1>1. AllowanceInit => GroupsInv
  <2>1. SpenderCount \in Nat \ {0} /\ 0 % SpenderCount = 0
    BY AllowanceAssumption
  <2>2. ASSUME AllowanceInit
        PROVE  /\ result \in Seq(Tokens \X Spenders)
               /\ Len(result) = 0 /\ DOMAIN result = {}
    BY <2>2 DEF AllowanceInit
  <2> QED BY <2>1, <2>2 DEF GroupsInv, AllowancesComeInGroups
<1>2. GroupsInv /\ [AllowanceNext]_allowanceVars => GroupsInv'
  <2> SUFFICES ASSUME GroupsInv, [AllowanceNext]_allowanceVars PROVE GroupsInv'
    OBVIOUS
  <2>1. CASE \E token \in Tokens : PushAllowances(token)
    BY <2>1, PushInv
  <2>2. CASE result' = result
    BY <2>2 DEF GroupsInv, AllowancesComeInGroups
  <2> QED BY <2>1, <2>2 DEF AllowanceNext, getAllowances, Answer, Reject, allowanceVars
<1>3. GroupsInv => AllowancesComeInGroups
  BY DEF GroupsInv
<1> QED BY <1>1, <1>2, <1>3, PTL DEF AllowanceSpec

-----------------------------------------------------------------------------
(* The test harness.  All hooks of a file are of one kind, and those of an *)
(* outer suite come first.                                                 *)

HookRecords ==
  [kind : {"cache", "sandbox"}, depth : Nat, mark : Nat, initialized : BOOLEAN,
   snapshotId : Nat, found : Seq(Nat)]

HarnessTypeOK ==
  /\ chain \in Seq(Nat) /\ lastId \in Nat
  /\ DOMAIN saved \subseteq 1 .. lastId /\ saved \in [DOMAIN saved -> Seq(Nat)]
  /\ SNAPSHOTS \in Seq(Nat) /\ suites \in Seq(BOOLEAN) /\ hooks \in Seq(HookRecords)
  /\ moment \in {"between", "before", "after"} /\ opened \in Nat
  /\ next \in IF moment = "before" THEN 1 .. Len(hooks) + 1 ELSE 0 .. Len(hooks)
  /\ moment = "between" => next = 0

HooksInOrder ==
  /\ \A i \in DOMAIN hooks : hooks[i].depth \in 1 .. Len(suites)
  /\ \A i, j \in DOMAIN hooks :
       /\ hooks[i].kind = hooks[j].kind
       /\ i <= j => hooks[i].depth <= hooks[j].depth

\* A state of the chain that differs from what the outermost hook of a list
\* found by the marks of the first k initializers.
MarkedUpTo(list, state, k) ==
  LET found == list[1].found
  IN  /\ Len(state) = Len(found) + k
      /\ \A j \in 1 .. Len(found) : state[j] = found[j]
      /\ \A j \in 1 .. k : state[Len(found) + j] = list[j].mark

\* The caches: the ids on the stack rise, the node keeps all of them, and the
\* one of the i-th hook leads to the chain its initializer left.
CachesInv ==
  /\ DOMAIN SNAPSHOTS = {i \in DOMAIN hooks : hooks[i].initialized}
  /\ \A i \in DOMAIN hooks : hooks[i].initialized => hooks[i].kind = "cache"
  /\ \A i \in DOMAIN SNAPSHOTS :
       SNAPSHOTS[i] \in DOMAIN saved /\ MarkedUpTo(hooks, saved[SNAPSHOTS[i]], i)
  /\ \A i, j \in DOMAIN SNAPSHOTS : i < j => SNAPSHOTS[i] < SNAPSHOTS[j]
  /\ moment = "before" /\ next > 1 /\ hooks[1].kind = "cache" =>
       next - 1 <= Len(SNAPSHOTS) /\ MarkedUpTo(hooks, chain, Len(SNAPSHOTS))

\* The sandboxes whose beforeEach has run and whose afterEach has not.
Entered(i) ==
  /\ hooks[i].kind = "sandbox"
  /\ \/ moment = "before" /\ i < next
     \/ moment = "after" /\ i <= next

\* Their snapshots rise and lead to what the outermost of them found, and so
\* does the chain, except while a test leaves its traces.
SandboxesInv ==
  /\ \A i \in DOMAIN hooks :
       Entered(i) => /\ hooks[i].snapshotId \in DOMAIN saved
                     /\ saved[hooks[i].snapshotId] = hooks[1].found
  /\ \A i, j \in DOMAIN hooks :
       Entered(i) /\ Entered(j) /\ i < j => hooks[i].snapshotId < hooks[j].snapshotId
  /\ hooks # <<>> /\ hooks[1].kind = "sandbox" =>
       /\ hooks[1].snapshotId # NoSnapshot => moment = "after" \/ chain = hooks[1].found
       /\ moment = "before" /\ next > 1 => chain = hooks[1].found /\ hooks[1].snapshotId # NoSnapshot
       /\ moment = "after" /\ next < Len(hooks) => chain = hooks[1].found

HarnessInv == HarnessTypeOK /\ HooksInOrder /\ CachesInv /\ SandboxesInv

\* Types of what the hooks hold.
LEMMA HookTypes ==
  ASSUME HarnessTypeOK
  PROVE  /\ hooks \in Seq(HookRecords) /\ Len(hooks) \in Nat /\ DOMAIN hooks = 1 .. Len(hooks)
         /\ SNAPSHOTS \in Seq(Nat) /\ Len(SNAPSHOTS) \in Nat
         /\ DOMAIN SNAPSHOTS = 1 .. Len(SNAPSHOTS)
         /\ suites \in Seq(BOOLEAN) /\ Len(suites) \in Nat
         /\ \A i \in 1 .. Len(hooks) :
              /\ hooks[i] \in HookRecords
              /\ hooks[i].kind \in {"cache", "sandbox"} /\ hooks[i].depth \in Nat
              /\ hooks[i].mark \in Nat /\ hooks[i].initialized \in BOOLEAN
              /\ hooks[i].snapshotId \in Nat /\ hooks[i].found \in Seq(Nat)
<1>1. hooks \in Seq(HookRecords) /\ SNAPSHOTS \in Seq(Nat) /\ suites \in Seq(BOOLEAN)
  BY DEF HarnessTypeOK
<1>2. /\ Len(hooks) \in Nat /\ DOMAIN hooks = 1 .. Len(hooks)
      /\ Len(SNAPSHOTS) \in Nat /\ DOMAIN SNAPSHOTS = 1 .. Len(SNAPSHOTS)
      /\ Len(suites) \in Nat
  BY <1>1
<1>3. ASSUME NEW i \in 1 .. Len(hooks)
      PROVE  /\ hooks[i] \in HookRecords
             /\ hooks[i].kind \in {"cache", "sandbox"} /\ hooks[i].depth \in Nat
             /\ hooks[i].mark \in Nat /\ hooks[i].initialized \in BOOLEAN
             /\ hooks[i].snapshotId \in Nat /\ hooks[i].found \in Seq(Nat)
  <2>1. hooks[i] \in HookRecords
    BY <1>1
  <2> QED BY <2>1 DEF HookRecords
<1> QED BY <1>1, <1>2, <1>3

\* The least element of a set of natural numbers.
LEMMA LeastElement ==
  ASSUME NEW S \in SUBSET Nat, S # {}
  PROVE  \E m \in S : \A i \in S : m <= i
<1>1. PICK m \in S : \A i \in S : <<i, m>> \notin OpToRel(<, Nat)
  <2>1. IsWellFoundedOn(OpToRel(<, Nat), Nat)
    BY NatLessThanWellFounded
  <2> QED BY <2>1, WFMin
<1>2. ASSUME NEW i \in S PROVE m <= i
  <2>1. ~(i < m)
    BY <1>1 DEF OpToRel
  <2> QED BY <2>1
<1> QED BY <1>2

\* The hooks of the suites from a depth on are the last ones.
LEMMA HooksFromIsSuffix ==
  ASSUME HarnessTypeOK, HooksInOrder, NEW depth \in Nat
  PROVE  \E p \in 0 .. Len(hooks) :
           /\ HooksFrom(depth) = p + 1 .. Len(hooks)
           /\ Len(hooks) - Cardinality(HooksFrom(depth)) = p
<1>0. /\ Len(hooks) \in Nat /\ DOMAIN hooks = 1 .. Len(hooks)
      /\ \A i \in DOMAIN hooks : hooks[i].depth \in Nat
  BY HookTypes
<1>1. HooksFrom(depth) \subseteq 1 .. Len(hooks)
  BY <1>0 DEF HooksFrom
<1>2. CASE HooksFrom(depth) = {}
  <2>1. HooksFrom(depth) = Len(hooks) + 1 .. Len(hooks)
    BY <1>0, <1>2
  <2>2. Cardinality(HooksFrom(depth)) = 0
    BY <1>2, FS_EmptySet
  <2> QED BY <1>0, <2>1, <2>2
<1>3. CASE HooksFrom(depth) # {}
  <2>0. HooksFrom(depth) \in SUBSET Nat
    BY <1>0, <1>1
  <2>1. PICK m \in HooksFrom(depth) : \A i \in HooksFrom(depth) : m <= i
    BY <1>3, <2>0, LeastElement
  <2>2. HooksFrom(depth) = m .. Len(hooks)
    <3>1. ASSUME NEW i \in m .. Len(hooks) PROVE i \in HooksFrom(depth)
      <4>1. m \in DOMAIN hooks /\ i \in DOMAIN hooks /\ m <= i /\ hooks[m].depth >= depth
        BY <1>0, <1>1, <2>1 DEF HooksFrom
      <4>2. hooks[m].depth <= hooks[i].depth
        BY <4>1 DEF HooksInOrder
      <4> QED BY <1>0, <4>1, <4>2 DEF HooksFrom
    <3>2. ASSUME NEW i \in HooksFrom(depth) PROVE i \in m .. Len(hooks)
      BY <1>0, <1>1, <2>1
    <3> QED BY <3>1, <3>2
  <2>3. Cardinality(HooksFrom(depth)) = Len(hooks) - m + 1
    BY <1>0, <1>1, <2>2, FS_Interval
  <2>4. m \in 1 .. Len(hooks)
    BY <1>1
  <2> QED
    <3> DEFINE p == m - 1
    <3>1. p \in 0 .. Len(hooks) /\ p + 1 = m /\ Len(hooks) - (Len(hooks) - m + 1) = p
      BY <1>0, <2>4
    <3> QED BY <2>2, <2>3, <3>1
<1> QED BY <1>2, <1>3

\* Leaving suites keeps the hooks of the others, and their snapshots.
LEMMA LeavingKeepsPrefix ==
  ASSUME HarnessInv, NEW depth \in 1 .. Len(suites), LeaveSuites(depth)
  PROVE  \E p \in 0 .. Len(hooks) :
           /\ hooks' \in Seq(HookRecords) /\ Len(hooks') = p
           /\ \A i \in 1 .. p : hooks'[i] = hooks[i] /\ hooks[i].depth < depth
           /\ \A i \in 1 .. Len(hooks) : hooks[i].depth < depth => i <= p
           /\ SNAPSHOTS' \in Seq(Nat)
           /\ Len(SNAPSHOTS') = IF Len(SNAPSHOTS) <= p THEN Len(SNAPSHOTS) ELSE p
           /\ \A i \in 1 .. Len(SNAPSHOTS') : SNAPSHOTS'[i] = SNAPSHOTS[i]
           /\ suites' \in Seq(BOOLEAN) /\ Len(suites') = depth - 1
<1>0. /\ Len(hooks) \in Nat /\ DOMAIN hooks = 1 .. Len(hooks)
      /\ Len(SNAPSHOTS) \in Nat /\ DOMAIN SNAPSHOTS = 1 .. Len(SNAPSHOTS)
      /\ \A i \in DOMAIN hooks : hooks[i].depth \in Nat
      /\ hooks \in Seq(HookRecords) /\ SNAPSHOTS \in Seq(Nat) /\ suites \in Seq(BOOLEAN)
      /\ Len(suites) \in Nat /\ depth \in Nat /\ depth <= Len(suites) /\ depth >= 1
  <2>1. HarnessTypeOK
    BY DEF HarnessInv
  <2>2. Len(suites) \in Nat
    BY <2>1, HookTypes
  <2> QED BY <2>1, <2>2, HookTypes
<1>1. PICK p \in 0 .. Len(hooks) : /\ HooksFrom(depth) = p + 1 .. Len(hooks)
                                   /\ Len(hooks) - Cardinality(HooksFrom(depth)) = p
  BY <1>0, HooksFromIsSuffix DEF HarnessInv
<1>p. p \in Nat /\ p <= Len(hooks)
  BY <1>0
<1>2. hooks' = SubSeq(hooks, 1, p)
  BY <1>1 DEF LeaveSuites
<1>3. hooks' \in Seq(HookRecords) /\ Len(hooks') = p /\ \A i \in 1 .. p : hooks'[i] = hooks[i]
  BY <1>0, <1>p, <1>2, SubSeqProperties
<1>4. \A i \in 1 .. Len(hooks) : hooks[i].depth < depth <=> i <= p
  <2>1. ASSUME NEW i \in 1 .. Len(hooks) PROVE hooks[i].depth < depth <=> i <= p
    <3>1. hooks[i].depth >= depth <=> i \in p + 1 .. Len(hooks)
      BY <1>0, <1>1 DEF HooksFrom
    <3> QED BY <1>0, <1>p, <3>1
  <2> QED BY <2>1
<1>5. popInitialized(depth) = IF Len(SNAPSHOTS) <= p THEN 0 ELSE Len(SNAPSHOTS) - p
  <2>1. DOMAIN SNAPSHOTS = {i \in DOMAIN hooks : hooks[i].initialized}
    BY DEF HarnessInv, CachesInv
  <2>2. {i \in HooksFrom(depth) : hooks[i].initialized} = p + 1 .. Len(SNAPSHOTS)
    <3>1. ASSUME NEW i \in HooksFrom(depth), hooks[i].initialized PROVE i \in p + 1 .. Len(SNAPSHOTS)
      <4>1. i \in p + 1 .. Len(hooks) /\ i \in DOMAIN hooks
        BY <1>0, <1>1 DEF HooksFrom
      <4>2. i \in 1 .. Len(SNAPSHOTS)
        BY <1>0, <2>1, <3>1, <4>1
      <4> QED BY <1>0, <1>p, <4>1, <4>2
    <3>2. ASSUME NEW i \in p + 1 .. Len(SNAPSHOTS)
          PROVE  i \in HooksFrom(depth) /\ hooks[i].initialized
      <4>1. i \in DOMAIN SNAPSHOTS
        BY <1>0, <1>p
      <4>2. i \in DOMAIN hooks /\ hooks[i].initialized
        BY <2>1, <4>1
      <4> QED BY <1>0, <1>1, <1>p, <4>2
    <3> QED BY <3>1, <3>2
  <2>3. Cardinality(p + 1 .. Len(SNAPSHOTS))
          = IF p + 1 > Len(SNAPSHOTS) THEN 0 ELSE Len(SNAPSHOTS) - (p + 1) + 1
    <3>1. p + 1 \in Int /\ Len(SNAPSHOTS) \in Int
      BY <1>0, <1>p
    <3> QED BY <3>1, FS_Interval
  <2>4. popInitialized(depth) = IF p + 1 > Len(SNAPSHOTS) THEN 0 ELSE Len(SNAPSHOTS) - (p + 1) + 1
    BY <2>2, <2>3 DEF popInitialized
  <2>5. Len(SNAPSHOTS) \in Nat /\ p \in Nat
    BY <1>0, <1>p
  <2>6. CASE Len(SNAPSHOTS) <= p
    BY <2>4, <2>5, <2>6
  <2>7. CASE ~(Len(SNAPSHOTS) <= p)
    BY <2>4, <2>5, <2>7
  <2> QED BY <2>6, <2>7
<1>6. SNAPSHOTS' = SubSeq(SNAPSHOTS, 1, IF Len(SNAPSHOTS) <= p THEN Len(SNAPSHOTS) ELSE p)
  <2>1. Len(SNAPSHOTS) - popInitialized(depth) = IF Len(SNAPSHOTS) <= p THEN Len(SNAPSHOTS) ELSE p
    BY <1>0, <1>p, <1>5
  <2> QED BY <2>1 DEF LeaveSuites
<1>7. /\ SNAPSHOTS' \in Seq(Nat)
      /\ Len(SNAPSHOTS') = IF Len(SNAPSHOTS) <= p THEN Len(SNAPSHOTS) ELSE p
      /\ \A i \in 1 .. Len(SNAPSHOTS') : SNAPSHOTS'[i] = SNAPSHOTS[i]
  <2> DEFINE q == IF Len(SNAPSHOTS) <= p THEN Len(SNAPSHOTS) ELSE p
  <2>1. q \in 0 .. Len(SNAPSHOTS) /\ SNAPSHOTS' = SubSeq(SNAPSHOTS, 1, q)
    BY <1>0, <1>p, <1>6
  <2> HIDE DEF q
  <2>2. SNAPSHOTS' \in Seq(Nat) /\ Len(SNAPSHOTS') = q /\ \A i \in 1 .. q : SNAPSHOTS'[i] = SNAPSHOTS[i]
    BY <1>0, <2>1, SubSeqProperties
  <2> QED BY <2>2 DEF q
<1>8. suites' \in Seq(BOOLEAN) /\ Len(suites') = depth - 1
  <2>1. suites' = SubSeq(suites, 1, depth - 1)
    BY DEF LeaveSuites
  <2> QED BY <1>0, <2>1, SubSeqProperties
<1> QED BY <1>3, <1>4, <1>7, <1>8, <1>p

LEMMA HarnessStart == HarnessInit => HarnessInv
<1> SUFFICES ASSUME HarnessInit PROVE HarnessInv
  OBVIOUS
<1>1. /\ chain = <<>> /\ saved = <<>> /\ lastId = 0 /\ SNAPSHOTS = <<>> /\ suites = <<>>
      /\ hooks = <<>> /\ next = 0 /\ moment = "between" /\ opened = 0
  BY DEF HarnessInit
<1>2. /\ Len(hooks) = 0 /\ DOMAIN hooks = {} /\ DOMAIN SNAPSHOTS = {} /\ DOMAIN saved = {}
      /\ chain \in Seq(Nat) /\ SNAPSHOTS \in Seq(Nat) /\ suites \in Seq(BOOLEAN)
      /\ hooks \in Seq(HookRecords) /\ saved \in [{} -> Seq(Nat)]
  BY <1>1
<1>3. HarnessTypeOK
  BY <1>1, <1>2 DEF HarnessTypeOK
<1>4. HooksInOrder /\ CachesInv /\ SandboxesInv
  BY <1>1, <1>2 DEF HooksInOrder, CachesInv, SandboxesInv
<1> QED BY <1>3, <1>4 DEF HarnessInv

\* Only the marks and what the outermost hook found count.
LEMMA MarkedKept ==
  ASSUME NEW l1, NEW l2, NEW state, NEW k \in Nat, MarkedUpTo(l1, state, k),
         l2[1].found = l1[1].found, \A j \in 1 .. k : l2[j].mark = l1[j].mark
  PROVE  MarkedUpTo(l2, state, k)
BY DEF MarkedUpTo

\* One more mark on the chain.
LEMMA MarkAdded ==
  ASSUME NEW list, NEW state \in Seq(Nat), NEW k \in Nat, MarkedUpTo(list, state, k),
         list[1].found \in Seq(Nat), list[k + 1].mark \in Nat
  PROVE  MarkedUpTo(list, Append(state, list[k + 1].mark), k + 1)
<1> DEFINE found == list[1].found
           mark == list[k + 1].mark
           new == Append(state, mark)
<1>0. found \in Seq(Nat) /\ mark \in Nat /\ new = Append(state, mark)
  OBVIOUS
<1>1. /\ Len(state) = Len(found) + k
      /\ \A j \in 1 .. Len(found) : state[j] = found[j]
      /\ \A j \in 1 .. k : state[Len(found) + j] = list[j].mark
  BY DEF MarkedUpTo
<1>m. mark = list[k + 1].mark
  OBVIOUS
<1> HIDE DEF found, mark, new
<1>n. Len(found) \in Nat /\ Len(state) \in Nat
  BY <1>0
<1>2. /\ Len(new) = Len(state) + 1 /\ new[Len(state) + 1] = mark
      /\ \A j \in 1 .. Len(state) : new[j] = state[j]
  BY <1>0, AppendProperties
<1>3. ASSUME NEW j \in 1 .. k + 1 PROVE new[Len(found) + j] = list[j].mark
  <2>1. CASE j = k + 1
    <3>1. Len(found) + j = Len(state) + 1
      BY <1>1, <1>n, <2>1
    <3> QED BY <1>2, <1>m, <2>1, <3>1
  <2>2. CASE j # k + 1
    <3>1. j \in 1 .. k
      BY <2>2
    <3>2. Len(found) + j \in 1 .. Len(state)
      BY <1>1, <1>n, <3>1
    <3> QED BY <1>1, <1>2, <3>1, <3>2
  <2> QED BY <2>1, <2>2
<1>4. ASSUME NEW j \in 1 .. Len(found) PROVE new[j] = found[j]
  <2>1. j \in 1 .. Len(state)
    BY <1>1, <1>n
  <2> QED BY <1>1, <1>2, <2>1
<1>5. Len(new) = Len(found) + (k + 1)
  BY <1>1, <1>2, <1>n
<1> QED BY <1>3, <1>4, <1>5 DEF MarkedUpTo, found, new, mark

\* Leaving suites between two tests, or because a cache threw.
LEMMA LeaveStep ==
  ASSUME HarnessInv, NEW depth \in 1 .. Len(suites), LeaveSuites(depth),
         saved' = saved, lastId' = lastId, chain' \in Seq(Nat), next' = 0, moment' = "between",
         \/ moment = "between" /\ chain' = chain
         \/ \A i \in 1 .. Len(hooks) : hooks[i].kind = "cache"
  PROVE  HarnessInv'
<1>t. HarnessTypeOK /\ HooksInOrder /\ CachesInv /\ SandboxesInv
  BY DEF HarnessInv
<1>0. /\ Len(hooks) \in Nat /\ DOMAIN hooks = 1 .. Len(hooks)
      /\ Len(SNAPSHOTS) \in Nat /\ DOMAIN SNAPSHOTS = 1 .. Len(SNAPSHOTS)
      /\ \A i \in 1 .. Len(hooks) : hooks[i].kind \in {"cache", "sandbox"}
                                    /\ hooks[i].depth \in Nat
      /\ Len(suites) \in Nat
  BY <1>t, HookTypes
<1>1. PICK p \in 0 .. Len(hooks) :
           /\ hooks' \in Seq(HookRecords) /\ Len(hooks') = p
           /\ \A i \in 1 .. p : hooks'[i] = hooks[i] /\ hooks[i].depth < depth
           /\ \A i \in 1 .. Len(hooks) : hooks[i].depth < depth => i <= p
           /\ SNAPSHOTS' \in Seq(Nat)
           /\ Len(SNAPSHOTS') = IF Len(SNAPSHOTS) <= p THEN Len(SNAPSHOTS) ELSE p
           /\ \A i \in 1 .. Len(SNAPSHOTS') : SNAPSHOTS'[i] = SNAPSHOTS[i]
           /\ suites' \in Seq(BOOLEAN) /\ Len(suites') = depth - 1
  BY LeavingKeepsPrefix
<1>2. /\ p \in Nat /\ p <= Len(hooks) /\ DOMAIN hooks' = 1 .. p
      /\ \A i \in 1 .. p : i \in DOMAIN hooks
      /\ Len(SNAPSHOTS') \in Nat /\ DOMAIN SNAPSHOTS' = 1 .. Len(SNAPSHOTS')
      /\ Len(SNAPSHOTS') <= Len(SNAPSHOTS) /\ Len(SNAPSHOTS') <= p
      /\ \A i \in 1 .. p : i <= Len(SNAPSHOTS) => i <= Len(SNAPSHOTS')
  BY <1>0, <1>1
<1>3. HarnessTypeOK'
  <2>1. UNCHANGED opened
    BY DEF LeaveSuites
  <2> QED BY <1>t, <1>1, <1>2, <2>1 DEF HarnessTypeOK
<1>4. HooksInOrder'
  <2>1. ASSUME NEW i \in DOMAIN hooks' PROVE hooks'[i].depth \in 1 .. Len(suites')
    <3>1. i \in 1 .. p /\ i \in DOMAIN hooks /\ hooks'[i] = hooks[i] /\ hooks[i].depth < depth
      BY <1>1, <1>2
    <3>2. hooks[i].depth \in 1 .. Len(suites)
      BY <1>t, <3>1 DEF HooksInOrder
    <3> QED BY <1>0, <1>1, <3>1, <3>2
  <2>2. ASSUME NEW i \in DOMAIN hooks', NEW j \in DOMAIN hooks'
        PROVE  /\ hooks'[i].kind = hooks'[j].kind
               /\ i <= j => hooks'[i].depth <= hooks'[j].depth
    <3>1. i \in DOMAIN hooks /\ j \in DOMAIN hooks /\ hooks'[i] = hooks[i] /\ hooks'[j] = hooks[j]
      BY <1>1, <1>2
    <3> QED BY <1>t, <3>1 DEF HooksInOrder
  <2> QED BY <2>1, <2>2 DEF HooksInOrder
<1>5. CachesInv'
  <2>1. DOMAIN SNAPSHOTS' = {i \in DOMAIN hooks' : hooks'[i].initialized}
    <3>1. ASSUME NEW i \in DOMAIN hooks'
          PROVE  hooks'[i].initialized <=> i \in DOMAIN SNAPSHOTS'
      <4>1. i \in 1 .. p /\ i \in DOMAIN hooks /\ hooks'[i] = hooks[i]
        BY <1>1, <1>2
      <4>2. hooks[i].initialized <=> i \in 1 .. Len(SNAPSHOTS)
        BY <1>t, <1>0, <4>1 DEF CachesInv
      <4>3. i \in 1 .. Len(SNAPSHOTS) <=> i \in 1 .. Len(SNAPSHOTS')
        BY <1>0, <1>2, <4>1
      <4> QED BY <1>2, <4>1, <4>2, <4>3
    <3>2. DOMAIN SNAPSHOTS' \subseteq DOMAIN hooks'
      BY <1>2
    <3> QED BY <3>1, <3>2
  <2>2. ASSUME NEW i \in DOMAIN hooks', hooks'[i].initialized PROVE hooks'[i].kind = "cache"
    <3>1. i \in DOMAIN hooks /\ hooks'[i] = hooks[i]
      BY <1>1, <1>2
    <3> QED BY <1>t, <2>2, <3>1 DEF CachesInv
  <2>3. ASSUME NEW i \in DOMAIN SNAPSHOTS'
        PROVE  SNAPSHOTS'[i] \in DOMAIN saved' /\ MarkedUpTo(hooks', saved'[SNAPSHOTS'[i]], i)
    <3>1. i \in DOMAIN SNAPSHOTS /\ SNAPSHOTS'[i] = SNAPSHOTS[i] /\ i \in Nat /\ i <= p /\ i >= 1
      BY <1>0, <1>1, <1>2
    <3>2. SNAPSHOTS[i] \in DOMAIN saved /\ MarkedUpTo(hooks, saved[SNAPSHOTS[i]], i)
      BY <1>t, <3>1 DEF CachesInv
    <3>3. hooks'[1].found = hooks[1].found /\ \A j \in 1 .. i : hooks'[j].mark = hooks[j].mark
      <4>1. \A j \in 1 .. i : j \in 1 .. p
        BY <1>2, <3>1
      <4>2. 1 \in 1 .. i
        BY <3>1
      <4> QED BY <1>1, <4>1, <4>2
    <3> QED BY <3>1, <3>2, <3>3, MarkedKept
  <2>4. ASSUME NEW i \in DOMAIN SNAPSHOTS', NEW j \in DOMAIN SNAPSHOTS', i < j
        PROVE  SNAPSHOTS'[i] < SNAPSHOTS'[j]
    <3>1. i \in DOMAIN SNAPSHOTS /\ j \in DOMAIN SNAPSHOTS
          /\ SNAPSHOTS'[i] = SNAPSHOTS[i] /\ SNAPSHOTS'[j] = SNAPSHOTS[j]
      BY <1>0, <1>1, <1>2
    <3> QED BY <1>t, <2>4, <3>1 DEF CachesInv
  <2> QED BY <2>1, <2>2, <2>3, <2>4 DEF CachesInv
<1>6. SandboxesInv'
  <2>1. ASSUME NEW i \in DOMAIN hooks' PROVE ~Entered(i)'
    BY DEF Entered
  <2>2. ASSUME hooks' # <<>>, hooks'[1].kind = "sandbox", hooks'[1].snapshotId # NoSnapshot
        PROVE  chain' = hooks'[1].found
    <3>1. p # 0
      BY <1>1, <2>2
    <3>2. 1 \in 1 .. p /\ 1 \in 1 .. Len(hooks)
      BY <1>0, <1>2, <3>1
    <3>3. hooks'[1] = hooks[1] /\ hooks # <<>>
      BY <1>0, <1>1, <3>2
    <3>4. moment = "between" /\ chain' = chain
      BY <2>2, <3>2, <3>3
    <3> QED BY <1>t, <2>2, <3>3, <3>4 DEF SandboxesInv
  <2> QED BY <2>1, <2>2 DEF SandboxesInv
<1> QED BY <1>3, <1>4, <1>5, <1>6 DEF HarnessInv

LEMMA CloseSuiteStep ==
  ASSUME HarnessInv, CloseSuite
  PROVE  HarnessInv'
<1>1. /\ moment = "between" /\ suites # <<>> /\ LeaveSuites(Len(suites)) /\ moment' = "between"
      /\ chain' = chain /\ saved' = saved /\ lastId' = lastId /\ next' = next
  BY DEF CloseSuite, node
<1>2. suites \in Seq(BOOLEAN) /\ chain \in Seq(Nat) /\ next = 0
  BY <1>1 DEF HarnessInv, HarnessTypeOK
<1>3. Len(suites) \in 1 .. Len(suites)
  BY <1>1, <1>2
<1> QED BY <1>1, <1>2, <1>3, LeaveStep

\* The hook that is called.
LEMMA CalledHook ==
  ASSUME HarnessInv, NEW hook, Called(hook)
  PROVE  /\ moment = "before" /\ next \in 1 .. Len(hooks) /\ hook = hooks[next]
         /\ hook \in HookRecords /\ hook.depth \in 1 .. Len(suites)
         /\ hook.mark \in Nat /\ hook.found \in Seq(Nat)
<1>1. HarnessTypeOK /\ HooksInOrder
  BY DEF HarnessInv
<1>2. moment = "before" /\ next \in DOMAIN hooks /\ hook = hooks[next]
  BY DEF Called
<1>3. next \in 1 .. Len(hooks) /\ hooks[next] \in HookRecords
      /\ hooks[next].mark \in Nat /\ hooks[next].found \in Seq(Nat)
  BY <1>1, <1>2, HookTypes
<1>4. hooks[next].depth \in 1 .. Len(suites)
  BY <1>1, <1>2 DEF HooksInOrder
<1> QED BY <1>2, <1>3, <1>4

LEMMA InitializerThrowsStep ==
  ASSUME HarnessInv, NEW hook, InitializerThrows(hook)
  PROVE  HarnessInv'
<1>1. /\ Called(hook) /\ hook.kind = "cache" /\ LeaveSuites(hook.depth)
      /\ chain' = Append(chain, Dirt) /\ saved' = saved /\ lastId' = lastId
      /\ moment' = "between" /\ next' = 0
  BY DEF InitializerThrows
<1>2. next \in 1 .. Len(hooks) /\ hook = hooks[next] /\ hook.depth \in 1 .. Len(suites)
  BY <1>1, CalledHook
<1>3. \A i \in 1 .. Len(hooks) : hooks[i].kind = "cache"
  <2>1. HarnessTypeOK /\ HooksInOrder
    BY DEF HarnessInv
  <2>2. DOMAIN hooks = 1 .. Len(hooks)
    BY <2>1, HookTypes
  <2> QED BY <1>1, <1>2, <2>1, <2>2 DEF HooksInOrder
<1>4. chain' \in Seq(Nat)
  <2>1. chain \in Seq(Nat) /\ Dirt \in Nat
    BY DEF HarnessInv, HarnessTypeOK, Dirt
  <2> QED BY <1>1, <2>1
<1> QED BY <1>1, <1>2, <1>3, <1>4, LeaveStep

LEMMA OpenSuiteStep ==
  ASSUME HarnessInv, NEW kind \in {"cache", "sandbox"}, NEW count \in 0 .. MaxHooks,
         OpenSuite(kind, count)
  PROVE  HarnessInv'
<1>t. HarnessTypeOK /\ HooksInOrder /\ CachesInv /\ SandboxesInv
  BY DEF HarnessInv
<1>0. /\ hooks \in Seq(HookRecords)
      /\ Len(hooks) \in Nat /\ DOMAIN hooks = 1 .. Len(hooks)
      /\ Len(SNAPSHOTS) \in Nat /\ DOMAIN SNAPSHOTS = 1 .. Len(SNAPSHOTS)
      /\ suites \in Seq(BOOLEAN) /\ Len(suites) \in Nat
      /\ \A i \in 1 .. Len(hooks) : hooks[i].depth \in Nat
  BY <1>t, HookTypes
<1> DEFINE new == [i \in 1 .. count |-> Hook(kind, MaxHooks * opened + i)]
<1>1. /\ moment = "between" /\ next = 0 /\ moment' = moment /\ next' = next
      /\ \A i \in DOMAIN hooks : hooks[i].kind = kind
      /\ opened' = opened + 1 /\ opened \in Nat
      /\ suites' = Append([i \in DOMAIN suites |-> TRUE], FALSE)
      /\ hooks' = hooks \o new
      /\ chain' = chain /\ saved' = saved /\ lastId' = lastId /\ SNAPSHOTS' = SNAPSHOTS
  BY <1>t DEF OpenSuite, node, HarnessTypeOK
<1>2. suites' \in Seq(BOOLEAN) /\ Len(suites') = Len(suites) + 1
  <2> DEFINE outer == [i \in DOMAIN suites |-> TRUE]
  <2>0. outer = [i \in 1 .. Len(suites) |-> TRUE]
    BY <1>0
  <2>1. outer \in Seq(BOOLEAN) /\ Len(outer) = Len(suites)
    BY <1>0, <2>0
  <2> HIDE DEF outer
  <2>2. Append(outer, FALSE) \in Seq(BOOLEAN) /\ Len(Append(outer, FALSE)) = Len(outer) + 1
    BY <2>1
  <2> QED BY <1>1, <2>1, <2>2 DEF outer
<1>3. count \in Nat /\ MaxHooks * opened \in Nat
  BY <1>1, HarnessAssumption
<1>4. ASSUME NEW i \in 1 .. count
      PROVE  /\ Hook(kind, MaxHooks * opened + i) \in HookRecords
             /\ Hook(kind, MaxHooks * opened + i).kind = kind
             /\ Hook(kind, MaxHooks * opened + i).depth = Len(suites) + 1
             /\ Hook(kind, MaxHooks * opened + i).initialized = FALSE
             /\ Hook(kind, MaxHooks * opened + i).snapshotId = NoSnapshot
  <2>1. MaxHooks * opened + i \in Nat /\ Len(suites) + 1 \in Nat
    BY <1>0, <1>3
  <2> QED BY <2>1 DEF Hook, HookRecords, NoSnapshot
<1>5. /\ new \in Seq(HookRecords) /\ Len(new) = count
      /\ \A i \in 1 .. count : /\ new[i].kind = kind /\ new[i].depth = Len(suites) + 1
                               /\ new[i].initialized = FALSE /\ new[i].snapshotId = NoSnapshot
  <2>1. \A i \in 1 .. count : new[i] = Hook(kind, MaxHooks * opened + i)
    OBVIOUS
  <2>2. new \in Seq(HookRecords) /\ Len(new) = count
    <3>1. new \in [1 .. count -> HookRecords]
      BY <1>4
    <3> HIDE DEF new
    <3> QED BY <1>3, <3>1
  <2> HIDE DEF new
  <2> QED BY <1>4, <2>1, <2>2
<1> HIDE DEF new
<1>6. /\ hooks' \in Seq(HookRecords) /\ Len(hooks') = Len(hooks) + count
      /\ \A i \in 1 .. Len(hooks) + count :
           hooks'[i] = IF i <= Len(hooks) THEN hooks[i] ELSE new[i - Len(hooks)]
  BY <1>0, <1>1, <1>5, ConcatProperties
<1>7. /\ DOMAIN hooks' = 1 .. Len(hooks) + count
      /\ \A i \in 1 .. Len(hooks) : i \in DOMAIN hooks' /\ hooks'[i] = hooks[i]
  <2>1. Len(hooks') \in Nat /\ DOMAIN hooks' = 1 .. Len(hooks')
    BY <1>6
  <2> QED BY <1>0, <1>3, <1>6, <2>1
<1>8. ASSUME NEW i \in DOMAIN hooks', ~(i <= Len(hooks))
      PROVE  /\ hooks'[i].kind = kind /\ hooks'[i].depth = Len(suites) + 1
             /\ hooks'[i].initialized = FALSE /\ hooks'[i].snapshotId = NoSnapshot
  <2>1. i \in 1 .. Len(hooks) + count /\ i - Len(hooks) \in 1 .. count
    BY <1>0, <1>3, <1>7, <1>8
  <2> QED BY <1>5, <1>6, <1>8, <2>1
<1>9. ASSUME NEW i \in DOMAIN hooks', i <= Len(hooks)
      PROVE  i \in DOMAIN hooks /\ hooks'[i] = hooks[i] /\ hooks[i].kind = kind
             /\ hooks[i].depth \in 1 .. Len(suites)
  <2>1. i \in DOMAIN hooks
    BY <1>0, <1>3, <1>7, <1>9
  <2> QED BY <1>t, <1>0, <1>1, <1>7, <2>1 DEF HooksInOrder
<1>10. HarnessTypeOK'
  BY <1>t, <1>0, <1>1, <1>2, <1>3, <1>6 DEF HarnessTypeOK
<1>11. HooksInOrder'
  <2>1. ASSUME NEW i \in DOMAIN hooks'
        PROVE  hooks'[i].kind = kind /\ hooks'[i].depth \in 1 .. Len(suites')
    <3>1. CASE i <= Len(hooks)
      <4>1. hooks'[i] = hooks[i] /\ hooks[i].kind = kind /\ hooks[i].depth \in 1 .. Len(suites)
        BY <1>9, <3>1
      <4> QED BY <1>0, <1>2, <4>1
    <3>2. CASE ~(i <= Len(hooks))
      <4>1. hooks'[i].kind = kind /\ hooks'[i].depth = Len(suites) + 1
        BY <1>8, <3>2
      <4> QED BY <1>0, <1>2, <4>1
    <3> QED BY <3>1, <3>2
  <2>2. ASSUME NEW i \in DOMAIN hooks', NEW j \in DOMAIN hooks', i <= j
        PROVE  hooks'[i].depth <= hooks'[j].depth
    <3>1. CASE j <= Len(hooks)
      <4>1. i <= Len(hooks)
        BY <1>0, <1>3, <1>7, <2>2, <3>1
      <4> QED BY <1>t, <1>9, <2>2, <3>1, <4>1 DEF HooksInOrder
    <3>2. CASE ~(j <= Len(hooks))
      <4>1. hooks'[j].depth = Len(suites) + 1
        BY <1>8, <3>2
      <4>2. hooks'[i].depth \in 1 .. Len(suites) + 1
        BY <1>2, <2>1
      <4> QED BY <1>0, <4>1, <4>2
    <3> QED BY <3>1, <3>2
  <2> QED BY <2>1, <2>2 DEF HooksInOrder
<1>12. CachesInv'
  <2>1. DOMAIN SNAPSHOTS' = {i \in DOMAIN hooks' : hooks'[i].initialized}
    <3>1. DOMAIN SNAPSHOTS = {i \in DOMAIN hooks : hooks[i].initialized}
      BY <1>t DEF CachesInv
    <3>2. ASSUME NEW i \in DOMAIN SNAPSHOTS PROVE i \in DOMAIN hooks' /\ hooks'[i].initialized
      BY <1>0, <1>7, <3>1
    <3>3. ASSUME NEW i \in DOMAIN hooks', hooks'[i].initialized PROVE i \in DOMAIN SNAPSHOTS
      BY <1>8, <1>9, <3>1, <3>3
    <3> QED BY <1>1, <3>2, <3>3
  <2>2. ASSUME NEW i \in DOMAIN hooks', hooks'[i].initialized PROVE hooks'[i].kind = "cache"
    BY <1>t, <1>8, <1>9, <2>2 DEF CachesInv
  <2>3. ASSUME NEW i \in DOMAIN SNAPSHOTS
        PROVE  SNAPSHOTS[i] \in DOMAIN saved /\ MarkedUpTo(hooks', saved[SNAPSHOTS[i]], i)
    <3>1. SNAPSHOTS[i] \in DOMAIN saved /\ MarkedUpTo(hooks, saved[SNAPSHOTS[i]], i)
      BY <1>t DEF CachesInv
    <3>2. i \in DOMAIN hooks /\ i \in Nat /\ i >= 1
      BY <1>t, <1>0 DEF CachesInv
    <3>3. \A j \in 1 .. i : j \in 1 .. Len(hooks)
      BY <1>0, <3>2
    <3>4. hooks'[1].found = hooks[1].found /\ \A j \in 1 .. i : hooks'[j].mark = hooks[j].mark
      BY <1>7, <3>2, <3>3
    <3> QED BY <3>1, <3>2, <3>4, MarkedKept
  <2>4. \A i, j \in DOMAIN SNAPSHOTS : i < j => SNAPSHOTS[i] < SNAPSHOTS[j]
    BY <1>t DEF CachesInv
  <2> QED BY <1>1, <2>1, <2>2, <2>3, <2>4 DEF CachesInv
<1>13. SandboxesInv'
  <2>1. ASSUME NEW i \in DOMAIN hooks' PROVE ~Entered(i)'
    BY <1>1 DEF Entered
  <2>2. ASSUME hooks' # <<>>, hooks'[1].kind = "sandbox", hooks'[1].snapshotId # NoSnapshot
        PROVE  chain' = hooks'[1].found
    <3>1. 1 \in DOMAIN hooks'
      BY <1>6, <2>2
    <3>2. 1 <= Len(hooks)
      BY <1>8, <2>2, <3>1
    <3>3. hooks # <<>> /\ hooks'[1] = hooks[1]
      BY <1>9, <3>1, <3>2
    <3> QED BY <1>t, <1>1, <2>2, <3>3 DEF SandboxesInv
  <2> QED BY <1>1, <2>1, <2>2 DEF SandboxesInv
<1> QED BY <1>10, <1>11, <1>12, <1>13 DEF HarnessInv

LEMMA StartTestStep ==
  ASSUME HarnessInv, StartTest
  PROVE  HarnessInv'
<1>t. HarnessTypeOK /\ HooksInOrder /\ CachesInv /\ SandboxesInv
  BY DEF HarnessInv
<1>1. /\ moment = "between" /\ moment' = "before" /\ next' = 1 /\ chain' = chain
      /\ saved' = saved /\ lastId' = lastId /\ SNAPSHOTS' = SNAPSHOTS /\ suites' = suites
      /\ hooks' = hooks /\ opened' = opened
  BY DEF StartTest, node
<1>2. Len(hooks) \in Nat /\ DOMAIN hooks = 1 .. Len(hooks)
  BY <1>t, HookTypes
<1>3. HarnessTypeOK'
  BY <1>t, <1>1, <1>2 DEF HarnessTypeOK
<1>4. HooksInOrder' /\ CachesInv'
  BY <1>t, <1>1 DEF HooksInOrder, CachesInv
<1>5. SandboxesInv'
  <2>1. ASSUME NEW i \in DOMAIN hooks PROVE ~Entered(i)'
    BY <1>1, <1>2 DEF Entered
  <2> QED BY <1>t, <1>1, <2>1 DEF SandboxesInv
<1> QED BY <1>3, <1>4, <1>5 DEF HarnessInv

LEMMA RunTestStep ==
  ASSUME HarnessInv, RunTest
  PROVE  HarnessInv'
<1>t. HarnessTypeOK /\ HooksInOrder /\ CachesInv /\ SandboxesInv
  BY DEF HarnessInv
<1>1. /\ moment = "before" /\ next > Len(hooks) /\ moment' = "after" /\ next' = Len(hooks)
      /\ chain' = Append(chain, Dirt) /\ saved' = saved /\ lastId' = lastId
      /\ SNAPSHOTS' = SNAPSHOTS /\ suites' = suites /\ hooks' = hooks /\ opened' = opened
  BY DEF RunTest
<1>2. /\ Len(hooks) \in Nat /\ DOMAIN hooks = 1 .. Len(hooks) /\ next \in Nat
      /\ chain \in Seq(Nat) /\ Dirt \in Nat
  BY <1>t, <1>1, HookTypes DEF HarnessTypeOK, Dirt
<1>3. HarnessTypeOK'
  <2>1. chain' \in Seq(Nat)
    BY <1>1, <1>2
  <2> QED BY <1>t, <1>1, <1>2, <2>1 DEF HarnessTypeOK
<1>4. HooksInOrder' /\ CachesInv'
  BY <1>t, <1>1 DEF HooksInOrder, CachesInv
<1>5. SandboxesInv'
  <2>1. ASSUME NEW i \in DOMAIN hooks, Entered(i)' PROVE Entered(i)
    BY <1>1, <1>2, <2>1 DEF Entered
  <2>2. ~(next' < Len(hooks'))
    BY <1>1, <1>2
  <2> QED BY <1>t, <1>1, <2>1, <2>2 DEF SandboxesInv
<1> QED BY <1>3, <1>4, <1>5 DEF HarnessInv

LEMMA EndTestStep ==
  ASSUME HarnessInv, EndTest
  PROVE  HarnessInv'
<1>t. HarnessTypeOK /\ HooksInOrder /\ CachesInv /\ SandboxesInv
  BY DEF HarnessInv
<1>1. /\ moment = "after" /\ next = 0 /\ moment' = "between" /\ next' = next /\ chain' = chain
      /\ saved' = saved /\ lastId' = lastId /\ SNAPSHOTS' = SNAPSHOTS /\ suites' = suites
      /\ hooks' = hooks /\ opened' = opened
  BY DEF EndTest, node
<1>2. /\ Len(hooks) \in Nat /\ DOMAIN hooks = 1 .. Len(hooks) /\ hooks \in Seq(HookRecords)
  BY <1>t, HookTypes
<1>3. HarnessTypeOK'
  BY <1>t, <1>1, <1>2 DEF HarnessTypeOK
<1>4. HooksInOrder' /\ CachesInv'
  BY <1>t, <1>1 DEF HooksInOrder, CachesInv
<1>5. SandboxesInv'
  <2>1. ASSUME NEW i \in DOMAIN hooks PROVE ~Entered(i)'
    BY <1>1, <1>2 DEF Entered
  <2>2. hooks # <<>> => next < Len(hooks)
    BY <1>1, <1>2
  <2> QED BY <1>t, <1>1, <2>1, <2>2 DEF SandboxesInv
<1> QED BY <1>3, <1>4, <1>5 DEF HarnessInv

\* A new snapshot leads to the state it was taken of, under a fresh id.
LEMMA SnapshotTaken ==
  ASSUME NEW state \in Seq(Nat), NEW kept, lastId \in Nat, DOMAIN kept \subseteq 1 .. lastId,
         kept \in [DOMAIN kept -> Seq(Nat)], saveSnapshotAsync(state, kept)
  PROVE  /\ lastId' = lastId + 1 /\ lastId' \in Nat /\ chain' = state
         /\ DOMAIN saved' = DOMAIN kept \cup {lastId + 1} /\ DOMAIN saved' \subseteq 1 .. lastId'
         /\ saved' \in [DOMAIN saved' -> Seq(Nat)] /\ saved'[lastId + 1] = state
         /\ \A id \in DOMAIN kept : saved'[id] = kept[id] /\ id < lastId + 1
<1> DEFINE ids == DOMAIN kept \cup {lastId + 1}
<1>1. /\ lastId' = lastId + 1 /\ chain' = state
      /\ saved' = [id \in ids |-> IF id = lastId + 1 THEN state ELSE kept[id]]
  BY DEF saveSnapshotAsync
<1>2. DOMAIN saved' = ids /\ \A id \in ids : saved'[id] = IF id = lastId + 1 THEN state ELSE kept[id]
  BY <1>1
<1>3. \A id \in DOMAIN kept : id < lastId + 1 /\ id # lastId + 1
  OBVIOUS
<1>4. \A id \in ids : saved'[id] \in Seq(Nat)
  BY <1>2, <1>3
<1>5. saved' \in [ids -> Seq(Nat)]
  <2> HIDE DEF ids
  <2> QED BY <1>1, <1>2, <1>4
<1> QED BY <1>1, <1>2, <1>3, <1>5

\* One hook is written, and the next one is called.
LEMMA HookWritten ==
  ASSUME HarnessTypeOK, next \in 1 .. Len(hooks), NEW hook \in HookRecords, GoOn(hook)
  PROVE  /\ hooks' \in Seq(HookRecords) /\ Len(hooks') = Len(hooks) /\ DOMAIN hooks' = 1 .. Len(hooks)
         /\ \A i \in 1 .. Len(hooks) : hooks'[i] = IF i = next THEN hook ELSE hooks[i]
         /\ next' = next + 1 /\ suites' = suites /\ moment' = moment /\ opened' = opened
<1>1. /\ hooks' = [hooks EXCEPT ![next] = hook] /\ next' = next + 1
      /\ suites' = suites /\ moment' = moment /\ opened' = opened
  BY DEF GoOn
<1>2. hooks \in Seq(HookRecords) /\ Len(hooks) \in Nat
  BY HookTypes
<1>3. /\ hooks' \in Seq(HookRecords) /\ Len(hooks') = Len(hooks)
      /\ \A i \in 1 .. Len(hooks) : hooks'[i] = IF i = next THEN hook ELSE hooks[i]
  BY <1>1, <1>2, ExceptSeq
<1> QED BY <1>1, <1>2, <1>3

\* Order and kinds of the hooks survive when one of them is written.
LEMMA OrderKept ==
  ASSUME HarnessInv, DOMAIN hooks' = DOMAIN hooks, suites' = suites,
         \A i \in DOMAIN hooks : hooks'[i].kind = hooks[i].kind /\ hooks'[i].depth = hooks[i].depth
  PROVE  HooksInOrder'
BY DEF HarnessInv, HooksInOrder

LEMMA CacheInitializeStep ==
  ASSUME HarnessInv, NEW hook, CacheInitialize(hook)
  PROVE  HarnessInv'
<1>t. HarnessTypeOK /\ HooksInOrder /\ CachesInv /\ SandboxesInv
  BY DEF HarnessInv
<1> DEFINE new == [hook EXCEPT !.initialized = TRUE, !.found = chain]
           state == Append(chain, hook.mark)
<1>1. /\ Called(hook) /\ hook.kind = "cache" /\ ~hook.initialized
      /\ saveSnapshotAsync(state, saved) /\ SNAPSHOTS' = Append(SNAPSHOTS, lastId') /\ GoOn(new)
  BY DEF CacheInitialize
<1>2. /\ moment = "before" /\ next \in 1 .. Len(hooks) /\ hook = hooks[next] /\ hook \in HookRecords
      /\ hook.mark \in Nat
  BY <1>1, CalledHook
<1>3. /\ Len(hooks) \in Nat /\ DOMAIN hooks = 1 .. Len(hooks)
      /\ Len(SNAPSHOTS) \in Nat /\ DOMAIN SNAPSHOTS = 1 .. Len(SNAPSHOTS) /\ SNAPSHOTS \in Seq(Nat)
      /\ \A i \in 1 .. Len(hooks) : hooks[i].found \in Seq(Nat)
  BY <1>t, HookTypes
<1>4. /\ chain \in Seq(Nat) /\ lastId \in Nat /\ DOMAIN saved \subseteq 1 .. lastId
      /\ saved \in [DOMAIN saved -> Seq(Nat)]
  BY <1>t DEF HarnessTypeOK
<1>5. /\ new \in HookRecords /\ new.kind = "cache" /\ new.depth = hook.depth /\ new.mark = hook.mark
      /\ new.initialized = TRUE /\ new.found = chain
  BY <1>1, <1>2, <1>4 DEF HookRecords
<1>6. state \in Seq(Nat)
  BY <1>2, <1>4
<1>7. Len(SNAPSHOTS) = next - 1
  <2>1. next \notin DOMAIN SNAPSHOTS
    BY <1>t, <1>1, <1>2 DEF CachesInv
  <2>2. next > 1 => next - 1 <= Len(SNAPSHOTS)
    <3>1. next > 1 => hooks[1].kind = "cache"
      <4>1. \A i, j \in 1 .. Len(hooks) : hooks[i].kind = hooks[j].kind
        BY <1>t, <1>3 DEF HooksInOrder
      <4>2. next > 1 => 1 \in 1 .. Len(hooks)
        BY <1>2, <1>3
      <4> QED BY <1>1, <1>2, <4>1, <4>2
    <3>2. moment = "before" /\ next > 1 /\ hooks[1].kind = "cache" => next - 1 <= Len(SNAPSHOTS)
      BY <1>t DEF CachesInv
    <3> QED BY <1>2, <3>1, <3>2
  <2> QED BY <1>2, <1>3, <2>1, <2>2
<1> HIDE DEF new, state
<1>8. /\ hooks' \in Seq(HookRecords) /\ Len(hooks') = Len(hooks) /\ DOMAIN hooks' = 1 .. Len(hooks)
      /\ \A i \in 1 .. Len(hooks) : hooks'[i] = IF i = next THEN new ELSE hooks[i]
      /\ next' = next + 1 /\ suites' = suites /\ moment' = moment /\ opened' = opened
  BY <1>t, <1>1, <1>2, <1>5, HookWritten
<1>9. /\ lastId' = lastId + 1 /\ lastId' \in Nat /\ chain' = state
      /\ DOMAIN saved' = DOMAIN saved \cup {lastId + 1} /\ DOMAIN saved' \subseteq 1 .. lastId'
      /\ saved' \in [DOMAIN saved' -> Seq(Nat)] /\ saved'[lastId + 1] = state
      /\ \A id \in DOMAIN saved : saved'[id] = saved[id] /\ id < lastId + 1
  BY <1>1, <1>4, <1>6, SnapshotTaken
<1>10. /\ SNAPSHOTS' \in Seq(Nat) /\ Len(SNAPSHOTS') = next /\ DOMAIN SNAPSHOTS' = 1 .. next
       /\ SNAPSHOTS'[next] = lastId + 1
       /\ \A i \in 1 .. next : i # next => i \in DOMAIN SNAPSHOTS /\ SNAPSHOTS'[i] = SNAPSHOTS[i]
  <2>1. /\ SNAPSHOTS' \in Seq(Nat) /\ Len(SNAPSHOTS') = Len(SNAPSHOTS) + 1
        /\ SNAPSHOTS'[Len(SNAPSHOTS) + 1] = lastId + 1
        /\ \A i \in 1 .. Len(SNAPSHOTS) : SNAPSHOTS'[i] = SNAPSHOTS[i]
    BY <1>1, <1>3, <1>9, AppendProperties
  <2>2. Len(SNAPSHOTS) + 1 = next /\ \A i \in 1 .. next : i # next => i \in 1 .. Len(SNAPSHOTS)
    BY <1>2, <1>3, <1>7
  <2> QED BY <1>2, <1>3, <2>1, <2>2
<1>11. \A i \in 1 .. Len(hooks) : hooks'[i].mark = hooks[i].mark /\ hooks'[i].kind = hooks[i].kind
                                 /\ hooks'[i].depth = hooks[i].depth
  BY <1>1, <1>2, <1>5, <1>8
<1>12. HarnessTypeOK'
  <2>1. suites' \in Seq(BOOLEAN) /\ opened' \in Nat
    BY <1>t, <1>8 DEF HarnessTypeOK
  <2>2. moment' = "before" /\ next' \in 1 .. Len(hooks') + 1
    BY <1>2, <1>3, <1>8
  <2>3. chain' \in Seq(Nat)
    BY <1>6, <1>9
  <2> QED BY <1>8, <1>9, <1>10, <2>1, <2>2, <2>3 DEF HarnessTypeOK
<1>13. HooksInOrder'
  BY <1>3, <1>8, <1>11, OrderKept
<1>14. MarkedUpTo(hooks', state, next)
  <2>1. MarkedUpTo(hooks', chain, next - 1)
    <3>1. CASE next = 1
      <4>1. hooks'[1].found = chain
        BY <1>2, <1>3, <1>5, <1>8, <3>1
      <4>2. Len(chain) \in Nat /\ next - 1 = 0
        BY <1>4, <3>1
      <4> QED BY <4>1, <4>2 DEF MarkedUpTo
    <3>2. CASE next # 1
      <4>1. next > 1 /\ 1 \in 1 .. Len(hooks) /\ next - 1 \in Nat
            /\ \A j \in 1 .. next - 1 : j \in 1 .. Len(hooks)
        BY <1>2, <1>3, <3>2
      <4>2. hooks[1].kind = "cache"
        BY <1>t, <1>1, <1>2, <1>3, <4>1 DEF HooksInOrder
      <4>3. MarkedUpTo(hooks, chain, next - 1)
        BY <1>t, <1>2, <1>7, <4>1, <4>2 DEF CachesInv
      <4>4. hooks'[1].found = hooks[1].found
        BY <1>8, <3>2, <4>1
      <4>5. \A j \in 1 .. next - 1 : hooks'[j].mark = hooks[j].mark
        BY <1>11, <4>1
      <4> QED BY <4>1, <4>3, <4>4, <4>5, MarkedKept
    <3> QED BY <3>1, <3>2
  <2>2. next - 1 \in Nat /\ (next - 1) + 1 = next
    BY <1>2, <1>3
  <2>3. hooks'[next].mark = hook.mark /\ hooks'[1].found \in Seq(Nat)
    <3>1. 1 \in 1 .. Len(hooks)
      BY <1>2, <1>3
    <3> QED BY <1>2, <1>3, <1>4, <1>5, <1>8, <3>1
  <2>4. MarkedUpTo(hooks', Append(chain, hooks'[next].mark), next)
    <3> DEFINE k == next - 1
    <3>1. k \in Nat /\ k + 1 = next /\ MarkedUpTo(hooks', chain, k)
      BY <2>1, <2>2
    <3> HIDE DEF k
    <3>2. hooks'[k + 1].mark \in Nat
      BY <1>2, <2>3, <3>1
    <3>3. MarkedUpTo(hooks', Append(chain, hooks'[k + 1].mark), k + 1)
      BY <1>4, <2>3, <3>1, <3>2, MarkAdded
    <3> QED BY <3>1, <3>3
  <2> QED BY <2>3, <2>4 DEF state
<1>15. CachesInv'
  <2>1. DOMAIN SNAPSHOTS' = {i \in DOMAIN hooks' : hooks'[i].initialized}
    <3>1. ASSUME NEW i \in 1 .. Len(hooks)
          PROVE  hooks'[i].initialized <=> i \in 1 .. next
      <4>1. CASE i = next
        BY <1>2, <1>3, <1>5, <1>8, <4>1
      <4>2. CASE i # next
        <5>1. hooks[i].initialized <=> i \in 1 .. Len(SNAPSHOTS)
          BY <1>t, <1>3 DEF CachesInv
        <5> QED BY <1>2, <1>3, <1>7, <1>8, <4>2, <5>1
      <4> QED BY <4>1, <4>2
    <3>2. \A i \in 1 .. next : i \in 1 .. Len(hooks)
      BY <1>2, <1>3
    <3> QED BY <1>8, <1>10, <3>1, <3>2
  <2>2. ASSUME NEW i \in DOMAIN hooks' PROVE hooks'[i].kind = "cache"
    <3>1. i \in DOMAIN hooks /\ hooks'[i].kind = hooks[i].kind
      BY <1>3, <1>8, <1>11
    <3> QED BY <1>t, <1>1, <1>2, <1>3, <3>1 DEF HooksInOrder
  <2>3. ASSUME NEW i \in DOMAIN SNAPSHOTS'
        PROVE  SNAPSHOTS'[i] \in DOMAIN saved' /\ MarkedUpTo(hooks', saved'[SNAPSHOTS'[i]], i)
    <3>1. CASE i = next
      BY <1>9, <1>10, <1>14, <3>1
    <3>2. CASE i # next
      <4>1. i \in DOMAIN SNAPSHOTS /\ SNAPSHOTS'[i] = SNAPSHOTS[i] /\ i \in Nat /\ next # 1
        BY <1>2, <1>10, <3>2
      <4>2. SNAPSHOTS[i] \in DOMAIN saved /\ MarkedUpTo(hooks, saved[SNAPSHOTS[i]], i)
        BY <1>t, <4>1 DEF CachesInv
      <4>3. hooks'[1].found = hooks[1].found /\ \A j \in 1 .. i : hooks'[j].mark = hooks[j].mark
        <5>1. 1 \in 1 .. Len(hooks) /\ \A j \in 1 .. i : j \in 1 .. Len(hooks)
          BY <1>2, <1>3, <1>10
        <5> QED BY <1>8, <1>11, <4>1, <5>1
      <4>4. MarkedUpTo(hooks', saved[SNAPSHOTS[i]], i)
        BY <4>1, <4>2, <4>3, MarkedKept
      <4> QED BY <1>9, <4>1, <4>2, <4>4
    <3> QED BY <3>1, <3>2
  <2>4. ASSUME NEW i \in DOMAIN SNAPSHOTS', NEW j \in DOMAIN SNAPSHOTS', i < j
        PROVE  SNAPSHOTS'[i] < SNAPSHOTS'[j]
    <3>1. i # next
      BY <1>2, <1>3, <1>10, <2>4
    <3>2. i \in DOMAIN SNAPSHOTS /\ SNAPSHOTS'[i] = SNAPSHOTS[i]
      BY <1>10, <3>1
    <3>3. CASE j = next
      BY <1>t, <1>9, <1>10, <3>2, <3>3 DEF CachesInv
    <3>4. CASE j # next
      BY <1>t, <1>10, <2>4, <3>2, <3>4 DEF CachesInv
    <3> QED BY <3>3, <3>4
  <2>5. next' - 1 <= Len(SNAPSHOTS') /\ MarkedUpTo(hooks', chain', Len(SNAPSHOTS'))
    BY <1>2, <1>3, <1>8, <1>9, <1>10, <1>14
  <2> QED BY <2>1, <2>2, <2>3, <2>4, <2>5 DEF CachesInv
<1>16. SandboxesInv'
  <2>1. \A i \in DOMAIN hooks' : hooks'[i].kind = "cache"
    BY <1>t, <1>1, <1>2, <1>3, <1>8, <1>11 DEF HooksInOrder
  <2>2. hooks' # <<>> => hooks'[1].kind = "cache"
    BY <1>8, <2>1
  <2>3. ASSUME NEW i \in DOMAIN hooks' PROVE ~Entered(i)'
    BY <2>1 DEF Entered
  <2> QED BY <2>2, <2>3 DEF SandboxesInv
<1> QED BY <1>12, <1>13, <1>15, <1>16 DEF HarnessInv

LEMMA CacheRestoreStep ==
  ASSUME HarnessInv, NEW hook, CacheRestore(hook)
  PROVE  HarnessInv'
<1>t. HarnessTypeOK /\ HooksInOrder /\ CachesInv /\ SandboxesInv
  BY DEF HarnessInv
<1> DEFINE k == Len(SNAPSHOTS)
           id == SNAPSHOTS[k]
           kept == [i \in {i \in DOMAIN saved : i < id} |-> saved[i]]
<1>1. /\ Called(hook) /\ hook.kind = "cache" /\ hook.initialized
      /\ saveSnapshotAsync(StateAfterRevert(Last(SNAPSHOTS)), KeptAfterRevert(Last(SNAPSHOTS)))
      /\ SNAPSHOTS' = Append(Front(SNAPSHOTS), lastId') /\ GoOn(hook)
  BY DEF CacheRestore
<1>2. /\ moment = "before" /\ next \in 1 .. Len(hooks) /\ hook = hooks[next] /\ hook \in HookRecords
  BY <1>1, CalledHook
<1>3. /\ Len(hooks) \in Nat /\ DOMAIN hooks = 1 .. Len(hooks) /\ hooks \in Seq(HookRecords)
      /\ k \in Nat /\ DOMAIN SNAPSHOTS = 1 .. k /\ SNAPSHOTS \in Seq(Nat)
  BY <1>t, HookTypes
<1>4. /\ lastId \in Nat /\ DOMAIN saved \subseteq 1 .. lastId
      /\ saved \in [DOMAIN saved -> Seq(Nat)]
  BY <1>t DEF HarnessTypeOK
<1>5. next \in 1 .. k /\ k >= 1 /\ k \in DOMAIN SNAPSHOTS /\ k <= Len(hooks)
  <2>1. next \in DOMAIN SNAPSHOTS
    BY <1>t, <1>1, <1>2, <1>3 DEF CachesInv
  <2>2. k \in DOMAIN SNAPSHOTS
    BY <1>3, <2>1
  <2>3. k \in DOMAIN hooks
    BY <1>t, <2>2 DEF CachesInv
  <2> QED BY <1>3, <2>1, <2>2, <2>3
<1>6. id \in DOMAIN saved /\ MarkedUpTo(hooks, saved[id], k) /\ saved[id] \in Seq(Nat) /\ id \in Nat
  BY <1>t, <1>4, <1>5 DEF CachesInv
<1>7. Last(SNAPSHOTS) = id
  BY DEF Last
<1>8. StateAfterRevert(id) = saved[id] /\ KeptAfterRevert(id) = kept
  BY <1>6 DEF StateAfterRevert, KeptAfterRevert
<1>9. DOMAIN kept \subseteq 1 .. lastId /\ kept \in [DOMAIN kept -> Seq(Nat)]
      /\ \A i \in DOMAIN saved : i < id => i \in DOMAIN kept /\ kept[i] = saved[i]
  BY <1>4
<1>10. Front(SNAPSHOTS) \in Seq(Nat) /\ Len(Front(SNAPSHOTS)) = k - 1
       /\ \A i \in 1 .. k - 1 : Front(SNAPSHOTS)[i] = SNAPSHOTS[i]
  BY <1>3, <1>5, SubSeqProperties DEF Front
<1> HIDE DEF k, id, kept
<1>11. /\ lastId' = lastId + 1 /\ lastId' \in Nat /\ chain' = saved[id]
       /\ DOMAIN saved' = DOMAIN kept \cup {lastId + 1} /\ DOMAIN saved' \subseteq 1 .. lastId'
       /\ saved' \in [DOMAIN saved' -> Seq(Nat)] /\ saved'[lastId + 1] = saved[id]
       /\ \A i \in DOMAIN kept : saved'[i] = kept[i] /\ i < lastId + 1
  <2>1. saveSnapshotAsync(saved[id], kept)
    BY <1>1, <1>7, <1>8
  <2> QED BY <1>4, <1>6, <1>9, <2>1, SnapshotTaken
<1>12. hooks' = hooks /\ next' = next + 1 /\ suites' = suites /\ moment' = moment /\ opened' = opened
  BY <1>1, <1>2, <1>3 DEF GoOn
<1>13. /\ SNAPSHOTS' \in Seq(Nat) /\ Len(SNAPSHOTS') = k /\ DOMAIN SNAPSHOTS' = 1 .. k
       /\ SNAPSHOTS'[k] = lastId + 1
       /\ \A i \in 1 .. k : i # k => i \in DOMAIN SNAPSHOTS /\ SNAPSHOTS'[i] = SNAPSHOTS[i] /\ i < k
  <2> DEFINE front == Front(SNAPSHOTS)
  <2>1. front \in Seq(Nat) /\ Len(front) = k - 1 /\ \A i \in 1 .. k - 1 : front[i] = SNAPSHOTS[i]
    BY <1>10
  <2>2. SNAPSHOTS' = Append(front, lastId + 1)
    BY <1>1, <1>11
  <2> HIDE DEF front
  <2>3. /\ SNAPSHOTS' \in Seq(Nat) /\ Len(SNAPSHOTS') = Len(front) + 1
        /\ SNAPSHOTS'[Len(front) + 1] = lastId + 1
        /\ \A i \in 1 .. Len(front) : SNAPSHOTS'[i] = front[i]
    BY <1>11, <2>1, <2>2, AppendProperties
  <2>4. Len(front) + 1 = k /\ \A i \in 1 .. k : i # k => i \in 1 .. k - 1 /\ i < k
    BY <1>3, <1>5, <2>1
  <2> QED BY <1>3, <2>1, <2>3, <2>4
<1>14. HarnessTypeOK'
  <2>1. suites' \in Seq(BOOLEAN) /\ hooks' \in Seq(HookRecords) /\ opened' \in Nat
    BY <1>t, <1>12 DEF HarnessTypeOK
  <2>2. chain' \in Seq(Nat)
    BY <1>6, <1>11
  <2>3. moment' = "before" /\ next' \in 1 .. Len(hooks') + 1
    BY <1>2, <1>3, <1>12
  <2> QED BY <1>11, <1>13, <2>1, <2>2, <2>3 DEF HarnessTypeOK
<1>15. HooksInOrder'
  BY <1>t, <1>12 DEF HooksInOrder
<1>16. CachesInv'
  <2>1. DOMAIN SNAPSHOTS' = {i \in DOMAIN hooks : hooks[i].initialized}
    BY <1>t, <1>3, <1>13 DEF CachesInv
  <2>2. ASSUME NEW i \in DOMAIN SNAPSHOTS'
        PROVE  SNAPSHOTS'[i] \in DOMAIN saved' /\ MarkedUpTo(hooks, saved'[SNAPSHOTS'[i]], i)
    <3>1. CASE i = k
      BY <1>6, <1>11, <1>13, <3>1
    <3>2. CASE i # k
      <4>1. i \in DOMAIN SNAPSHOTS /\ SNAPSHOTS'[i] = SNAPSHOTS[i] /\ i < k
        BY <1>13, <3>2
      <4>2. SNAPSHOTS[i] \in DOMAIN saved /\ MarkedUpTo(hooks, saved[SNAPSHOTS[i]], i)
            /\ SNAPSHOTS[i] < SNAPSHOTS[k]
        BY <1>t, <1>5, <4>1 DEF CachesInv
      <4>3. SNAPSHOTS[i] \in DOMAIN kept /\ kept[SNAPSHOTS[i]] = saved[SNAPSHOTS[i]]
        BY <1>9, <4>2 DEF id
      <4> QED BY <1>11, <4>1, <4>2, <4>3
    <3> QED BY <3>1, <3>2
  <2>3. ASSUME NEW i \in DOMAIN SNAPSHOTS', NEW j \in DOMAIN SNAPSHOTS', i < j
        PROVE  SNAPSHOTS'[i] < SNAPSHOTS'[j]
    <3>1. i # k
      BY <1>3, <1>13, <2>3
    <3>2. i \in DOMAIN SNAPSHOTS /\ SNAPSHOTS'[i] = SNAPSHOTS[i] /\ SNAPSHOTS[i] \in DOMAIN saved
      BY <1>t, <1>13, <3>1 DEF CachesInv
    <3>3. CASE j = k
      BY <1>4, <1>13, <3>2, <3>3
    <3>4. CASE j # k
      BY <1>t, <1>13, <2>3, <3>2, <3>4 DEF CachesInv
    <3> QED BY <3>3, <3>4
  <2>4. next' - 1 <= Len(SNAPSHOTS') /\ MarkedUpTo(hooks, chain', Len(SNAPSHOTS'))
    BY <1>3, <1>5, <1>6, <1>11, <1>12, <1>13
  <2> QED BY <1>t, <1>12, <2>1, <2>2, <2>3, <2>4 DEF CachesInv
<1>17. SandboxesInv'
  <2>1. \A i \in DOMAIN hooks : hooks[i].kind = "cache"
    BY <1>t, <1>1, <1>2, <1>3 DEF HooksInOrder
  <2>2. hooks # <<>> => hooks[1].kind = "cache"
    BY <1>3, <2>1
  <2>3. ASSUME NEW i \in DOMAIN hooks PROVE ~Entered(i)'
    BY <1>12, <2>1 DEF Entered
  <2> QED BY <1>12, <2>2, <2>3 DEF SandboxesInv
<1> QED BY <1>14, <1>15, <1>16, <1>17 DEF HarnessInv

\* A file of sandboxes has no caches.
LEMMA NoCaches ==
  ASSUME HarnessInv, NEW n \in DOMAIN hooks, hooks[n].kind = "sandbox"
  PROVE  /\ \A i \in DOMAIN hooks : hooks[i].kind = "sandbox" /\ hooks[i].initialized = FALSE
         /\ DOMAIN SNAPSHOTS = {}
<1>t. HarnessTypeOK /\ HooksInOrder /\ CachesInv
  BY DEF HarnessInv
<1>1. \A i \in DOMAIN hooks : hooks[i].kind = "sandbox"
  BY <1>t DEF HooksInOrder
<1>2. \A i \in DOMAIN hooks : hooks[i].initialized \in BOOLEAN
  BY <1>t, HookTypes
<1>3. \A i \in DOMAIN hooks : hooks[i].initialized => hooks[i].kind = "cache"
  BY <1>t DEF CachesInv
<1>4. \A i \in DOMAIN hooks : ~hooks[i].initialized
  BY <1>1, <1>3
<1>5. \A i \in DOMAIN hooks : hooks[i].initialized = FALSE
  BY <1>2, <1>4
<1> QED BY <1>t, <1>1, <1>4, <1>5 DEF CachesInv

LEMMA SandboxBeforeStep ==
  ASSUME HarnessInv, NEW hook, SandboxBefore(hook)
  PROVE  HarnessInv'
<1>t. HarnessTypeOK /\ HooksInOrder /\ CachesInv /\ SandboxesInv
  BY DEF HarnessInv
<1> DEFINE new == [hook EXCEPT !.snapshotId = lastId',
                               !.found = IF hook.snapshotId = NoSnapshot THEN chain ELSE @]
<1>1. /\ Called(hook) /\ hook.kind = "sandbox" /\ saveSnapshotAsync(chain, saved)
      /\ GoOn(new) /\ SNAPSHOTS' = SNAPSHOTS
  BY DEF SandboxBefore
<1>2. /\ moment = "before" /\ next \in 1 .. Len(hooks) /\ hook = hooks[next] /\ hook \in HookRecords
      /\ hook.found \in Seq(Nat)
  BY <1>1, CalledHook
<1>3. /\ Len(hooks) \in Nat /\ DOMAIN hooks = 1 .. Len(hooks) /\ 1 \in 1 .. Len(hooks)
  BY <1>t, <1>2, HookTypes
<1>4. /\ chain \in Seq(Nat) /\ lastId \in Nat /\ DOMAIN saved \subseteq 1 .. lastId
      /\ saved \in [DOMAIN saved -> Seq(Nat)]
  BY <1>t DEF HarnessTypeOK
<1>5. /\ lastId' = lastId + 1 /\ lastId' \in Nat /\ chain' = chain
      /\ DOMAIN saved' = DOMAIN saved \cup {lastId + 1} /\ DOMAIN saved' \subseteq 1 .. lastId'
      /\ saved' \in [DOMAIN saved' -> Seq(Nat)] /\ saved'[lastId + 1] = chain
      /\ \A id \in DOMAIN saved : saved'[id] = saved[id] /\ id < lastId + 1
  BY <1>1, <1>4, SnapshotTaken
<1>6. /\ new \in HookRecords /\ new.kind = "sandbox" /\ new.depth = hook.depth
      /\ new.initialized = hook.initialized /\ new.snapshotId = lastId + 1
      /\ new.found = IF hook.snapshotId = NoSnapshot THEN chain ELSE hook.found
  <2>1. (IF hook.snapshotId = NoSnapshot THEN chain ELSE hook.found) \in Seq(Nat)
    BY <1>2, <1>4
  <2> QED BY <1>1, <1>2, <1>5, <2>1 DEF HookRecords
<1> HIDE DEF new
<1>7. /\ hooks' \in Seq(HookRecords) /\ Len(hooks') = Len(hooks) /\ DOMAIN hooks' = 1 .. Len(hooks)
      /\ \A i \in 1 .. Len(hooks) : hooks'[i] = IF i = next THEN new ELSE hooks[i]
      /\ next' = next + 1 /\ suites' = suites /\ moment' = moment /\ opened' = opened
  BY <1>t, <1>1, <1>2, <1>6, HookWritten
<1>8. /\ \A i \in DOMAIN hooks : hooks[i].kind = "sandbox" /\ hooks[i].initialized = FALSE
      /\ DOMAIN SNAPSHOTS = {}
  BY <1>1, <1>2, <1>3, NoCaches
<1>9. \A i \in 1 .. Len(hooks) : /\ hooks'[i].kind = "sandbox" /\ hooks'[i].initialized = FALSE
                                /\ hooks'[i].depth = hooks[i].depth
  BY <1>2, <1>3, <1>6, <1>7, <1>8
<1>10. HarnessTypeOK'
  <2>1. next' \in 1 .. Len(hooks') + 1
    BY <1>2, <1>3, <1>7
  <2> QED BY <1>t, <1>1, <1>2, <1>4, <1>5, <1>7, <2>1 DEF HarnessTypeOK
<1>11. HooksInOrder'
  BY <1>3, <1>7, <1>8, <1>9, OrderKept
<1>12. CachesInv'
  <2>1. {i \in DOMAIN hooks' : hooks'[i].initialized} = {}
    BY <1>7, <1>9
  <2>2. hooks'[1].kind = "sandbox"
    BY <1>3, <1>9
  <2> QED BY <1>1, <1>7, <1>8, <1>9, <2>1, <2>2 DEF CachesInv
<1>13. hooks'[1].found = chain /\ (next # 1 => chain = hooks[1].found /\ hooks'[1] = hooks[1]
                                               /\ hooks[1].snapshotId # NoSnapshot)
  <2>0. hooks # <<>> /\ hooks[1].kind = "sandbox"
    BY <1>3, <1>8
  <2>1. CASE next = 1
    <3>1. hooks'[1] = new /\ hook = hooks[1]
      BY <1>2, <1>3, <1>7, <2>1
    <3>2. hook.snapshotId # NoSnapshot => chain = hook.found
      BY <1>t, <1>2, <2>0, <3>1 DEF SandboxesInv
    <3> QED BY <1>6, <2>1, <3>1, <3>2
  <2>2. CASE next # 1
    <3>1. next > 1 /\ hooks'[1] = hooks[1]
      BY <1>2, <1>3, <1>7, <2>2
    <3>2. chain = hooks[1].found /\ hooks[1].snapshotId # NoSnapshot
      BY <1>t, <1>2, <2>0, <3>1 DEF SandboxesInv
    <3> QED BY <3>1, <3>2
  <2> QED BY <2>1, <2>2
<1>14. ASSUME NEW i \in DOMAIN hooks', i < next
       PROVE  /\ hooks'[i] = hooks[i] /\ hooks[i].snapshotId \in DOMAIN saved /\ i \in DOMAIN hooks
              /\ Entered(i) /\ saved[hooks[i].snapshotId] = hooks[1].found /\ next # 1
  <2>1. i \in 1 .. Len(hooks) /\ i # next /\ next # 1
    BY <1>2, <1>3, <1>7, <1>14
  <2>2. Entered(i)
    BY <1>2, <1>3, <1>8, <1>14, <2>1 DEF Entered
  <2> QED BY <1>t, <1>3, <1>7, <2>1, <2>2 DEF SandboxesInv
<1>15. SandboxesInv'
  <2>1. ASSUME NEW i \in DOMAIN hooks', Entered(i)' PROVE i = next \/ i < next
    <3>1. i < next'
      BY <1>2, <1>7, <2>1 DEF Entered
    <3> QED BY <1>2, <1>3, <1>7, <3>1
  <2>2. ASSUME NEW i \in DOMAIN hooks', Entered(i)'
        PROVE  hooks'[i].snapshotId \in DOMAIN saved' /\ saved'[hooks'[i].snapshotId] = hooks'[1].found
    <3>1. CASE i = next
      <4>1. hooks'[i].snapshotId = lastId + 1
        BY <1>6, <1>7, <3>1
      <4> QED BY <1>5, <1>13, <4>1
    <3>2. CASE i < next
      BY <1>5, <1>13, <1>14, <3>2
    <3> QED BY <2>1, <2>2, <3>1, <3>2
  <2>3. ASSUME NEW i \in DOMAIN hooks', NEW j \in DOMAIN hooks', Entered(i)', Entered(j)', i < j
        PROVE  hooks'[i].snapshotId < hooks'[j].snapshotId
    <3>1. i < next
      BY <1>2, <1>3, <1>7, <2>1, <2>3
    <3>2. CASE j = next
      <4>1. hooks'[j].snapshotId = lastId + 1
        BY <1>6, <1>7, <3>2
      <4> QED BY <1>5, <1>14, <3>1, <4>1
    <3>3. CASE j < next
      BY <1>t, <1>14, <2>3, <3>1, <3>3 DEF SandboxesInv
    <3> QED BY <2>1, <2>3, <3>2, <3>3
  <2>4. chain' = hooks'[1].found /\ hooks'[1].snapshotId # NoSnapshot
    <3>1. CASE next = 1
      <4>0. 1 \in 1 .. Len(hooks) /\ hooks'[1] = new
        BY <1>3, <1>7, <3>1
      <4>1. hooks'[1].snapshotId = lastId + 1
        BY <1>6, <4>0
      <4>2. lastId + 1 # NoSnapshot
        BY <1>4 DEF NoSnapshot
      <4> QED BY <1>5, <1>13, <4>1, <4>2
    <3>2. CASE next # 1
      BY <1>5, <1>13, <3>2
    <3> QED BY <3>1, <3>2
  <2> QED BY <1>2, <1>7, <2>2, <2>3, <2>4 DEF SandboxesInv
<1> QED BY <1>10, <1>11, <1>12, <1>15 DEF HarnessInv

LEMMA AfterEachStep ==
  ASSUME HarnessInv, AfterEach
  PROVE  HarnessInv'
<1>t. HarnessTypeOK /\ HooksInOrder /\ CachesInv /\ SandboxesInv
  BY DEF HarnessInv
<1>1. /\ moment = "after" /\ next > 0 /\ next' = next - 1 /\ SNAPSHOTS' = SNAPSHOTS
      /\ suites' = suites /\ hooks' = hooks /\ moment' = moment /\ opened' = opened
      /\ IF hooks[next].kind = "sandbox" THEN revertByIdAsync(hooks[next].snapshotId)
         ELSE chain' = chain /\ saved' = saved /\ lastId' = lastId
  BY DEF AfterEach, node
<1>2. /\ Len(hooks) \in Nat /\ DOMAIN hooks = 1 .. Len(hooks) /\ next \in 1 .. Len(hooks)
      /\ \A i \in 1 .. Len(hooks) : hooks[i].snapshotId \in Nat
      /\ lastId \in Nat /\ DOMAIN saved \subseteq 1 .. lastId /\ saved \in [DOMAIN saved -> Seq(Nat)]
  <2>1. Len(hooks) \in Nat /\ DOMAIN hooks = 1 .. Len(hooks)
        /\ \A i \in 1 .. Len(hooks) : hooks[i].snapshotId \in Nat
    BY <1>t, HookTypes
  <2>2. next \in 0 .. Len(hooks)
    BY <1>t, <1>1 DEF HarnessTypeOK
  <2> QED BY <1>t, <1>1, <2>1, <2>2 DEF HarnessTypeOK
<1>3. HooksInOrder'
  BY <1>t, <1>1 DEF HooksInOrder
<1>4. ASSUME NEW i \in DOMAIN hooks, Entered(i)' PROVE Entered(i) /\ i < next
  BY <1>1, <1>2, <1>4 DEF Entered
<1>5. CASE hooks[next].kind # "sandbox"
  <2>1. chain' = chain /\ saved' = saved /\ lastId' = lastId
    BY <1>1, <1>5
  <2>2. HarnessTypeOK' /\ CachesInv'
    BY <1>t, <1>1, <1>2, <2>1 DEF HarnessTypeOK, CachesInv
  <2>3. \A i \in DOMAIN hooks : hooks[i].kind # "sandbox"
    BY <1>t, <1>2, <1>5 DEF HooksInOrder
  <2>4. SandboxesInv'
    BY <1>1, <1>2, <2>3 DEF SandboxesInv, Entered
  <2> QED BY <1>3, <2>2, <2>4 DEF HarnessInv
<1>6. CASE hooks[next].kind = "sandbox"
  <2> DEFINE id == hooks[next].snapshotId
             kept == {i \in DOMAIN saved : i < id}
  <2>1. id \in DOMAIN saved /\ saved[id] = hooks[1].found
    <3>1. Entered(next)
      BY <1>1, <1>2, <1>6 DEF Entered
    <3> QED BY <1>t, <1>2, <3>1 DEF SandboxesInv
  <2>2. /\ chain' = hooks[1].found /\ lastId' = lastId
        /\ saved' = [i \in kept |-> saved[i]]
    BY <1>1, <1>6, <2>1 DEF revertByIdAsync, StateAfterRevert, KeptAfterRevert
  <2>3. /\ DOMAIN saved' = kept /\ saved' \in [kept -> Seq(Nat)]
        /\ \A i \in kept : saved'[i] = saved[i]
    BY <1>2, <2>2
  <2>4. /\ \A i \in DOMAIN hooks : hooks[i].kind = "sandbox" /\ hooks[i].initialized = FALSE
        /\ DOMAIN SNAPSHOTS = {}
    BY <1>2, <1>6, NoCaches
  <2>5. chain' \in Seq(Nat) /\ DOMAIN saved' \subseteq 1 .. lastId
    BY <1>2, <2>1, <2>2, <2>3
  <2>6. HarnessTypeOK'
    <3>1. next' \in 0 .. Len(hooks)
      BY <1>1, <1>2
    <3> HIDE DEF kept
    <3> QED BY <1>t, <1>1, <2>2, <2>3, <2>5, <3>1 DEF HarnessTypeOK
  <2>7. CachesInv'
    BY <1>t, <1>1, <2>4 DEF CachesInv
  <2>8. SandboxesInv'
    <3>1. ASSUME NEW i \in DOMAIN hooks, Entered(i)'
          PROVE  hooks[i].snapshotId \in DOMAIN saved' /\ saved'[hooks[i].snapshotId] = hooks[1].found
      <4>1. Entered(i) /\ i < next /\ Entered(next)
        BY <1>1, <1>2, <1>4, <1>6, <3>1 DEF Entered
      <4>2. hooks[i].snapshotId \in DOMAIN saved /\ saved[hooks[i].snapshotId] = hooks[1].found
            /\ hooks[i].snapshotId < id
        BY <1>t, <1>2, <4>1 DEF SandboxesInv
      <4> QED BY <2>3, <4>2
    <3>2. ASSUME NEW i \in DOMAIN hooks, NEW j \in DOMAIN hooks, Entered(i)', Entered(j)', i < j
          PROVE  hooks[i].snapshotId < hooks[j].snapshotId
      BY <1>t, <1>4, <3>2 DEF SandboxesInv
    <3> QED BY <1>1, <2>2, <3>1, <3>2 DEF SandboxesInv
  <2> QED BY <1>3, <2>6, <2>7, <2>8 DEF HarnessInv
<1> QED BY <1>5, <1>6

LEMMA HarnessStep == HarnessInv /\ [HarnessNext]_harnessVars => HarnessInv'
<1> SUFFICES ASSUME HarnessInv, [HarnessNext]_harnessVars PROVE HarnessInv'
  OBVIOUS
<1>1. CASE UNCHANGED harnessVars
  <2>1. /\ chain' = chain /\ saved' = saved /\ lastId' = lastId /\ SNAPSHOTS' = SNAPSHOTS
        /\ suites' = suites /\ hooks' = hooks /\ next' = next /\ moment' = moment
        /\ opened' = opened
    BY <1>1 DEF harnessVars, node
  <2> QED BY <2>1 DEF HarnessInv, HarnessTypeOK, HooksInOrder, CachesInv, SandboxesInv, Entered
<1>2. ASSUME NEW kind \in {"cache", "sandbox"}, NEW count \in 0 .. MaxHooks, OpenSuite(kind, count)
      PROVE  HarnessInv'
  BY <1>2, OpenSuiteStep
<1>3. CASE CloseSuite
  BY <1>3, CloseSuiteStep
<1>4. CASE StartTest
  BY <1>4, StartTestStep
<1>5. CASE RunTest
  BY <1>5, RunTestStep
<1>6. CASE AfterEach
  BY <1>6, AfterEachStep
<1>7. CASE EndTest
  BY <1>7, EndTestStep
<1>8. ASSUME NEW hook \in ToSet(hooks), SandboxBefore(hook) PROVE HarnessInv'
  BY <1>8, SandboxBeforeStep
<1>9. ASSUME NEW hook \in ToSet(hooks), CacheInitialize(hook) PROVE HarnessInv'
  BY <1>9, CacheInitializeStep
<1>10. ASSUME NEW hook \in ToSet(hooks), InitializerThrows(hook) PROVE HarnessInv'
  BY <1>10, InitializerThrowsStep
<1>11. ASSUME NEW hook \in ToSet(hooks), CacheRestore(hook) PROVE HarnessInv'
  BY <1>11, CacheRestoreStep
<1> QED BY <1>1, <1>2, <1>3, <1>4, <1>5, <1>6, <1>7, <1>8, <1>9, <1>10, <1>11 DEF HarnessNext

\* A chain marked by every hook is what the outermost one found and the marks.
LEMMA MarkedInFull ==
  ASSUME NEW found \in Seq(Nat), NEW marks \in Seq(Nat), NEW state \in Seq(Nat),
         Len(state) = Len(found) + Len(marks),
         \A j \in 1 .. Len(found) : state[j] = found[j],
         \A j \in 1 .. Len(marks) : state[Len(found) + j] = marks[j]
  PROVE  state = found \o marks
<1> DEFINE whole == found \o marks
<1>1. /\ whole \in Seq(Nat) /\ Len(whole) = Len(found) + Len(marks)
      /\ \A i \in 1 .. Len(found) + Len(marks) :
           whole[i] = IF i <= Len(found) THEN found[i] ELSE marks[i - Len(found)]
  BY ConcatProperties
<1>2. Len(found) \in Nat /\ Len(marks) \in Nat
  OBVIOUS
<1> HIDE DEF whole
<1>3. ASSUME NEW i \in 1 .. Len(state) PROVE state[i] = whole[i]
  <2>1. CASE i <= Len(found)
    <3>1. i \in 1 .. Len(found)
      BY <1>2, <2>1
    <3> QED BY <1>1, <2>1, <3>1
  <2>2. CASE ~(i <= Len(found))
    <3> DEFINE j == i - Len(found)
    <3>1. j \in 1 .. Len(marks) /\ Len(found) + j = i
      BY <1>2, <2>2
    <3>2. whole[i] = marks[j]
      BY <1>1, <2>2
    <3> HIDE DEF j
    <3> QED BY <3>1, <3>2
  <2> QED BY <2>1, <2>2
<1>4. state = whole
  BY <1>1, <1>3, SeqEqual
<1> QED BY <1>4 DEF whole

LEMMA HarnessInvSuffices == HarnessInv => TestsAreSandboxed
<1> SUFFICES ASSUME HarnessInv PROVE TestsAreSandboxed
  OBVIOUS
<1>t. HarnessTypeOK /\ HooksInOrder /\ CachesInv /\ SandboxesInv
  BY DEF HarnessInv
<1>0. /\ Len(hooks) \in Nat /\ DOMAIN hooks = 1 .. Len(hooks) /\ hooks \in Seq(HookRecords)
      /\ Len(SNAPSHOTS) \in Nat /\ DOMAIN SNAPSHOTS = 1 .. Len(SNAPSHOTS)
      /\ \A i \in 1 .. Len(hooks) : /\ hooks[i].kind \in {"cache", "sandbox"}
                                    /\ hooks[i].mark \in Nat /\ hooks[i].found \in Seq(Nat)
  BY <1>t, HookTypes
<1>1. ASSUME moment = "before", next > Len(hooks), hooks # <<>>
      PROVE  chain = hooks[1].found \o Marks
  <2>1. next = Len(hooks) + 1 /\ 1 \in 1 .. Len(hooks) /\ next > 1
    <3>1. next \in 1 .. Len(hooks) + 1
      BY <1>t, <1>1 DEF HarnessTypeOK
    <3>2. Len(hooks) # 0
      BY <1>0, <1>1
    <3> QED BY <1>0, <1>1, <3>1, <3>2
  <2>2. chain \in Seq(Nat) /\ hooks[1].found \in Seq(Nat)
    BY <1>t, <1>0, <2>1 DEF HarnessTypeOK
  <2>3. CASE hooks[1].kind = "cache"
    <3>1. \A i \in DOMAIN hooks : hooks[i].kind = "cache"
      BY <1>t, <1>0, <2>1, <2>3 DEF HooksInOrder
    <3>2. Marks = [i \in 1 .. Len(hooks) |-> hooks[i].mark]
      <4>1. {i \in DOMAIN hooks : hooks[i].kind = "cache"} = 1 .. Len(hooks)
        BY <1>0, <3>1
      <4> QED BY <4>1 DEF Marks
    <3>3. Marks \in [1 .. Len(hooks) -> Nat] /\ \A j \in 1 .. Len(hooks) : Marks[j] = hooks[j].mark
      BY <1>0, <3>2
    <3>4. Marks \in Seq(Nat) /\ Len(Marks) = Len(hooks)
      BY <1>0, <3>3
    <3>5. Len(SNAPSHOTS) = Len(hooks) /\ MarkedUpTo(hooks, chain, Len(SNAPSHOTS))
      <4>1. next - 1 <= Len(SNAPSHOTS) /\ MarkedUpTo(hooks, chain, Len(SNAPSHOTS))
        BY <1>t, <1>1, <2>1, <2>3 DEF CachesInv
      <4>2. DOMAIN SNAPSHOTS \subseteq DOMAIN hooks
        BY <1>t DEF CachesInv
      <4>3. Len(SNAPSHOTS) >= Len(hooks)
        BY <1>0, <2>1, <4>1
      <4>4. Len(SNAPSHOTS) \in DOMAIN SNAPSHOTS
        BY <1>0, <2>1, <4>3
      <4>5. Len(SNAPSHOTS) \in 1 .. Len(hooks)
        BY <1>0, <4>2, <4>4
      <4>6. Len(SNAPSHOTS) = Len(hooks)
        <5>1. Len(SNAPSHOTS) \in Nat /\ Len(hooks) \in Nat /\ Len(SNAPSHOTS) <= Len(hooks)
          BY <1>0, <4>5
        <5> QED BY <4>3, <5>1
      <4> QED BY <4>1, <4>6
    <3>6. /\ Len(chain) = Len(hooks[1].found) + Len(Marks)
          /\ \A j \in 1 .. Len(hooks[1].found) : chain[j] = hooks[1].found[j]
          /\ \A j \in 1 .. Len(Marks) : chain[Len(hooks[1].found) + j] = Marks[j]
      BY <3>3, <3>4, <3>5 DEF MarkedUpTo
    <3> QED BY <2>2, <3>4, <3>6, MarkedInFull
  <2>4. CASE hooks[1].kind = "sandbox"
    <3>1. chain = hooks[1].found
      BY <1>t, <1>1, <2>1, <2>4 DEF SandboxesInv
    <3>2. \A i \in DOMAIN hooks : hooks[i].kind # "cache"
      BY <1>t, <1>0, <2>1, <2>4 DEF HooksInOrder
    <3>3. {i \in DOMAIN hooks : hooks[i].kind = "cache"} = {}
      BY <3>2
    <3>4. Marks = <<>>
      BY <3>3 DEF Marks
    <3> QED BY <2>2, <3>1, <3>4, ConcatEmptySeq
  <2> QED BY <1>0, <2>1, <2>3, <2>4
<1>2. ASSUME NEW i \in DOMAIN SNAPSHOTS
      PROVE  SNAPSHOTS[i] \in DOMAIN saved /\ Last(saved[SNAPSHOTS[i]]) = hooks[i].mark
  <2>1. SNAPSHOTS[i] \in DOMAIN saved /\ MarkedUpTo(hooks, saved[SNAPSHOTS[i]], i)
    BY <1>t DEF CachesInv
  <2>2. i \in 1 .. i
    BY <1>0
  <2>3. saved[SNAPSHOTS[i]][Len(saved[SNAPSHOTS[i]])] = hooks[i].mark
    BY <2>1, <2>2 DEF MarkedUpTo
  <2> QED BY <2>1, <2>3 DEF Last
<1>3. DOMAIN SNAPSHOTS = {i \in DOMAIN hooks : hooks[i].initialized}
  BY <1>t DEF CachesInv
<1> QED BY <1>1, <1>2, <1>3 DEF TestsAreSandboxed, CleanStart, SnapshotsBelongToOpenSuites

\* However suites are nested, whichever sandbox of testingUtils.ts they use and
\* whatever initializer throws, every test starts on the chain its suites set
\* up, and the stack of snapshots holds those of the open suites.
THEOREM EveryTestStartsClean == HarnessSpec => []TestsAreSandboxed
BY HarnessStart, HarnessStep, HarnessInvSuffices, PTL DEF HarnessSpec
==============================================================================
