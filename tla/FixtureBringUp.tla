--------------------------- MODULE FixtureBringUp ---------------------------
(***************************************************************************)
(* A test session: one of the fixtures SystemFixture and SetFixture builds *)
(* a system through the deploy helpers, the test deploys the contract it is*)
(* about with the libraries it is linked to, and creates Sets, whose       *)
(* addresses ProtocolUtils finds in the logs of the latest block while     *)
(* other accounts use the same node.                                       *)
(*                                                                         *)
(* An address is a pair of a name and a creation number, and the number 0  *)
(* is for accounts and contracts the session did not create.               *)
(***************************************************************************)
EXTENDS DeployHelper, Integers, SequencesExt

CONSTANT MaxBlocks    \* bound on the blocks after the subject is deployed

ASSUME BlockAssumption == MaxBlocks \in Nat

Undefined == <<"undefined", 0>>
Outside(name) == <<name, 0>>

-----------------------------------------------------------------------------
(* The scripts of the fixtures: the awaits of initialize, in their order *)

\* given: for each parameter of the constructor, the fields it is made of.
Deploy(field, helper, contract, given) ==
  [do |-> "deploy", field |-> field, helper |-> helper, contract |-> contract, given |-> given]
Approve(token, spender) == [do |-> "approve", token |-> token, spender |-> spender]
Initialize(fields) == [do |-> "initialize", fields |-> fields]

Self == <<<<"controller">>>>
SelfAndWeth == <<<<"controller">>, <<"weth">>>>

TokenDeployments(helper, tokens) ==
  [i \in DOMAIN tokens |-> Deploy(tokens[i], helper, "StandardTokenMock", <<<<"owner">>>>)]

Approvals(tokens, spender) == [i \in DOMAIN tokens |-> Approve(tokens[i], spender)]

SystemStandardComponents ==
  <<Deploy("weth", "external", "WETH9", <<>>)>>
  \o TokenDeployments("mocks", <<"usdc", "wbtc", "dai">>)
  \o <<Deploy("ETH_USD_Oracle", "mocks", "OracleMock", <<>>),
       Deploy("USD_USD_Oracle", "mocks", "OracleMock", <<>>),
       Deploy("BTC_USD_Oracle", "mocks", "OracleMock", <<>>),
       Deploy("DAI_USD_Oracle", "mocks", "OracleMock", <<>>)>>
  \o Approvals(<<"weth", "usdc", "wbtc", "dai">>, "issuanceModule")

SystemPriceOracle ==
  Deploy("priceOracle", "core", "PriceOracle",
         <<<<"controller">>, <<"usdc">>, <<>>, <<"weth", "usdc", "wbtc", "dai">>,
           <<"usdc", "usdc", "usdc", "usdc">>,
           <<"ETH_USD_Oracle", "USD_USD_Oracle", "BTC_USD_Oracle", "DAI_USD_Oracle">>>>)

SystemRest ==
  <<Deploy("integrationRegistry", "core", "IntegrationRegistry", Self),
    Deploy("setValuer", "core", "SetValuer", Self),
    Deploy("streamingFeeModule", "modules", "StreamingFeeModule", Self),
    Deploy("navIssuanceModule", "modules", "CustomOracleNavIssuanceModule", SelfAndWeth)>>

SystemInitialize ==
  Initialize({"factory", "issuanceModule", "streamingFeeModule", "navIssuanceModule",
              "integrationRegistry", "priceOracle", "setValuer"})

SystemBegin ==
  <<Deploy("controller", "core", "Controller", <<<<"feeRecipient">>>>),
    Deploy("issuanceModule", "modules", "BasicIssuanceModule", Self)>>

SystemRegistryAndFactory ==
  <<Deploy("integrationRegistry", "core", "IntegrationRegistry", Self),
    Deploy("factory", "core", "SetTokenCreator", Self)>>

RegistryRedeployedLast ==
  SystemBegin \o SystemStandardComponents \o SystemRegistryAndFactory \o <<SystemPriceOracle>>
  \o SystemRest \o <<SystemInitialize, Head(SystemRest)>>

ComponentsAfterOracle ==
  SystemBegin \o SystemRegistryAndFactory \o <<SystemPriceOracle>> \o SystemStandardComponents
  \o SystemRest \o <<SystemInitialize>>

\* The IntegrationRegistry is deployed twice; the field keeps the second.
SystemFixture ==
  SystemBegin \o SystemStandardComponents \o SystemRegistryAndFactory \o <<SystemPriceOracle>>
  \o SystemRest \o <<SystemInitialize>>

SetTokens == <<"weth", "usdc", "wbtc", "dai", "usdt">>

SetStandardComponents ==
  <<Deploy("weth", "setV2", "WETH9", <<>>)>>
  \o TokenDeployments("setV2", Tail(SetTokens))
  \o Approvals(SetTokens, "issuanceModule") \o Approvals(SetTokens, "debtIssuanceModule")

SetModules ==
  <<Deploy("issuanceModule", "setV2", "BasicIssuanceModule", Self),
    Deploy("streamingFeeModule", "setV2", "StreamingFeeModule", Self),
    Deploy("debtIssuanceModule", "setV2", "DebtIssuanceModule", Self),
    Deploy("governanceModule", "setV2", "GovernanceModule", Self),
    Deploy("airdropModule", "setV2", "AirdropModule", Self),
    Deploy("slippageIssuanceModule", "setV2", "SlippageIssuanceModule", Self)>>

SetInitialize ==
  Initialize({"factory", "issuanceModule", "streamingFeeModule", "debtIssuanceModule",
              "governanceModule", "generalIndexModule", "airdropModule", "wrapModule",
              "slippageIssuanceModule", "integrationRegistry"})

SetFixture ==
  <<Deploy("controller", "setV2", "Controller", <<<<"feeRecipient">>>>),
    Deploy("integrationRegistry", "setV2", "IntegrationRegistry", Self),
    Deploy("factory", "setV2", "SetTokenCreator", Self)>>
  \o SetModules \o SetStandardComponents
  \o <<Deploy("generalIndexModule", "setV2", "GeneralIndexModule", SelfAndWeth),
       Deploy("wrapModule", "setV2", "WrapModule", SelfAndWeth), SetInitialize>>

Fixtures == [system |-> SystemFixture, set |-> SetFixture]

Fields ==
  {"controller", "integrationRegistry", "factory", "priceOracle", "setValuer", "issuanceModule",
   "streamingFeeModule", "navIssuanceModule", "debtIssuanceModule", "governanceModule",
   "airdropModule", "slippageIssuanceModule", "generalIndexModule", "wrapModule", "weth", "usdc",
   "wbtc", "dai", "usdt", "ETH_USD_Oracle", "USD_USD_Oracle", "BTC_USD_Oracle", "DAI_USD_Oracle"}

-----------------------------------------------------------------------------

VARIABLES fixture,     \* "none" or the fixture in use
          at,          \* its next step
          stage,       \* "building", "testing", "subject", "ready" or "thrown"
          fields,      \* the fixture's fields
          created,     \* the contracts of the session: what each was given
          registered,  \* the addresses the Controller knows
          allowances,  \* the pairs of token and spender that were approved
          subject,     \* the contract the test is about: helper and contract
          libraries,   \* the libraries the test deployed: name -> address
          blocks,      \* since then: the creators of the Sets of each block
          own          \* the place in blocks of the Set the test created, and of
                       \* the one getCreatedSetTokenAddress found

session == <<fixture, at, stage>>
world == <<fields, created, registered, allowances>>
testing == <<subject, libraries>>
fixtureVars == <<session, world, testing, blocks, own>>

NoSet == <<0, 0>>
Thrown == <<0, 1>>

FixtureInit ==
  /\ fixture = "none" /\ at = 1 /\ stage = "building"
  /\ fields = [field \in Fields |-> Undefined]
  /\ created = <<>> /\ registered = {} /\ allowances = {}
  /\ subject = <<"", "">> /\ libraries = <<>>
  /\ blocks = <<>> /\ own = [made |-> NoSet, found |-> NoSet]

-----------------------------------------------------------------------------
(* Deployments *)

Value(name) == IF name \in Fields THEN fields[name] ELSE Outside(name)

\* What the caller means each parameter of the constructor to be.
Meant(contract, given) ==
  [role \in ToSet(Constructors[contract]) |->
     LET names == given[CHOOSE i \in DOMAIN given : Constructors[contract][i] = role]
     IN  [i \in DOMAIN names |-> Value(names[i])]]

\* The contract a helper creates: it hands the arguments on by position.
Create(helper, contract, meant, links) ==
  LET position(role) == CHOOSE i \in DOMAIN Constructors[contract] : Constructors[contract][i] = role
  IN  [contract |-> contract, links |-> links,
       storage  |-> [role \in DOMAIN meant |-> meant[Helpers[helper][contract][position(role)]]]]

NextAddress(contract) == <<contract, Len(created) + 1>>

Throw ==
  /\ stage' = "thrown"
  /\ UNCHANGED <<fixture, at, world, testing, blocks, own>>

-----------------------------------------------------------------------------
(* The steps of initialize *)

ChooseFixture(name) ==
  /\ fixture = "none" /\ fixture' = name
  /\ UNCHANGED <<at, stage, world, testing, blocks, own>>

Step(kind) ==
  /\ fixture # "none" /\ stage = "building" /\ at <= Len(Fixtures[fixture])
  /\ Fixtures[fixture][at].do = kind

GoOnBuilding == at' = at + 1 /\ UNCHANGED <<fixture, stage, testing, blocks, own>>

\* Reading the address of a field that is undefined throws.
DeployStep ==
  /\ Step("deploy")
  /\ LET step  == Fixtures[fixture][at]
         meant == Meant(step.contract, step.given)
     IN  IF \E role \in DOMAIN meant : Undefined \in ToSet(meant[role])
         THEN Throw
         ELSE /\ fields' = [fields EXCEPT ![step.field] = NextAddress(step.contract)]
              /\ created' = Append(created, Create(step.helper, step.contract, meant, <<>>))
              /\ UNCHANGED <<registered, allowances>>
              /\ GoOnBuilding

ApproveStep ==
  /\ Step("approve")
  /\ LET step == Fixtures[fixture][at]
     IN  IF Undefined \in {fields[step.token], fields[step.spender]}
         THEN Throw
         ELSE /\ allowances' = allowances \cup {<<fields[step.token], fields[step.spender]>>}
              /\ UNCHANGED <<fields, created, registered>>
              /\ GoOnBuilding

InitializeStep ==
  /\ Step("initialize")
  /\ LET addresses == {fields[field] : field \in Fixtures[fixture][at].fields}
     IN  IF Undefined \in addresses
         THEN Throw
         ELSE registered' = addresses /\ UNCHANGED <<fields, created, allowances>> /\ GoOnBuilding

EndFixture ==
  /\ stage = "building" /\ fixture # "none" /\ at > Len(Fixtures[fixture])
  /\ stage' = "testing"
  /\ UNCHANGED <<fixture, at, world, testing, blocks, own>>

-----------------------------------------------------------------------------
(* The contract under test *)

ChooseSubject(helper, contract) ==
  /\ stage = "testing"
  /\ stage' = "subject" /\ subject' = <<helper, contract>>
  /\ UNCHANGED <<fixture, at, world, libraries, blocks, own>>

\* deployLibraries.ts, called by the test or by deploySetV2.ts.
DeployLibrary(library) ==
  /\ stage = "subject" /\ library \in LinksOf(subject[2]) \ DOMAIN libraries
  /\ libraries' = Joined(libraries, [new \in {library} |-> NextAddress(library)])
  /\ created' = Append(created, [contract |-> library, links |-> <<>>, storage |-> <<>>])
  /\ UNCHANGED <<session, fields, registered, allowances, subject, blocks, own>>

SubjectGiven == LET roles == Constructors[subject[2]] IN [i \in DOMAIN roles |-> <<roles[i]>>]

\* The factory throws when a library of the bytecode is not linked.
DeploySubject ==
  /\ stage = "subject" /\ DOMAIN libraries = LinksOf(subject[2])
  /\ IF ~(LibrariesOf(subject[2]) \subseteq DOMAIN libraries)
     THEN Throw
     ELSE /\ created' = Append(created, Create(subject[1], subject[2],
                                               Meant(subject[2], SubjectGiven), libraries))
          /\ registered' = IF subject[1] = "modules"
                           THEN registered \cup {NextAddress(subject[2])} ELSE registered
          /\ stage' = "ready"
          /\ UNCHANGED <<fixture, at, fields, allowances, testing, blocks, own>>

-----------------------------------------------------------------------------
(* createSetToken *)

Creators == {<<>>, <<"other">>, <<"other", "other">>}
OwnBlocks == {<<"test">>, <<"other", "test">>, <<"test", "other">>}

MineOthers(block) ==
  /\ stage = "ready" /\ Len(blocks) < MaxBlocks
  /\ blocks' = Append(blocks, block)
  /\ UNCHANGED <<session, world, testing, own>>

CreateSetToken(block) ==
  /\ stage = "ready" /\ own.made = NoSet /\ Len(blocks) < MaxBlocks
  /\ blocks' = Append(blocks, block)
  /\ own' = [own EXCEPT !.made = <<Len(blocks) + 1, IF block[1] = "test" THEN 1 ELSE 2>>]
  /\ UNCHANGED <<session, world, testing>>

firstSetOfLatestBlock == IF Last(blocks) = <<>> THEN Thrown ELSE <<Len(blocks), 1>>

\* The last log of the latest block; parseLog throws when it has none.
getCreatedSetTokenAddress == IF Last(blocks) = <<>> THEN Thrown ELSE <<Len(blocks), Len(Last(blocks))>>

FindSetToken ==
  /\ own.made # NoSet /\ own.found = NoSet
  /\ own' = [own EXCEPT !.found = getCreatedSetTokenAddress]
  /\ UNCHANGED <<session, world, testing, blocks>>

Subjects == {<<helper, contract>> : helper \in {"core", "modules", "setV2"}, contract \in DOMAIN Constructors}

FixtureStep ==
  \/ \E name \in DOMAIN Fixtures : ChooseFixture(name)
  \/ DeployStep \/ ApproveStep \/ InitializeStep \/ EndFixture
  \/ \E choice \in Subjects :
       choice[2] \in DOMAIN Helpers[choice[1]] /\ ChooseSubject(choice[1], choice[2])
  \/ \E library \in DeployLibraries : DeployLibrary(library)
  \/ DeploySubject

FixtureNext ==
  \/ FixtureStep
  \/ \E block \in Creators : MineOthers(block)
  \/ \E block \in OwnBlocks : CreateSetToken(block)
  \/ FindSetToken

FixtureSpec == FixtureInit /\ [][FixtureNext]_fixtureVars

-----------------------------------------------------------------------------
(* A fixture that is ready is one system: whatever its Controller registered *)
(* was constructed with that Controller, the fields the tests use are the  *)
(* contracts that are registered (the registry is deployed twice), and the *)
(* tokens of the fixture are approved for the issuance module they will be *)
(* issued with (systemFixture.ts:73-133, setFixture.ts:69-133).            *)
OneFixtureSystem ==
  stage \notin {"building", "thrown"} =>
    /\ \A address \in registered : created[address[2]].storage["controller"] = <<fields["controller"]>>
    /\ \A step \in ToSet(Fixtures[fixture]) :
         step.do = "initialize" => {fields[field] : field \in step.fields} \subseteq registered
    /\ \A token \in {"weth", "usdc", "wbtc", "dai"} :
         <<fields[token], fields["issuanceModule"]>> \in allowances

(* Each helper brings every argument to the parameter of the constructor it *)
(* is meant for, and links every library to the contract of that name;     *)
(* nothing but their order tells the addresses apart                       *)
(* (deployModules.ts:63-259, deployCoreContracts.ts:32-116, deploySetV2.ts).*)
ArgumentsReachTheirParameters ==
  stage = "ready" =>
    LET contract == created[Len(created)]
    IN  /\ contract.storage = Meant(subject[2], SubjectGiven)
        /\ \A library \in DOMAIN contract.links :
             created[contract.links[library][2]].contract = library

(* Every fixture comes up, and every contract the helpers can deploy after *)
(* it, with its libraries: no step needs a field that a later step sets    *)
(* (systemFixture.ts:73-133, setFixture.ts:69-133, deployModules.ts).      *)
SessionComesUp == fixture # "none" ~> stage = "ready"

(* The address getCreatedSetTokenAddress returns is never that of a Set    *)
(* created before the test's own one, and is the test's own when nobody    *)
(* else created one since (protocolUtils.ts:24-31).                        *)
FoundSetIsNotOlder ==
  own.found \notin {NoSet, Thrown} =>
    \/ own.found[1] > own.made[1]
    \/ own.found[1] = own.made[1] /\ own.found[2] >= own.made[2]
=============================================================================
