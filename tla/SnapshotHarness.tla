--------------------------- MODULE SnapshotHarness ---------------------------
(***************************************************************************)
(* The sandboxing of the tests: Blockchain (utils/common/blockchainUtils)  *)
(* with addSnapshotBeforeRestoreAfterEach and cacheBeforeEach              *)
(* (utils/test/testingUtils), as mocha calls them in nested suites.        *)
(*                                                                         *)
(* A suite registers hooks: "cache" for cacheBeforeEach, "sandbox" for     *)
(* addSnapshotBeforeRestoreAfterEach; a file uses one of the two.  For each*)
(* test mocha calls the beforeEach callbacks from the outermost suite      *)
(* inwards and the afterEach callbacks outwards; it runs the tests of a    *)
(* suite before the suites inside it, and skips the rest of a suite when   *)
(* one of its beforeEach callbacks throws.  Suites and tests are chosen    *)
(* while they are run.                                                     *)
(*                                                                         *)
(* The chain is the sequence of what was done to it: an initializer leaves *)
(* a mark of its own, a test and an initializer that throws leave Dirt.    *)
(***************************************************************************)
EXTENDS Integers, FiniteSets, Sequences, SequencesExt

CONSTANTS MaxTests,    \* bound on the tests of a session
          MaxSuites,   \* bound on its suites
          MaxDepth,    \* bound on their nesting
          MaxHooks     \* bound on the hooks of a suite

ASSUME HarnessAssumption == {MaxTests, MaxSuites, MaxDepth, MaxHooks} \subseteq Nat \ {0}

Dirt == 0
NoSnapshot == 0

VARIABLES chain,      \* what happened on the chain
          saved,      \* the node's snapshots: id -> chain
          lastId,     \* the last id the node gave out
          SNAPSHOTS,
          suites,     \* the open suites, outermost first: whether one was inside
          hooks,      \* the hooks of the open suites, in the order of their calls
          next,       \* the hook to call next
          moment,     \* "between" tests, "before" or "after" one
          opened, tests

node == <<chain, saved, lastId>>
harnessVars == <<node, SNAPSHOTS, suites, hooks, next, moment, opened, tests>>

HarnessInit ==
  /\ chain = <<>> /\ saved = <<>> /\ lastId = 0 /\ SNAPSHOTS = <<>>
  /\ suites = <<>> /\ hooks = <<>> /\ next = 0 /\ moment = "between"
  /\ opened = 0 /\ tests = 0

-----------------------------------------------------------------------------
(* Blockchain, on the node: evm_snapshot gives a fresh id; evm_revert drops *)
(* the snapshot and every later one, and does nothing with an unknown id.  *)

saveSnapshotAsync(state, kept) ==
  /\ lastId' = lastId + 1
  /\ chain' = state
  /\ saved' = [id \in DOMAIN kept \cup {lastId + 1} |-> IF id = lastId + 1 THEN state ELSE kept[id]]

StateAfterRevert(id) == IF id \in DOMAIN saved THEN saved[id] ELSE chain

KeptAfterRevert(id) ==
  [i \in {i \in DOMAIN saved : id \in DOMAIN saved => i < id} |-> saved[i]]

revertByIdAsync(id) ==
  /\ chain' = StateAfterRevert(id)
  /\ saved' = KeptAfterRevert(id)
  /\ UNCHANGED lastId

-----------------------------------------------------------------------------
(* mocha: suites *)

Hook(kind, mark) ==
  [kind |-> kind, depth |-> Len(suites) + 1, mark |-> mark,
   initialized |-> FALSE, snapshotId |-> NoSnapshot, found |-> <<>>]

OpenSuite(kind, count) ==
  /\ moment = "between" /\ opened < MaxSuites /\ Len(suites) < MaxDepth
  /\ \A i \in DOMAIN hooks : hooks[i].kind = kind
  /\ opened' = opened + 1
  /\ suites' = Append([i \in DOMAIN suites |-> TRUE], FALSE)
  /\ hooks' = hooks \o [i \in 1 .. count |-> Hook(kind, MaxHooks * opened + i)]
  /\ UNCHANGED <<node, SNAPSHOTS, next, moment, tests>>

\* The hooks of the suites from a depth on: the last ones of the list.
HooksFrom(depth) == {i \in DOMAIN hooks : hooks[i].depth >= depth}

\* The entries of SNAPSHOTS that their after callbacks pop.
popAlways(depth) == Cardinality({i \in HooksFrom(depth) : hooks[i].kind = "cache"})

popInitialized(depth) == Cardinality({i \in HooksFrom(depth) : hooks[i].initialized})

LeaveSuites(depth) ==
  /\ SNAPSHOTS' = SubSeq(SNAPSHOTS, 1, Len(SNAPSHOTS) - popInitialized(depth))
  /\ suites' = SubSeq(suites, 1, depth - 1)
  /\ hooks' = SubSeq(hooks, 1, Len(hooks) - Cardinality(HooksFrom(depth)))
  /\ UNCHANGED <<opened, tests>>

CloseSuite ==
  /\ moment = "between" /\ suites # <<>>
  /\ LeaveSuites(Len(suites))
  /\ UNCHANGED <<node, next, moment>>

-----------------------------------------------------------------------------
(* mocha: a test *)

StartTest ==
  /\ moment = "between" /\ suites # <<>> /\ ~Last(suites) /\ tests < MaxTests
  /\ moment' = "before" /\ next' = 1 /\ tests' = tests + 1
  /\ UNCHANGED <<node, SNAPSHOTS, suites, hooks, opened>>

Called(hook) == moment = "before" /\ next \in DOMAIN hooks /\ hook = hooks[next]

GoOn(hook) ==
  /\ hooks' = [hooks EXCEPT ![next] = hook] /\ next' = next + 1
  /\ UNCHANGED <<suites, moment, opened, tests>>

\* addSnapshotBeforeRestoreAfterEach: beforeEach.
SandboxBefore(hook) ==
  /\ Called(hook) /\ hook.kind = "sandbox"
  /\ saveSnapshotAsync(chain, saved)
  /\ GoOn([hook EXCEPT !.snapshotId = lastId', !.found = IF hook.snapshotId = NoSnapshot THEN chain ELSE @])
  /\ UNCHANGED SNAPSHOTS

\* cacheBeforeEach: beforeEach, the first time.
CacheInitialize(hook) ==
  /\ Called(hook) /\ hook.kind = "cache" /\ ~hook.initialized
  /\ saveSnapshotAsync(Append(chain, hook.mark), saved)
  /\ SNAPSHOTS' = Append(SNAPSHOTS, lastId')
  /\ GoOn([hook EXCEPT !.initialized = TRUE, !.found = chain])

\* The initializer throws, and mocha leaves the suite of the hook.
InitializerThrows(hook) ==
  /\ Called(hook) /\ hook.kind = "cache" /\ ~hook.initialized
  /\ chain' = Append(chain, Dirt) /\ UNCHANGED <<saved, lastId>>
  /\ LeaveSuites(hook.depth)
  /\ moment' = "between" /\ next' = 0

RestoreWithoutSaving(hook) ==
  /\ Called(hook) /\ hook.kind = "cache" /\ hook.initialized
  /\ revertByIdAsync(Last(SNAPSHOTS))
  /\ UNCHANGED SNAPSHOTS
  /\ GoOn(hook)

\* cacheBeforeEach: beforeEach, from the second test on.  The entry it pops
\* is the top of SNAPSHOTS, whichever hook pushed it.
CacheRestore(hook) ==
  /\ Called(hook) /\ hook.kind = "cache" /\ hook.initialized
  /\ LET id == Last(SNAPSHOTS)
     IN  saveSnapshotAsync(StateAfterRevert(id), KeptAfterRevert(id))
  /\ SNAPSHOTS' = Append(Front(SNAPSHOTS), lastId')
  /\ GoOn(hook)

RunTest ==
  /\ moment = "before" /\ next > Len(hooks)
  /\ chain' = Append(chain, Dirt) /\ UNCHANGED <<saved, lastId>>
  /\ moment' = "after" /\ next' = Len(hooks)
  /\ UNCHANGED <<SNAPSHOTS, suites, hooks, opened, tests>>

\* addSnapshotBeforeRestoreAfterEach: afterEach; cacheBeforeEach has none.
AfterEach ==
  /\ moment = "after" /\ next > 0
  /\ IF hooks[next].kind = "sandbox" THEN revertByIdAsync(hooks[next].snapshotId) ELSE UNCHANGED node
  /\ next' = next - 1
  /\ UNCHANGED <<SNAPSHOTS, suites, hooks, moment, opened, tests>>

EndTest ==
  /\ moment = "after" /\ next = 0
  /\ moment' = "between"
  /\ UNCHANGED <<node, SNAPSHOTS, suites, hooks, next, opened, tests>>

HarnessNext ==
  \/ \E kind \in {"cache", "sandbox"}, count \in 0 .. MaxHooks : OpenSuite(kind, count)
  \/ CloseSuite \/ StartTest \/ RunTest \/ AfterEach \/ EndTest
  \/ \E hook \in ToSet(hooks) :
       SandboxBefore(hook) \/ CacheInitialize(hook) \/ InitializerThrows(hook) \/ CacheRestore(hook)

HarnessSpec == HarnessInit /\ [][HarnessNext]_harnessVars

-----------------------------------------------------------------------------
\* What the initializers of the caches leave on the chain; a sandbox leaves
\* nothing.
Marks == [i \in {i \in DOMAIN hooks : hooks[i].kind = "cache"} |-> hooks[i].mark]

(* Every test starts on the chain the outermost of its hooks found, changed *)
(* by the initializers around the test and by nothing else: no trace of an *)
(* earlier test, of a suite that ended or of an initializer that threw     *)
(* (testingUtils.ts:24-65).                                                *)
CleanStart ==
  moment = "before" /\ next > Len(hooks) /\ hooks # <<>> => chain = hooks[1].found \o Marks

(* Between two tests SNAPSHOTS holds exactly the live snapshots of the     *)
(* caches around the next test that were initialized, in their order:      *)
(* nothing a finished or failed suite pushed stays, and no id the node has *)
(* dropped (testingUtils.ts:42-64).                                        *)
SnapshotsBelongToOpenSuites ==
  moment = "between" =>
    /\ DOMAIN SNAPSHOTS = {i \in DOMAIN hooks : hooks[i].initialized}
    /\ \A i \in DOMAIN SNAPSHOTS :
         SNAPSHOTS[i] \in DOMAIN saved /\ Last(saved[SNAPSHOTS[i]]) = hooks[i].mark

(* Whatever failed before it, a test starts where its suites put it, and    *)
(* the stack of snapshots belongs to the suites around it (testingUtils.ts).*)
TestsAreSandboxed == CleanStart /\ SnapshotsBelongToOpenSuites
=============================================================================
