------------------------------ MODULE MCTooling ------------------------------
(***************************************************************************)
(* The off-chain tools that keep state: the deployment script, a test      *)
(* session on a fixture, the sandboxing of tests, the subtasks that rewrite*)
(* artifacts and the query of allowances.  They share nothing, so a        *)
(* behaviour is one of one tool.                                           *)
(***************************************************************************)
EXTENDS CoreDeployment, FixtureBringUp, SnapshotHarness, GasArtifacts, AllowanceQueries

VARIABLE activity   \* the tool that is in use

vars == <<activity, deploymentVars, fixtureVars, harnessVars, artifactVars, allowanceVars>>

Init ==
  /\ activity \in {"deployment", "fixture", "harness", "artifacts", "allowances"}
  /\ DeploymentInit /\ FixtureInit /\ HarnessInit /\ ArtifactInit /\ AllowanceInit
  /\ activity # "deployment" => network = "production"   \* no other tool reads it

UseDeployment ==
  /\ activity = "deployment" /\ DeploymentNext
  /\ UNCHANGED <<activity, fixtureVars, harnessVars, artifactVars, allowanceVars>>

UseFixture ==
  /\ activity = "fixture" /\ FixtureNext
  /\ UNCHANGED <<activity, deploymentVars, harnessVars, artifactVars, allowanceVars>>

UseHarness ==
  /\ activity = "harness" /\ HarnessNext
  /\ UNCHANGED <<activity, deploymentVars, fixtureVars, artifactVars, allowanceVars>>

UseArtifacts ==
  /\ activity = "artifacts" /\ ArtifactNext
  /\ UNCHANGED <<activity, deploymentVars, fixtureVars, harnessVars, allowanceVars>>

UseAllowances ==
  /\ activity = "allowances" /\ AllowanceNext
  /\ UNCHANGED <<activity, deploymentVars, fixtureVars, harnessVars, artifactVars>>

Next == UseDeployment \/ UseFixture \/ UseHarness \/ UseArtifacts \/ UseAllowances

Deploys(step) ==
  /\ activity = "deployment" /\ step
  /\ UNCHANGED <<activity, fixtureVars, harnessVars, artifactVars, allowanceVars>>

\* A deployment that is not killed goes on, the network mines what it is
\* sent, and the operator runs the script again until it has succeeded.  The
\* awaits of a fixture return, and a node answers or rejects every query.
\* Nobody has to create Sets, to run tests or to build.
Fairness ==
  /\ WF_vars(Deploys(ScriptStep)) /\ WF_vars(Deploys(Mine)) /\ WF_vars(Deploys(Rerun))
  /\ WF_vars(activity = "fixture" /\ FixtureStep
               /\ UNCHANGED <<activity, deploymentVars, harnessVars, artifactVars, allowanceVars>>)
  /\ WF_vars(UseAllowances)

Spec == Init /\ [][Next]_vars /\ Fairness

-----------------------------------------------------------------------------

\* On a network with all dependencies, running the script again after every
\* interruption ends with both integrations registered, unless a process was
\* killed just between sending the two: addIntegration refuses to be
\* repeated, so every later run throws before it reaches the second one
\* (000_core.ts, IntegrationRegistry.addIntegration).
DeploymentCompletes ==
  activity = "deployment" /\ Deployable
    => <>(cutShort \/ \A name \in Integrations : Registered(name))
=============================================================================
