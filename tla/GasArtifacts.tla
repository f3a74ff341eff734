---------------------------- MODULE GasArtifacts ----------------------------
(***************************************************************************)
(* The two hardhat subtasks of tasks/subtasks.ts, and the commands that    *)
(* publish the package (package.json, scripts/prepublish_only.sh), which   *)
(* run them.  The typechain subtask puts a gas limit into the ABIs of      *)
(* external/abi/perp, which are files under version control, generates the *)
(* types and takes the limit out again; it has no finally, so a process    *)
(* that throws or is killed leaves the files as they are.  The compile     *)
(* subtask puts a limit into every artifact it produces unless             *)
(* SKIP_ABI_GAS_MODS is set, as it is for the package of the latest tag    *)
(* and not for the one of the hardhat tag.  The typechain subtask does not *)
(* read the variable.                                                      *)
(*                                                                         *)
(* A file stands for the gas of its ABI's functions: NoGas, a limit in     *)
(* millions, or Torn while it is being written.  The commands share a      *)
(* working directory and run one at a time.  hardhat.config.ts has the     *)
(* import of the subtasks commented out (line 14); the model is of what    *)
(* they do where they are loaded.  A release from CI, where                *)
(* prepublish_only.sh exits at once, is not modelled.                      *)
(***************************************************************************)
EXTENDS Integers

CONSTANTS ArtifactFiles,      \* how many files external/abi/perp holds
          MaxFaults           \* bound on the processes that throw or are killed

ASSUME ArtifactAssumption == ArtifactFiles \in Nat \ {0} /\ MaxFaults \in Nat

Files == 1 .. ArtifactFiles   \* in the order of readdirSync

NoGas == 0
Torn == -1
Absent == -2                  \* nothing read, generated or compiled
AutoGas == -3                 \* networkConfig.gas of a network that sets none

\* The gas a process runs with, in millions: the hardhat and localhost
\* networks, solidity-coverage's limit, or a network without one.
Settings == {12, 30, AutoGas}

VARIABLES artifact,   \* the files of external/abi/perp
          types,      \* the gas of each file in the generated types
          item,       \* `artifacts`: the ABIs this process holds in memory
          phase,      \* of the typechain process
          cursor,     \* the file it is at
          gas,        \* its network's gas
          faults,
          built,      \* the artifact of a contract, kept by hardhat's cache
          published,  \* the last package of each tag
          build,      \* the command of build:npm:... that comes next
          channel     \* the tag it builds for

files == <<artifact, types, item>>
builds == <<built, published, build, channel>>
\* The tags of the package, and what a package ships: the artifacts, the types
\* (typechain, and dist after it is transpiled) and the files under external.
Channels == {"latest", "hardhat"}

NoPackage == [artifacts |-> Absent,
              types |-> [file \in Files |-> Absent],
              external |-> [file \in Files |-> NoGas]]

artifactVars == <<files, phase, cursor, gas, faults, builds>>

ArtifactInit ==
  /\ artifact = [file \in Files |-> NoGas]
  /\ types = [file \in Files |-> Absent]
  /\ item = [file \in Files |-> Absent]
  /\ phase = "idle" /\ cursor = 1 /\ gas = AutoGas /\ faults = 0
  /\ built = Absent /\ build = "none" /\ channel = "latest"
  /\ published = [tag \in Channels |-> NoPackage]

-----------------------------------------------------------------------------
(* utils/tasks/artifactUtils.ts *)

addGasWhereMissing(networkGas, abi) == IF abi = NoGas THEN networkGas - 1 ELSE abi

\* Stays a million under the network's limit, whatever the ABI had before.
addGasToAbiMethods(networkGas, abi) == networkGas - 1

removeGasFromAbiMethods(abi) == NoGas

-----------------------------------------------------------------------------
(* The typechain subtask, run alone or as a command of a release *)

StartTypechain(networkGas) ==
  /\ phase = "idle" /\ build \in {"none", "typechain"}
  /\ phase' = "rewriting" /\ cursor' = 1 /\ gas' = networkGas
  /\ item' = [file \in Files |-> Absent]
  /\ UNCHANGED <<artifact, types, faults, builds>>

\* A process that throws or is killed restores nothing, and && stops a release
\* with it.
StopTypechain ==
  /\ phase' = "idle" /\ cursor' = 1 /\ build' = "none"
  /\ UNCHANGED <<files, gas, built, published, channel>>

\* require throws on a torn file, and BigNumber.from on "auto".
RewriteThrows ==
  /\ phase = "rewriting" /\ cursor \in Files
  /\ artifact[cursor] = Torn \/ gas = AutoGas
  /\ StopTypechain /\ UNCHANGED faults

\* The ABI is read and changed, and outputFileSync truncates the file.
BeginRewrite ==
  /\ phase = "rewriting" /\ cursor \in Files
  /\ artifact[cursor] # Torn /\ gas # AutoGas
  /\ item' = [item EXCEPT ![cursor] = addGasToAbiMethods(gas, artifact[cursor])]
  /\ artifact' = [artifact EXCEPT ![cursor] = Torn]
  /\ phase' = "writing"
  /\ UNCHANGED <<types, cursor, gas, faults, builds>>

EndRewrite ==
  /\ phase = "writing"
  /\ artifact' = [artifact EXCEPT ![cursor] = item[cursor]]
  /\ phase' = "rewriting" /\ cursor' = cursor + 1
  /\ UNCHANGED <<types, item, gas, faults, builds>>

\* runSuper: typechain reads the files and writes the types.
GenerateTypes ==
  /\ phase = "rewriting" /\ cursor \notin Files
  /\ types' = artifact
  /\ phase' = "restoring" /\ cursor' = 1
  /\ UNCHANGED <<artifact, item, gas, faults, builds>>

BeginRestore ==
  /\ phase = "restoring" /\ cursor \in Files
  /\ item' = [item EXCEPT ![cursor] = removeGasFromAbiMethods(item[cursor])]
  /\ artifact' = [artifact EXCEPT ![cursor] = Torn]
  /\ phase' = "restoringFile"
  /\ UNCHANGED <<types, cursor, gas, faults, builds>>

EndRestore ==
  /\ phase = "restoringFile"
  /\ artifact' = [artifact EXCEPT ![cursor] = item[cursor]]
  /\ phase' = "restoring" /\ cursor' = cursor + 1
  /\ UNCHANGED <<types, item, gas, faults, builds>>

\* What a release does next; transpile:dist only copies the types.
AfterTypechain ==
  /\ phase' = "done" /\ build' = IF build = "typechain" THEN "pack" ELSE build
  /\ UNCHANGED <<files, cursor, gas, faults, built, published, channel>>

EndBeforeLastFile ==
  /\ phase = "restoring" /\ cursor >= ArtifactFiles
  /\ AfterTypechain

\* The subtask reaches its end.
EndTypechain ==
  /\ phase = "restoring" /\ cursor \notin Files
  /\ AfterTypechain

StartAgain ==
  /\ phase = "done" /\ build = "none" /\ phase' = "idle"
  /\ UNCHANGED <<files, cursor, gas, faults, builds>>

\* The process is killed, or runSuper throws.
KillTypechain ==
  /\ phase \notin {"idle", "done"} /\ faults < MaxFaults
  /\ faults' = faults + 1
  /\ StopTypechain

\* git checkout of files that a stopped process left changed.
Checkout ==
  /\ phase = "idle" /\ build = "none" /\ \E file \in Files : artifact[file] = Torn
  /\ artifact' = [file \in Files |-> NoGas]
  /\ UNCHANGED <<types, item, phase, cursor, gas, faults, builds>>

-----------------------------------------------------------------------------
(* The compile subtask; a contract in the cache is not compiled again. *)

compileCached(skip, networkGas) ==
  IF built # Absent THEN built ELSE IF skip THEN NoGas ELSE addGasToAbiMethods(networkGas, NoGas)

Compile(networkGas) ==
  /\ phase = "idle" /\ build = "none" /\ networkGas # AutoGas
  /\ built' = compileCached(FALSE, networkGas)
  /\ UNCHANGED <<files, phase, cursor, gas, faults, published, build, channel>>

-----------------------------------------------------------------------------
(* npm run publish: prepublish_only.sh runs build:npm:hardhat when          *)
(* PUBLISH_HARDHAT is set and build:npm:latest otherwise.  Each cleans,     *)
(* compiles, generates the types and transpiles; npm packs what is there.   *)

PublishWithoutClean(tag) ==
  /\ phase = "idle" /\ build = "none"
  /\ build' = "compile" /\ channel' = tag
  /\ UNCHANGED <<files, phase, cursor, gas, faults, built, published>>

\* clean.sh removes the cache, the artifacts, the types and dist.
StartPublish(tag) ==
  /\ phase = "idle" /\ build = "none"
  /\ build' = "compile" /\ channel' = tag
  /\ built' = Absent /\ types' = [file \in Files |-> Absent]
  /\ UNCHANGED <<artifact, item, phase, cursor, gas, faults, published>>

\* compile:latest sets SKIP_ABI_GAS_MODS, compile does not.
CompileForRelease(networkGas) ==
  /\ build = "compile" /\ (channel = "latest" \/ networkGas # AutoGas)
  /\ built' = compileCached(channel = "latest", networkGas)
  /\ build' = "typechain"
  /\ UNCHANGED <<files, phase, cursor, gas, faults, published, channel>>

\* BigNumber.from throws on "auto".
CompileThrows(networkGas) ==
  /\ build = "compile" /\ channel = "hardhat" /\ networkGas = AutoGas
  /\ build' = "none"
  /\ UNCHANGED <<files, phase, cursor, gas, faults, built, published, channel>>

Pack ==
  /\ build = "pack" /\ build' = "none"
  /\ published' = [published EXCEPT ![channel] =
                     [artifacts |-> built, types |-> types, external |-> artifact]]
  /\ UNCHANGED <<files, phase, cursor, gas, faults, built, channel>>

\* Between two commands.
KillBuild ==
  /\ build # "none" /\ phase \in {"idle", "done"} /\ faults < MaxFaults
  /\ build' = "none" /\ faults' = faults + 1
  /\ UNCHANGED <<files, phase, cursor, gas, built, published, channel>>

TypechainStep ==
  \/ RewriteThrows \/ BeginRewrite \/ EndRewrite \/ GenerateTypes
  \/ BeginRestore \/ EndRestore \/ EndTypechain

ArtifactNext ==
  \/ \E networkGas \in Settings : StartTypechain(networkGas)
  \/ TypechainStep \/ StartAgain \/ KillTypechain \/ Checkout
  \/ \E networkGas \in Settings : Compile(networkGas)
  \/ \E tag \in Channels : StartPublish(tag)
  \/ \E networkGas \in Settings : CompileForRelease(networkGas) \/ CompileThrows(networkGas)
  \/ Pack \/ KillBuild

ArtifactSpec == ArtifactInit /\ [][ArtifactNext]_artifactVars

-----------------------------------------------------------------------------
(* A typechain process that reaches its end leaves no gas limit and no torn *)
(* text in any file under version control, also in the files an earlier    *)
(* process left changed (subtasks.ts:51-54).                               *)
SuccessLeavesFilesClean ==
  phase = "done" => \A file \in Files : artifact[file] = NoGas

(* The types are generated with the gas limit of the network of this very  *)
(* process for every file, although a file may still hold the limit of an  *)
(* earlier process that ran for another network (artifactUtils.ts:35-38).  *)
TypesCarryOwnLimit ==
  phase = "done" => \A file \in Files : types[file] = gas - 1

\* The limits that a network's gas leaves room for.
Limits == {networkGas - 1 : networkGas \in Settings \ {AutoGas}}

(* The package of the latest tag overrides the gas estimation of ethers in  *)
(* no artifact (subtasks.ts:18-22), the one of the hardhat tag in every     *)
(* artifact (prepublish_only.sh:3-6), although artifacts compiled for the   *)
(* tests stay in hardhat's cache, the two builds follow each other in one   *)
(* directory and either may stop between its commands.  Both ship the files *)
(* under external without a limit, and types that carry one and the same    *)
(* limit for every file: the typechain subtask sets it for either tag.      *)
PackagesMatchTheirTag ==
  /\ published["latest"].artifacts \in {Absent, NoGas}
  /\ published["hardhat"].artifacts \in {Absent} \cup Limits
  /\ \A tag \in Channels :
       /\ \A file \in Files : published[tag].external[file] = NoGas
       /\ published[tag].artifacts # Absent =>
            \E limit \in Limits : \A file \in Files : published[tag].types[file] = limit

(* A gas limit is only ever where it belongs: not in a file under version   *)
(* control once a typechain process has reached its end, in the types with  *)
(* the value of that process's own network, and in a published package in   *)
(* the parts that its tag is built with (subtasks.ts, artifactUtils.ts,     *)
(* package.json, prepublish_only.sh).                                       *)
GasLimitsStayWhereTheyBelong ==
  SuccessLeavesFilesClean /\ TypesCarryOwnLimit /\ PackagesMatchTheirTag
=============================================================================
