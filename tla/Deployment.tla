----------------------------- MODULE Deployment -----------------------------
(***************************************************************************)
(* How the contracts reach a public network and the clients their          *)
(* addresses (blockchain/scripts/deploy.ts, reconcile-forums.ts and the    *)
(* two generators of scripts/).  A run works on a checkout: it deploys     *)
(* what is missing one contract at a time, rewrites the deployment         *)
(* artifact, generates the site's addresses and the backend's list from    *)
(* it, and pushes all of them at once, which git refuses when the branch   *)
(* has moved.  Runs started from different refs overlap; any of them may   *)
(* fail between two steps.  An address is an index into the chain.         *)
(***************************************************************************)
EXTENDS Naturals, Sequences, SequencesExt, FiniteSets

CONSTANTS
  Names,           \* the forums
  Configs,         \* what a profile may configure: the registry's mode and the forums
  FirstConfig,     \* the one that is deployed when the model begins
  None,
  Develop,         \* the run that a push to the branch starts
  Dispatch,        \* a run dispatched by hand from another ref
  Developer,       \* a developer's machine, for the break-glass target
  MaxEdits, MaxDispatches, MaxFailures, MaxWipes,
  MaxTrouble       \* of the last three together

DeploymentConfig == [mode : {"dev", "mock", "production"}, forums : Seq(Names)]

(* The contracts that may be the registry, one for each mode. *)
Registries == {"DevSymvoliaRegistry", "MockSymvoliaRegistry", "SymvoliaRegistry"}

\* Ignition knows a forum by an identifier with a prefix (deployForums.ts).
ASSUME DeploymentAssumption ==
  /\ Names \cap Registries = {}
  /\ Configs \subseteq DeploymentConfig
  /\ FirstConfig \in Configs /\ None \notin Names
  /\ Cardinality({Develop, Dispatch, Developer}) = 3
  /\ {MaxEdits, MaxDispatches, MaxFailures, MaxWipes, MaxTrouble} \subseteq Nat

VARIABLES
  chain,        \* the contracts deployed so far
  journal,      \* Ignition's state on the developer's machine
  git,          \* the head of the branch: the profile's forums and the files
  runs,         \* the runs in progress, each with its checkout
  due,          \* pushes whose run has not started
  failed,       \* the last run that a push has started failed
  hosted,       \* the forums of the site that is served
  siteDue,      \* a run has completed and the site's workflow not yet
  spent         \* edits, dispatches, failures and wipes, counted for the bounds

deployVars == <<chain, journal, git, runs, due, failed, hosted, siteDue, spent>>

Runners == {Develop, Dispatch, Developer}

Contract(name, registry) == [name |-> name, registry |-> registry]

Address(deployed) == Len(deployed)

(* f and, for the key, the value. *)
With(f, key, value) == [x \in DOMAIN f \cup {key} |-> IF x = key THEN value ELSE f[x]]

(* The names that are not among the known ones, in their order. *)
Others(names, known) ==
  LET picked[i \in 0..Len(names)] ==
        IF i = 0 THEN <<>>
        ELSE IF names[i] \in known THEN picked[i - 1]
        ELSE Append(picked[i - 1], names[i])
  IN  picked[Len(names)]

(* deployments/<network>.json *)
Artifact(mode, registry, order, forums) ==
  [mode |-> mode, registry |-> registry, order |-> order, forums |-> forums]

(* The contracts of an Ignition module, the registry first: anyone's word  *)
(* is taken, the proof is taken apart but not verified, or it is verified  *)
(* by the contract it was configured with.                                 *)
ForumDevModule(forums) == <<"DevSymvoliaRegistry">> \o forums
ForumMockModule(forums) == <<"MockSymvoliaRegistry">> \o forums
ForumProductionModule(forums) == <<"SymvoliaRegistry">> \o forums

ModuleOf(config) ==
  CASE config.mode = "dev"        -> ForumDevModule(config.forums)
    [] config.mode = "mock"       -> ForumMockModule(config.forums)
    [] config.mode = "production" -> ForumProductionModule(config.forums)

RegistryOf(config) == Head(ModuleOf(config))

(* Ignition's state names a contract by its module and its own name. *)
Future(config, name) == <<config.mode, name>>

(* generate-deployment-artifacts.mjs, for the site *)
SiteOf(artifact) == artifact.forums

(* generate-backend-env-examples.mjs: what the relay and the sponsor allow *)
BackendOf(artifact) ==
  {artifact.forums[artifact.order[i]] : i \in DOMAIN artifact.order} \cup {artifact.registry}

DeployInit(config) ==
  /\ LET forums == [n \in ToSet(config.forums) |->
                      1 + CHOOSE i \in DOMAIN config.forums : config.forums[i] = n]
         artifact == Artifact(config.mode, 1, config.forums, forums)
     IN  /\ chain = [i \in DOMAIN ModuleOf(config) |->
                       Contract(ModuleOf(config)[i], IF i = 1 THEN None ELSE 1)]
         /\ journal \in {<<>>, [key \in {Future(config, name) : name \in ToSet(ModuleOf(config))} |->
                                  CHOOSE i \in DOMAIN chain : chain[i].name = key[2]]}
         /\ git = [config |-> config, artifact |-> artifact,
                   site |-> SiteOf(artifact), backend |-> BackendOf(artifact)]
         /\ hosted = SiteOf(artifact)
  /\ runs = [r \in Runners |-> None]
  /\ due = FALSE /\ failed = FALSE /\ siteDue = FALSE
  /\ spent = [edits |-> 0, dispatches |-> 0, failures |-> 0, wipes |-> 0]

-----------------------------------------------------------------------------
Idle(r) == runs[r] = None

Spend(what, bound) ==
  /\ spent[what] < bound
  /\ what = "edits" \/ spent.dispatches + spent.failures + spent.wipes < MaxTrouble
  /\ spent' = [spent EXCEPT ![what] = @ + 1]

At(r, step) == ~Idle(r) /\ runs[r].step = step

(* A commit: every other checkout is behind. *)
Commit(files, r) ==
  /\ git' = files
  /\ runs' = [o \in Runners |->
                IF Idle(o) \/ o = r THEN None ELSE [runs[o] EXCEPT !.behind = TRUE]]

(* A slip: a push during a run starts no run after it. *)
EditDuringRunIsLost(config) ==
  /\ Spend("edits", MaxEdits) /\ config # git.config
  /\ Commit([git EXCEPT !.config = config], None)
  /\ due' = Idle(Develop)
  /\ UNCHANGED <<chain, journal, failed, hosted, siteDue>>

(* The profile is edited and pushed. *)
EditConfig(config) ==
  /\ Spend("edits", MaxEdits) /\ config # git.config
  /\ Commit([git EXCEPT !.config = config], None)
  /\ due' = TRUE
  /\ UNCHANGED <<chain, journal, failed, hosted, siteDue>>

Checkout(step, todo) ==
  [step |-> step, todo |-> todo, found |-> <<>>,
   base |-> git, files |-> git, behind |-> FALSE]

(* A slip: every forum counts as missing. *)
MissingAll == git.config.forums

(* config.forums that the artifact lacks, in the order of the profile. *)
Missing == Others(git.config.forums, DOMAIN git.artifact.forums)

(* Another registry, or one forum less, is refused. *)
Reconcilable ==
  /\ git.artifact.mode = git.config.mode
  /\ DOMAIN git.artifact.forums \subseteq ToSet(git.config.forums)

BeginReconcile(r) ==
  /\ Idle(r)
  /\ IF r = Develop THEN due /\ UNCHANGED spent
     ELSE r = Dispatch /\ Spend("dispatches", MaxDispatches)
  /\ IF r = Develop THEN due' = FALSE /\ failed' = FALSE ELSE UNCHANGED <<due, failed>>
  /\ IF Reconcilable THEN runs' = [runs EXCEPT ![r] = Checkout("reconcile", Missing)]
                     ELSE UNCHANGED runs
  /\ UNCHANGED <<chain, journal, git, hosted, siteDue>>

(* deployContract, one forum after the other, with the artifact's registry *)
DeployMissing(r) ==
  /\ At(r, "reconcile") /\ runs[r].todo # <<>>
  /\ LET name == Head(runs[r].todo)
     IN  /\ chain' = Append(chain, Contract(name, runs[r].files.artifact.registry))
         /\ runs' = [runs EXCEPT ![r].todo = Tail(@),
                                 ![r].found = With(@, name, Address(chain'))]
  /\ UNCHANGED <<journal, git, due, failed, hosted, siteDue, spent>>

(* The known forums keep their places and addresses; the new ones follow. *)
Reconciled(run) ==
  LET known == run.files.artifact
      fresh == Others(run.files.config.forums, ToSet(known.order))
  IN  Artifact(known.mode, known.registry, known.order \o fresh,
               [n \in DOMAIN run.found \cup DOMAIN known.forums |->
                  IF n \in DOMAIN run.found THEN run.found[n] ELSE known.forums[n]])

WriteReconciled(r) ==
  /\ At(r, "reconcile") /\ runs[r].todo = <<>>
  /\ runs' = [runs EXCEPT ![r].files.artifact = Reconciled(runs[r]), ![r].step = "site"]
  /\ UNCHANGED <<chain, journal, git, due, failed, hosted, siteDue, spent>>

-----------------------------------------------------------------------------
(* make base-sepolia-break-glass: deploy.ts, with Ignition's state of an   *)
(* earlier deployment if the developer still has it.                       *)
BeginDeploy(kept) ==
  /\ Idle(Developer) /\ Spend("wipes", MaxWipes)
  /\ journal' = IF kept THEN journal ELSE <<>>
  /\ runs' = [runs EXCEPT ![Developer] = Checkout("deploy", ModuleOf(git.config))]
  /\ UNCHANGED <<chain, git, due, failed, hosted, siteDue>>

(* Ignition deploys a contract its state does not have, and notes it. *)
IgnitionDeploy ==
  /\ At(Developer, "deploy") /\ runs[Developer].todo # <<>>
  /\ LET name   == Head(runs[Developer].todo)
         config == runs[Developer].files.config
         registry == Future(config, RegistryOf(config))
     IN  IF Future(config, name) \in DOMAIN journal THEN UNCHANGED <<chain, journal>>
         ELSE /\ chain' = Append(chain, Contract(name, IF name = RegistryOf(config) THEN None
                                                       ELSE journal[registry]))
              /\ journal' = With(journal, Future(config, name), Address(chain'))
  /\ runs' = [runs EXCEPT ![Developer].todo = Tail(@)]
  /\ UNCHANGED <<git, due, failed, hosted, siteDue, spent>>

(* deploymentJson *)
Deployed(run) ==
  LET config == run.files.config
  IN  Artifact(config.mode, journal[Future(config, RegistryOf(config))], config.forums,
               [n \in ToSet(config.forums) |-> journal[Future(config, n)]])

WriteDeployment ==
  /\ At(Developer, "deploy") /\ runs[Developer].todo = <<>>
  /\ runs' = [runs EXCEPT ![Developer].files.artifact = Deployed(runs[Developer]),
                          ![Developer].step = "site"]
  /\ UNCHANGED <<chain, journal, git, due, failed, hosted, siteDue, spent>>

-----------------------------------------------------------------------------
GenerateDeploymentArtifacts(r) ==
  /\ At(r, "site")
  /\ runs' = [runs EXCEPT ![r].files.site = SiteOf(runs[r].files.artifact), ![r].step = "backend"]
  /\ UNCHANGED <<chain, journal, git, due, failed, hosted, siteDue, spent>>

GenerateBackendEnvExamples(r) ==
  /\ At(r, "backend")
  /\ runs' = [runs EXCEPT ![r].files.backend = BackendOf(runs[r].files.artifact),
                          ![r].step = "push"]
  /\ UNCHANGED <<chain, journal, git, due, failed, hosted, siteDue, spent>>

(* Nothing to commit, a commit, or a rejected push: what was deployed for  *)
(* it stays on the chain, unrecorded.  A developer's push starts a run, as *)
(* any does but those of the runs themselves.  The site's workflow follows *)
(* successful runs of the branch only.                                     *)
Push(r) ==
  LET changed == runs[r].files # runs[r].base
      accepted == changed /\ ~runs[r].behind
  IN  /\ At(r, "push")
      /\ IF accepted THEN Commit(runs[r].files, r)
         ELSE runs' = [runs EXCEPT ![r] = None] /\ UNCHANGED git
      /\ due' = (due \/ (r = Developer /\ accepted))
      /\ siteDue' = (siteDue \/ (r = Develop /\ ~(changed /\ runs[r].behind)))
      /\ UNCHANGED <<chain, journal, failed, hosted, spent>>

(* A deployment, a check or a script fails, and with it the run. *)
Fail(r) ==
  /\ ~Idle(r) /\ Spend("failures", MaxFailures)
  /\ runs' = [runs EXCEPT ![r] = None]
  /\ failed' = (failed \/ r = Develop)
  /\ UNCHANGED <<chain, journal, git, due, hosted, siteDue>>

(* The site is built from the head of the branch. *)
DeploySite ==
  /\ siteDue
  /\ hosted' = git.site /\ siteDue' = FALSE
  /\ UNCHANGED <<chain, journal, git, runs, due, failed, spent>>

RunStep(r) ==
  \/ DeployMissing(r) \/ WriteReconciled(r)
  \/ GenerateDeploymentArtifacts(r) \/ GenerateBackendEnvExamples(r) \/ Push(r)

DeployNext ==
  \/ \E config \in Configs : EditConfig(config)
  \/ \E r \in {Develop, Dispatch} : BeginReconcile(r)
  \/ \E kept \in BOOLEAN : BeginDeploy(kept)
  \/ IgnitionDeploy \/ WriteDeployment
  \/ \E r \in Runners : RunStep(r) \/ Fail(r)
  \/ DeploySite

(* A pushed change starts a run, a run goes on until it ends, and its end  *)
(* starts the site's workflow.                                             *)
DeployFairness ==
  /\ WF_deployVars(BeginReconcile(Develop))
  /\ WF_deployVars(IgnitionDeploy) /\ WF_deployVars(WriteDeployment)
  /\ \A r \in Runners : WF_deployVars(RunStep(r))
  /\ WF_deployVars(DeploySite)

-----------------------------------------------------------------------------
(***************************************************************************)
(* "preserves all known deployed addresses" (blockchain/README.md:80): a   *)
(* forum of the site that is served keeps its address at the head of the   *)
(* branch, whatever runs overlap or fail, until the break-glass target.    *)
(***************************************************************************)
ServedForumsStay ==
  spent.wipes = 0 =>
    \A n \in DOMAIN hosted : /\ n \in DOMAIN git.artifact.forums
                             /\ git.artifact.forums[n] = hosted[n]

(***************************************************************************)
(* Unless the last run that a push has started failed, every configured    *)
(* forum is deployed in the end and, when nobody dispatched a run by hand, *)
(* on the site that is served: a run whose push is rejected is made up     *)
(* for, a failed one by the next push, and neither a redeployment nor a    *)
(* failure elsewhere leaves anything out.                                  *)
(***************************************************************************)
ConfiguredIsDeployed ==
  <>[](~failed /\ Reconcilable =>
         /\ ToSet(git.config.forums) \subseteq DOMAIN git.artifact.forums
         /\ spent.dispatches = 0 => hosted = git.site)

(***************************************************************************)
(* Every address of the artifact is a forum of its name that asks the      *)
(* artifact's registry who is a member, and the registry is of the mode    *)
(* the artifact states, also after a redeployment that failed half-way and *)
(* with any state of Ignition.                                             *)
(***************************************************************************)
ForumsShareRegistry ==
  /\ chain[git.artifact.registry].name =
       RegistryOf([mode |-> git.artifact.mode, forums |-> <<>>])
  /\ \A n \in DOMAIN git.artifact.forums :
       chain[git.artifact.forums[n]] = Contract(n, git.artifact.registry)

(***************************************************************************)
(* The branch never holds a site whose forums the relay and the sponsor    *)
(* would turn away: the three files are of one deployment.                 *)
(***************************************************************************)
FilesAgree ==
  /\ git.site = SiteOf(git.artifact)
  /\ git.backend = BackendOf(git.artifact)

(* What is on the chain, in the branch and on the site belongs together. *)
DeploymentsAgree == ServedForumsStay /\ ForumsShareRegistry /\ FilesAgree

=============================================================================
