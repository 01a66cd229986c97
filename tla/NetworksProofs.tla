--------------------------- MODULE NetworksProofs ---------------------------
(***************************************************************************)
(* Deployments, for every configuration of forums, every number of runs    *)
(* that are dispatched, overlap and fail, and any state of Ignition; and   *)
(* the seeding of test networks, for every number of users, statements and *)
(* workers.                                                                *)
(***************************************************************************)
EXTENDS Networks, Induction

Modes == {"dev", "mock", "production"}

RegistryName(mode) ==
  IF mode = "dev" THEN "DevSymvoliaRegistry"
  ELSE IF mode = "mock" THEN "MockSymvoliaRegistry" ELSE "SymvoliaRegistry"

Chains == Seq([name : Names \cup Registries, registry : Nat \cup {None}])

Deploys(deployed, address, contract) ==
  address \in DOMAIN deployed /\ deployed[address] = contract

(* The registry and the forums that an artifact names are on the chain. *)
Sound(deployed, a) ==
  /\ DOMAIN a = {"mode", "registry", "order", "forums"}
  /\ a.mode \in Modes
  /\ a.registry \in DOMAIN deployed
  /\ deployed[a.registry].name = RegistryName(a.mode)
  /\ \A n \in DOMAIN a.forums : Deploys(deployed, a.forums[n], Contract(n, a.registry))

Keeps(old, new) ==
  \A n \in DOMAIN old.forums : n \in DOMAIN new.forums /\ new.forums[n] = old.forums[n]

WellFormed(deployed, files) ==
  /\ DOMAIN files = {"config", "artifact", "site", "backend"}
  /\ files.config \in DeploymentConfig
  /\ Sound(deployed, files.artifact)

(* What Ignition remembers is on the chain, a forum with the registry that *)
(* is remembered for its module.                                           *)
JournalSound(deployed, state) ==
  \A mode \in Modes :
    LET key == <<mode, RegistryName(mode)>>
    IN  /\ key \in DOMAIN state =>
             /\ state[key] \in DOMAIN deployed
             /\ deployed[state[key]].name = RegistryName(mode)
        /\ \A n \in Names :
             <<mode, n>> \in DOMAIN state =>
               /\ key \in DOMAIN state
               /\ Deploys(deployed, state[<<mode, n>>], Contract(n, state[key]))

(* A reconciliation deploys only what the artifact lacks. *)
Reconciling(deployed, run) ==
  /\ run.todo \in Seq(Names)
  /\ \A i \in DOMAIN run.todo : run.todo[i] \notin DOMAIN run.files.artifact.forums
  /\ \A n \in DOMAIN run.found :
       /\ n \notin DOMAIN run.files.artifact.forums
       /\ Deploys(deployed, run.found[n], Contract(n, run.files.artifact.registry))

(* A deployment has the registry before the forums, and all in the end. *)
Deploying(state, run) ==
  LET config == run.files.config
      registry == RegistryName(config.mode)
  IN  /\ run.todo \in Seq(Names \cup Registries)
      /\ Future(config, registry) \in DOMAIN state
           \/ run.todo = <<registry>> \o config.forums
      /\ \A i \in DOMAIN config.forums :
           \/ Future(config, config.forums[i]) \in DOMAIN state
           \/ \E j \in DOMAIN run.todo : run.todo[j] = config.forums[i]
      /\ \A j \in DOMAIN run.todo : run.todo[j] = registry \/ run.todo[j] \in Names

(* A run, whose checkout is that of the branch unless it is behind. *)
RunSound(deployed, state, branch, r, run) ==
  /\ DOMAIN run = {"step", "todo", "found", "base", "files", "behind"}
  /\ WellFormed(deployed, run.files)
  /\ ~run.behind => run.base = branch
  /\ run.step = "reconcile" => r # Developer /\ Reconciling(deployed, run)
  /\ run.step = "deploy" => r = Developer /\ Deploying(state, run)
  /\ run.step \in {"backend", "push"} => run.files.site = SiteOf(run.files.artifact)
  /\ run.step = "push" => run.files.backend = BackendOf(run.files.artifact)
  /\ r # Developer => Keeps(run.base.artifact, run.files.artifact)

DeployTypeOK ==
  /\ chain \in Chains
  /\ DOMAIN spent = {"edits", "dispatches", "failures", "wipes"} /\ spent.wipes \in Nat
  /\ DOMAIN runs = Runners

BranchSound == WellFormed(chain, git) /\ FilesAgree

RunsSound == \A r \in Runners : runs[r] # None => RunSound(chain, journal, git, r, runs[r])

WipesCounted == runs[Developer] # None => spent.wipes > 0

DeployIInv ==
  /\ DeployTypeOK /\ BranchSound /\ JournalSound(chain, journal)
  /\ RunsSound /\ WipesCounted /\ ServedForumsStay

-----------------------------------------------------------------------------
(* A module of Ignition is its registry and the forums after it. *)
LEMMA ModuleShape ==
  ASSUME NEW c \in DeploymentConfig
  PROVE  /\ c.mode \in Modes /\ c.forums \in Seq(Names)
         /\ RegistryName(c.mode) \in Registries /\ RegistryName(c.mode) \notin Names
         /\ ModuleOf(c) = <<RegistryName(c.mode)>> \o c.forums
         /\ ModuleOf(c) \in Seq(Names \cup Registries)
         /\ Len(ModuleOf(c)) = Len(c.forums) + 1
         /\ ModuleOf(c)[1] = RegistryName(c.mode)
         /\ RegistryOf(c) = RegistryName(c.mode)
         /\ \A i \in 1..Len(c.forums) : ModuleOf(c)[i + 1] = c.forums[i]
<1>1. c.mode \in Modes /\ c.forums \in Seq(Names)
  BY DEF DeploymentConfig, Modes
<1>2. RegistryName(c.mode) \in Registries /\ RegistryName(c.mode) \notin Names
  BY <1>1, DeploymentAssumption DEF RegistryName, Registries, Modes
<1>3. ModuleOf(c) = <<RegistryName(c.mode)>> \o c.forums
  BY <1>1 DEF ModuleOf, RegistryName, ForumDevModule, ForumMockModule,
              ForumProductionModule, Modes
<1> DEFINE name == RegistryName(c.mode)
<1> HIDE DEF name
<1>4. /\ <<name>> \o c.forums \in Seq(Names \cup Registries)
      /\ Len(<<name>> \o c.forums) = Len(c.forums) + 1
      /\ (<<name>> \o c.forums)[1] = name
      /\ Head(<<name>> \o c.forums) = name
      /\ \A i \in 1..Len(c.forums) : (<<name>> \o c.forums)[i + 1] = c.forums[i]
  <2>1. c.forums \in Seq(Names \cup Registries) /\ <<name>> \in Seq(Names \cup Registries)
    BY <1>1, <1>2 DEF name
  <2> QED
    BY <2>1
<1> QED
  BY <1>1, <1>2, <1>3, <1>4 DEF name, RegistryOf

(* The chain is only appended to. *)
Grows(old, new) == \A i \in DOMAIN old : i \in DOMAIN new /\ new[i] = old[i]

(* A contract that is deployed comes after those there are. *)
LEMMA AppendGrows ==
  ASSUME NEW deployed \in Chains, NEW contract \in [name : Names \cup Registries,
                                                    registry : Nat \cup {None}]
  PROVE  /\ Append(deployed, contract) \in Chains
         /\ Grows(deployed, Append(deployed, contract))
         /\ Address(Append(deployed, contract)) = Len(deployed) + 1
         /\ Address(Append(deployed, contract)) \in Nat
         /\ Deploys(Append(deployed, contract), Len(deployed) + 1, contract)
         /\ Len(deployed) + 1 \notin DOMAIN deployed
BY DEF Chains, Grows, Address, Deploys

(* What names contracts of a chain still does when it has grown. *)
LEMMA SoundGrows ==
  ASSUME NEW old, NEW new, Grows(old, new)
  PROVE  /\ \A a : Sound(old, a) => Sound(new, a)
         /\ \A files : WellFormed(old, files) => WellFormed(new, files)
         /\ \A state : JournalSound(old, state) => JournalSound(new, state)
         /\ \A run : Reconciling(old, run) => Reconciling(new, run)
<1>1. \A a, c : Deploys(old, a, c) => Deploys(new, a, c)
  BY DEF Grows, Deploys
<1>2. \A a : Sound(old, a) => Sound(new, a)
  BY <1>1 DEF Grows, Sound
<1>3. \A files : WellFormed(old, files) => WellFormed(new, files)
  BY <1>2 DEF WellFormed
<1>4. \A state : JournalSound(old, state) => JournalSound(new, state)
  BY <1>1 DEF Grows, JournalSound
<1>5. \A run : Reconciling(old, run) => Reconciling(new, run)
  BY <1>1 DEF Reconciling
<1> QED
  BY <1>2, <1>3, <1>4, <1>5

(* The workflow's two runs and the developer's are three. *)
LEMMA RunnersDiffer == Develop # Developer /\ Dispatch # Developer /\ Develop # Dispatch
<1> SUFFICES ASSUME Cardinality({Develop, Dispatch, Developer}) = 3,
                    Develop = Developer \/ Dispatch = Developer \/ Develop = Dispatch
             PROVE  FALSE
  BY DeploymentAssumption
<1>1. PICK a, b : {Develop, Dispatch, Developer} = {a, b}
  OBVIOUS
<1>2. Cardinality({a, b}) \in 0..2
  <2>1. IsFiniteSet({a}) /\ Cardinality({a}) = 1
    BY FS_Singleton
  <2>2. Cardinality({a} \cup {b}) = IF b \in {a} THEN 1 ELSE 2
    BY <2>1, FS_AddElement
  <2>3. {a} \cup {b} = {a, b}
    OBVIOUS
  <2> QED
    BY <2>2, <2>3
<1> QED
  BY <1>1, <1>2

(* What is added to a chain or to the branch leaves the other runs sound. *)
LEMMA RunGrows ==
  ASSUME NEW old, NEW new, Grows(old, new), NEW state, NEW state2,
         NEW branch, NEW r, NEW run, r = Developer => DOMAIN state \subseteq DOMAIN state2,
         RunSound(old, state, branch, r, run)
  PROVE  RunSound(new, state2, branch, r, run)
<1>1. WellFormed(new, run.files)
  BY SoundGrows DEF RunSound
<1>2. run.step = "reconcile" => Reconciling(new, run)
  BY SoundGrows DEF RunSound
<1>3. run.step = "deploy" => Deploying(state2, run)
  BY DEF RunSound, Deploying
<1> QED
  BY <1>1, <1>2, <1>3 DEF RunSound

(* Others leaves out what is known. *)
LEMMA OthersType ==
  ASSUME NEW S, NEW names \in Seq(S), NEW known
  PROVE  Others(names, known) \in Seq({n \in S : n \notin known})
<1> DEFINE n == Len(names)
           D == Seq({x \in S : x \notin known})
           next(f, i) == IF names[i] \in known THEN f ELSE Append(f, names[i])
           Equation(f) == f = [i \in 0..n |-> IF i = 0 THEN <<>>
                                              ELSE IF names[i] \in known THEN f[i - 1]
                                              ELSE Append(f[i - 1], names[i])]
           step == [i \in 1..n |-> [f \in D |-> next(f, i)]]
           picked == CHOOSE f : Equation(f)
<1>1. n \in Nat /\ \A i \in 1..n : names[i] \in S
  OBVIOUS
<1>2. step \in [1..n -> [D -> D]]
  <2> SUFFICES ASSUME NEW i \in 1..n, NEW f \in D PROVE next(f, i) \in D
    OBVIOUS
  <2> QED
    BY <1>1
<1>3. PICK g : IsRun(g, D, <<>>, n, step)
  <2>1. IsLoop(D, <<>>, n, step)
    BY <1>1, <1>2 DEF IsLoop
  <2> HIDE DEF step, n, D
  <2> QED
    BY <2>1, LoopHasRun
<1>4. \A i \in 1..n : g[i] = next(g[i - 1], i)
  <2> SUFFICES ASSUME NEW i \in 1..n PROVE g[i] = next(g[i - 1], i)
    OBVIOUS
  <2>1. g[i - 1] \in D
    BY <1>1, <1>3 DEF IsRun
  <2> HIDE DEF next, D
  <2> QED
    BY <1>3, <2>1 DEF IsRun
<1>5. Equation(g)
  <2>1. \A i \in 0..n : i # 0 => i \in 1..n
    BY <1>1
  <2> HIDE DEF n
  <2> QED
    BY <1>3, <1>4, <2>1 DEF IsRun
<1>6. Equation(picked)
  <2> HIDE DEF Equation
  <2> QED
    BY <1>5
<1>7. Others(names, known) = picked[n]
  BY DEF Others
<1>8. picked[0] = <<>> /\ \A i \in 1..n : picked[i] = next(picked[i - 1], i)
  <2>1. 0 \in 0..n /\ \A i \in 1..n : i \in 0..n /\ i # 0
    BY <1>1
  <2> HIDE DEF picked, n
  <2> QED
    BY <1>6, <2>1
<1>9. \A i \in 0..n : picked[i] \in D
  <2> DEFINE T == {i \in 0..n : picked[i] \in D}
  <2>1. 0 \in T
    <3>1. <<>> \in D /\ 0 \in 0..n
      BY <1>1
    <3> HIDE DEF D, n, picked
    <3> QED
      BY <1>8, <3>1
  <2>2. ASSUME NEW i \in 1..n, i - 1 \in T PROVE i \in T
    <3>1. next(picked[i - 1], i) \in D
      <4>1. picked[i - 1] \in D /\ names[i] \in S
        BY <1>1, <2>2
      <4> HIDE DEF picked
      <4> QED
        BY <4>1
    <3> HIDE DEF next, picked, D
    <3> QED
      BY <1>1, <1>8, <2>2, <3>1
  <2>3. 0..n \subseteq T
    <3> HIDE DEF T, n
    <3> QED
      BY <1>1, <2>1, <2>2, IntervalInduction
  <2> QED
    BY <2>3
<1> HIDE DEF picked, n
<1> QED
  BY <1>1, <1>7, <1>9

(* What the generators and the deployment scripts look up. *)
LEMMA ArtifactFields ==
  ASSUME NEW mode, NEW registry, NEW order, NEW forums
  PROVE  /\ DOMAIN Artifact(mode, registry, order, forums)
              = {"mode", "registry", "order", "forums"}
         /\ Artifact(mode, registry, order, forums).mode = mode
         /\ Artifact(mode, registry, order, forums).registry = registry
         /\ Artifact(mode, registry, order, forums).forums = forums
BY DEF Artifact

-----------------------------------------------------------------------------
(* The first deployment, with and without Ignition's state. *)
LEMMA InitDeployIInv ==
  ASSUME NEW config \in DeploymentConfig, DeployInit(config)
  PROVE  DeployIInv
<1> DEFINE m == ModuleOf(config)
           name == RegistryName(config.mode)
           forums == [n \in ToSet(config.forums) |->
                        1 + CHOOSE i \in DOMAIN config.forums : config.forums[i] = n]
           artifact == Artifact(config.mode, 1, config.forums, forums)
<1>1. /\ config.mode \in Modes /\ config.forums \in Seq(Names)
      /\ name \in Registries /\ name \notin Names
      /\ m \in Seq(Names \cup Registries) /\ Len(m) = Len(config.forums) + 1
      /\ m[1] = name
      /\ \A i \in 1..Len(config.forums) : m[i + 1] = config.forums[i]
  BY ModuleShape
<1>2. /\ chain = [i \in DOMAIN m |-> Contract(m[i], IF i = 1 THEN None ELSE 1)]
      /\ git = [config |-> config, artifact |-> artifact,
                site |-> SiteOf(artifact), backend |-> BackendOf(artifact)]
      /\ hosted = SiteOf(artifact)
      /\ journal = <<>> \/ journal = [key \in {Future(config, x) : x \in ToSet(m)} |->
                                  CHOOSE i \in DOMAIN chain : chain[i].name = key[2]]
      /\ runs = [r \in Runners |-> None]
      /\ spent = [edits |-> 0, dispatches |-> 0, failures |-> 0, wipes |-> 0]
  BY DEF DeployInit
<1> HIDE DEF m, name
<1>3. /\ chain \in Chains /\ DOMAIN chain = 1..Len(m) /\ Len(m) \in Nat
      /\ chain[1] = Contract(name, None)
      /\ \A i \in 1..Len(m) : i # 1 => /\ m[i] \in Names
                                       /\ chain[i] = Contract(m[i], 1)
  <2>1. DOMAIN m = 1..Len(m) /\ Len(m) \in Nat /\ 1 \in DOMAIN m
    BY <1>1
  <2>2. \A i \in 1..Len(m) : i # 1 => m[i] \in Names
    <3> SUFFICES ASSUME NEW i \in 1..Len(m), i # 1 PROVE m[i] \in Names
      OBVIOUS
    <3>1. i - 1 \in 1..Len(config.forums) /\ (i - 1) + 1 = i
      BY <1>1, <2>1
    <3> DEFINE k == i - 1
    <3>2. k \in 1..Len(config.forums) /\ k + 1 = i
      BY <3>1
    <3> HIDE DEF k
    <3>3. m[k + 1] = config.forums[k] /\ config.forums[k] \in Names
      BY <1>1, <3>2
    <3> QED
      BY <3>2, <3>3
  <2>3. chain \in [1..Len(m) -> [name : Names \cup Registries, registry : Nat \cup {None}]]
    BY <1>1, <1>2, <2>1 DEF Contract
  <2> QED
    BY <1>1, <1>2, <2>1, <2>2, <2>3 DEF Chains
<1>4. Sound(chain, artifact)
  <2>1. \A n \in DOMAIN forums : Deploys(chain, forums[n], Contract(n, 1))
    <3> SUFFICES ASSUME NEW n \in ToSet(config.forums)
                 PROVE  Deploys(chain, forums[n], Contract(n, 1))
      OBVIOUS
    <3> DEFINE i == CHOOSE i \in DOMAIN config.forums : config.forums[i] = n
    <3>1. i \in DOMAIN config.forums /\ config.forums[i] = n
      BY DEF ToSet
    <3>2. forums[n] = 1 + i
      OBVIOUS
    <3> HIDE DEF i, forums
    <3>3. i \in 1..Len(config.forums) /\ m[i + 1] = n /\ i + 1 \in 1..Len(m) /\ i + 1 # 1
      BY <1>1, <3>1
    <3>4. chain[i + 1] = Contract(n, 1) /\ i + 1 \in DOMAIN chain
      BY <1>3, <3>3
    <3>5. forums[n] = i + 1
      BY <3>2, <3>3
    <3> QED
      BY <3>4, <3>5 DEF Deploys
  <2> HIDE DEF forums
  <2>2. 1 \in DOMAIN chain /\ chain[1].name = name
    BY <1>1, <1>3 DEF Contract
  <2> QED
    BY <1>1, <2>1, <2>2, ArtifactFields DEF Sound, name
<1>5. BranchSound
  <2> HIDE DEF artifact
  <2> QED
    BY <1>2, <1>4 DEF BranchSound, WellFormed, FilesAgree
<1>6. JournalSound(chain, journal)
  <2>1. CASE journal = <<>>
    <3>1. DOMAIN journal = {}
      BY <2>1
    <3> QED
      BY <3>1 DEF JournalSound
  <2>2. CASE journal # <<>>
    <3>1. journal = [key \in {Future(config, x) : x \in ToSet(m)} |->
                      CHOOSE i \in DOMAIN chain : chain[i].name = key[2]]
      BY <1>2, <2>2
    <3>0. \A i \in DOMAIN chain :
            IF i = 1 THEN chain[i].name = name
            ELSE chain[i].name \in Names /\ chain[i] = Contract(chain[i].name, 1)
      <4> SUFFICES ASSUME NEW i \in 1..Len(m)
                   PROVE  IF i = 1 THEN chain[i].name = name
                          ELSE /\ chain[i].name \in Names
                               /\ chain[i] = Contract(chain[i].name, 1)
        BY <1>3
      <4>1. CASE i = 1
        BY <1>3, <4>1 DEF Contract
      <4>2. CASE i # 1
        <5>1. m[i] \in Names /\ chain[i] = Contract(m[i], 1)
          BY <1>3, <4>2
        <5>2. Contract(m[i], 1).name = m[i]
          BY DEF Contract
        <5> QED
          BY <4>2, <5>1, <5>2
      <4> QED
        BY <4>1, <4>2
    <3>2. ASSUME NEW mode \in Modes, NEW x, <<mode, x>> \in DOMAIN journal
          PROVE  /\ mode = config.mode /\ journal[<<mode, x>>] \in DOMAIN chain
                 /\ chain[journal[<<mode, x>>]].name = x
      <4>1. PICK y \in ToSet(m) : <<mode, x>> = Future(config, y)
        BY <3>1, <3>2
      <4>2. mode = config.mode /\ x = y
        BY <4>1 DEF Future
      <4>3. PICK i \in DOMAIN m : m[i] = x
        BY <4>1, <4>2 DEF ToSet
      <4>4. i \in DOMAIN chain /\ chain[i].name = x
        BY <1>1, <1>2, <4>3 DEF Contract
      <4>5. journal[<<mode, x>>] = CHOOSE j \in DOMAIN chain : chain[j].name = x
        BY <3>1, <3>2
      <4> QED
        BY <4>2, <4>4, <4>5
    <3>3. Future(config, name) \in DOMAIN journal
      <4>1. 1 \in DOMAIN m /\ m[1] = name
        BY <1>1
      <4>2. name \in ToSet(m)
        BY <4>1 DEF ToSet
      <4> QED
        BY <3>1, <4>2
    <3>4. journal[<<config.mode, name>>] = 1
      <4>1. /\ journal[<<config.mode, name>>] \in DOMAIN chain
            /\ chain[journal[<<config.mode, name>>]].name = name
        BY <1>1, <3>2, <3>3 DEF Future
      <4>2. \A i \in DOMAIN chain : chain[i].name = name => i = 1
        BY <1>1, <3>0
      <4> QED
        BY <4>1, <4>2
    <3>5. ASSUME NEW n \in Names, <<config.mode, n>> \in DOMAIN journal
          PROVE  Deploys(chain, journal[<<config.mode, n>>], Contract(n, 1))
      <4>1. /\ journal[<<config.mode, n>>] \in DOMAIN chain
            /\ chain[journal[<<config.mode, n>>]].name = n
        BY <1>1, <3>2, <3>5
      <4>2. \A i \in DOMAIN chain : chain[i].name = n => chain[i] = Contract(n, 1)
        BY <1>1, <3>0
      <4> QED
        BY <4>1, <4>2 DEF Deploys
    <3>6. ASSUME NEW mode \in Modes
          PROVE  LET key == <<mode, RegistryName(mode)>>
                 IN  /\ key \in DOMAIN journal =>
                          /\ journal[key] \in DOMAIN chain
                          /\ chain[journal[key]].name = RegistryName(mode)
                     /\ \A n \in Names :
                          <<mode, n>> \in DOMAIN journal =>
                            /\ key \in DOMAIN journal
                            /\ Deploys(chain, journal[<<mode, n>>], Contract(n, journal[key]))
      <4>1. CASE mode = config.mode
        BY <3>2, <3>3, <3>4, <3>5, <4>1 DEF Future, name
      <4>2. CASE mode # config.mode
        BY <3>2, <4>2
      <4> QED
        BY <4>1, <4>2
    <3> QED
      BY <3>6 DEF JournalSound
  <2> QED
    BY <2>1, <2>2
<1>7. ServedForumsStay
  <2> HIDE DEF artifact
  <2> QED
    BY <1>2 DEF ServedForumsStay, SiteOf
<1>8. DeployTypeOK /\ RunsSound /\ WipesCounted
  <2>1. Developer \in Runners
    BY DEF Runners
  <2> QED
    BY <1>2, <1>3, <2>1 DEF DeployTypeOK, RunsSound, WipesCounted
<1> QED
  BY <1>5, <1>6, <1>7, <1>8 DEF DeployIInv

-----------------------------------------------------------------------------
(* Each step keeps the invariant.  First, what steps have in common. *)
LEMMA SpendKeeps ==
  ASSUME DeployTypeOK, NEW what \in {"edits", "dispatches", "failures", "wipes"},
         NEW bound, Spend(what, bound)
  PROVE  /\ DOMAIN spent' = {"edits", "dispatches", "failures", "wipes"}
         /\ spent'.wipes \in Nat
         /\ what # "wipes" => spent'.wipes = spent.wipes
         /\ what = "wipes" => spent'.wipes > 0
BY DEF DeployTypeOK, Spend

(* A step of one run that does not touch the branch. *)
LEMMA RunsKept ==
  ASSUME DeployIInv, NEW r \in Runners, git' = git, Grows(chain, chain'),
         \A o \in Runners : o # r => runs'[o] = runs[o],
         r # Developer => DOMAIN journal \subseteq DOMAIN journal',
         runs'[r] # None => RunSound(chain', journal', git, r, runs'[r])
  PROVE  RunsSound' /\ BranchSound'
<1>1. BranchSound'
  <2>1. WellFormed(chain', git)
    BY SoundGrows DEF DeployIInv, BranchSound
  <2> QED
    BY <2>1 DEF DeployIInv, BranchSound, FilesAgree
<1>2. ASSUME NEW o \in Runners, runs'[o] # None
      PROVE  RunSound(chain', journal', git', o, runs'[o])
  <2>1. CASE o = r
    BY <1>2, <2>1
  <2>2. CASE o # r
    <3>1. RunSound(chain, journal, git, o, runs[o]) /\ runs'[o] = runs[o]
      BY <1>2, <2>2 DEF DeployIInv, RunsSound
    <3>2. o = Developer => DOMAIN journal \subseteq DOMAIN journal'
      BY <2>2
    <3> QED
      BY <3>1, <3>2, RunGrows
  <2> QED
    BY <2>1, <2>2
<1> QED
  BY <1>1, <1>2 DEF RunsSound

(* A commit puts every other run behind. *)
LEMMA CommitKeeps ==
  ASSUME DeployIInv, NEW files, NEW r, Commit(files, r), WellFormed(chain, files),
         files.site = SiteOf(files.artifact), files.backend = BackendOf(files.artifact),
         UNCHANGED <<chain, journal>>
  PROVE  /\ RunsSound' /\ BranchSound' /\ DOMAIN runs' = Runners
         /\ \A o \in Runners : runs'[o] # None => runs[o] # None
<1>1. /\ git' = files
      /\ runs' = [o \in Runners |->
                    IF Idle(o) \/ o = r THEN None ELSE [runs[o] EXCEPT !.behind = TRUE]]
  BY DEF Commit
<1>2. BranchSound'
  BY <1>1 DEF BranchSound, FilesAgree
<1>3. ASSUME NEW o \in Runners, runs'[o] # None
      PROVE  runs[o] # None /\ RunSound(chain', journal', git', o, runs'[o])
  <2>1. runs[o] # None /\ runs'[o] = [runs[o] EXCEPT !.behind = TRUE]
    BY <1>1, <1>3 DEF Idle
  <2>2. RunSound(chain, journal, git, o, runs[o])
    BY <2>1 DEF DeployIInv, RunsSound
  <2>3. /\ DOMAIN runs'[o] = DOMAIN runs[o] /\ runs'[o].behind
        /\ runs'[o].step = runs[o].step /\ runs'[o].todo = runs[o].todo
        /\ runs'[o].found = runs[o].found /\ runs'[o].base = runs[o].base
        /\ runs'[o].files = runs[o].files
    BY <2>1, <2>2 DEF RunSound
  <2>4. /\ Reconciling(chain, runs[o]) => Reconciling(chain, runs'[o])
        /\ Deploying(journal, runs[o]) => Deploying(journal, runs'[o])
    BY <2>3 DEF Reconciling, Deploying
  <2>5. RunSound(chain, journal, git', o, runs'[o])
    BY <2>2, <2>3, <2>4 DEF RunSound
  <2> QED
    BY <2>1, <2>5
<1> QED
  BY <1>1, <1>2, <1>3 DEF RunsSound

(* Where the chain, the branch and the site stay. *)
LEMMA ServedKept ==
  ASSUME DeployIInv, hosted' = hosted, git'.artifact = git.artifact,
         spent'.wipes = 0 => spent.wipes = 0
  PROVE  ServedForumsStay'
BY DEF DeployIInv, ServedForumsStay

(* A chain that stays as it is has grown, too. *)
LEMMA ChainStays == Grows(chain, chain)
BY DEF Grows

(* Editing the profile changes no artifact. *)
LEMMA EditKeeps ==
  ASSUME DeployIInv, NEW config \in Configs, EditConfig(config)
  PROVE  DeployIInv'
<1> DEFINE files == [git EXCEPT !.config = config]
<1>1. /\ Spend("edits", MaxEdits) /\ Commit(files, None)
      /\ UNCHANGED <<chain, journal, hosted, siteDue>>
  BY DEF EditConfig
<1>2. /\ DOMAIN git = {"config", "artifact", "site", "backend"}
      /\ files.config = config /\ files.artifact = git.artifact
      /\ files.site = git.site /\ files.backend = git.backend
      /\ DOMAIN files = DOMAIN git
  BY DEF DeployIInv, BranchSound, WellFormed
<1> HIDE DEF files
<1>3. WellFormed(chain, files)
  BY <1>2, DeploymentAssumption DEF DeployIInv, BranchSound, WellFormed
<1>4. files.site = SiteOf(files.artifact) /\ files.backend = BackendOf(files.artifact)
  BY <1>2 DEF DeployIInv, BranchSound, FilesAgree
<1>5. /\ RunsSound' /\ BranchSound' /\ DOMAIN runs' = Runners
      /\ \A o \in Runners : runs'[o] # None => runs[o] # None
  BY <1>1, <1>3, <1>4, CommitKeeps
<1>6. DeployTypeOK' /\ spent'.wipes = spent.wipes
  BY <1>1, <1>5, SpendKeeps DEF DeployIInv, DeployTypeOK
<1>7. WipesCounted'
  BY <1>5, <1>6 DEF DeployIInv, WipesCounted, Runners
<1>8. ServedForumsStay'
  <2>1. git' = files
    BY <1>1 DEF Commit
  <2> QED
    BY <1>1, <1>2, <1>6, <2>1, ServedKept
<1> QED
  BY <1>1, <1>5, <1>6, <1>7, <1>8 DEF DeployIInv

(* A reconciliation starts with what is missing. *)
LEMMA BeginReconcileKeeps ==
  ASSUME DeployIInv, NEW r \in {Develop, Dispatch}, BeginReconcile(r)
  PROVE  DeployIInv'
<1>1. /\ UNCHANGED <<chain, journal, git, hosted, siteDue>>
      /\ UNCHANGED spent \/ Spend("dispatches", MaxDispatches)
      /\ runs' = runs \/ runs' = [runs EXCEPT ![r] = Checkout("reconcile", Missing)]
  BY DEF BeginReconcile
<1>2. r \in Runners /\ r # Developer
  <2>1. Develop # Developer /\ Dispatch # Developer
    BY RunnersDiffer
  <2> QED
    BY <2>1 DEF Runners
<1>3. /\ DOMAIN runs = Runners /\ WellFormed(chain, git)
      /\ \A o \in Runners : runs[o] # None => RunSound(chain, journal, git, o, runs[o])
  BY DEF DeployIInv, DeployTypeOK, BranchSound, RunsSound
<1>4. DOMAIN runs' = Runners /\ \A o \in Runners : o # r => runs'[o] = runs[o]
  BY <1>1, <1>3
<1>5. ASSUME runs'[r] # None PROVE RunSound(chain, journal, git, r, runs'[r])
  <2>1. CASE runs' = runs
    BY <1>2, <1>3, <1>5, <2>1
  <2>2. CASE runs' = [runs EXCEPT ![r] = Checkout("reconcile", Missing)]
    <3> DEFINE run == Checkout("reconcile", Missing)
               known == DOMAIN git.artifact.forums
    <3>1. runs'[r] = run
      BY <1>2, <1>3, <2>2
    <3>2. Missing \in Seq({n \in Names : n \notin known})
      <4>1. git.config.forums \in Seq(Names)
        BY <1>3, ModuleShape DEF WellFormed
      <4> QED
        BY <4>1, OthersType DEF Missing
    <3>3. /\ DOMAIN run = {"step", "todo", "found", "base", "files", "behind"}
          /\ run.step = "reconcile" /\ run.todo = Missing /\ run.found = <<>>
          /\ run.base = git /\ run.files = git /\ run.behind = FALSE
      <4> HIDE DEF Missing
      <4> QED
        BY DEF Checkout
    <3> HIDE DEF run
    <3>4. Reconciling(chain, run)
      <4>1. Missing \in Seq(Names) /\ \A i \in DOMAIN Missing : Missing[i] \notin known
        BY <3>2
      <4>2. DOMAIN run.found = {}
        BY <3>3
      <4> QED
        BY <3>3, <4>1, <4>2 DEF Reconciling
    <3>5. Keeps(run.base.artifact, run.files.artifact)
      BY <3>3 DEF Keeps
    <3> QED
      BY <1>2, <1>3, <3>1, <3>3, <3>4, <3>5 DEF RunSound
  <2> QED
    BY <1>1, <2>1, <2>2
<1>6. RunsSound' /\ BranchSound'
  BY <1>1, <1>2, <1>4, <1>5, RunsKept, ChainStays
<1>7. /\ DOMAIN spent' = {"edits", "dispatches", "failures", "wipes"}
      /\ spent'.wipes \in Nat /\ spent'.wipes = spent.wipes
  BY <1>1, SpendKeeps DEF DeployIInv, DeployTypeOK
<1>8. DeployTypeOK'
  BY <1>1, <1>4, <1>7 DEF DeployIInv, DeployTypeOK
<1>9. WipesCounted'
  BY <1>2, <1>4, <1>7 DEF DeployIInv, WipesCounted, Runners
<1>10. ServedForumsStay'
  BY <1>1, <1>7, ServedKept
<1> QED
  BY <1>1, <1>6, <1>8, <1>9, <1>10 DEF DeployIInv

(* One run goes on; the branch and the site stay. *)
LEMMA StepKeeps ==
  ASSUME DeployIInv, NEW r \in Runners, runs[r] # None, NEW run,
         runs' = [runs EXCEPT ![r] = run], UNCHANGED <<git, hosted, spent>>,
         chain' \in Chains, Grows(chain, chain'), DOMAIN journal \subseteq DOMAIN journal',
         JournalSound(chain', journal'), RunSound(chain', journal', git, r, run)
  PROVE  DeployIInv'
<1>1. /\ DOMAIN runs = Runners /\ DOMAIN runs' = Runners /\ runs'[r] = run
      /\ \A o \in Runners : o # r => runs'[o] = runs[o]
  BY DEF DeployIInv, DeployTypeOK
<1>2. RunsSound' /\ BranchSound'
  BY <1>1, RunsKept
<1>3. DeployTypeOK'
  BY <1>1 DEF DeployIInv, DeployTypeOK
<1>4. WipesCounted'
  BY <1>1 DEF DeployIInv, WipesCounted, Runners
<1>5. ServedForumsStay'
  BY ServedKept
<1> QED
  BY <1>2, <1>3, <1>4, <1>5 DEF DeployIInv

(* The next of the missing forums asks the artifact's registry. *)
LEMMA DeployMissingKeeps ==
  ASSUME DeployIInv, NEW r \in Runners, DeployMissing(r)
  PROVE  DeployIInv'
<1> DEFINE run == runs[r]
           artifact == run.files.artifact
           name == Head(run.todo)
           contract == Contract(name, artifact.registry)
           new == Append(chain, contract)
           address == Len(chain) + 1
           run2 == [run EXCEPT !.todo = Tail(@), !.found = With(@, name, address)]
<1>1. /\ run # None /\ run.step = "reconcile" /\ run.todo # <<>>
      /\ UNCHANGED <<journal, git, hosted, spent>> /\ chain' = new
  BY DEF DeployMissing, At, Idle
<1>2. RunSound(chain, journal, git, r, run) /\ chain \in Chains /\ JournalSound(chain, journal)
      /\ DOMAIN runs = Runners
  BY <1>1 DEF DeployIInv, RunsSound, DeployTypeOK
<1>3. /\ r # Developer /\ Reconciling(chain, run) /\ Sound(chain, artifact)
      /\ run.todo \in Seq(Names) /\ DOMAIN run = {"step", "todo", "found", "base", "files", "behind"}
  BY <1>1, <1>2 DEF RunSound, WellFormed, Reconciling
<1>4. /\ name \in Names /\ Tail(run.todo) \in Seq(Names) /\ name \notin DOMAIN artifact.forums
      /\ \A i \in DOMAIN Tail(run.todo) : Tail(run.todo)[i] \notin DOMAIN artifact.forums
  <2>1. 1 \in DOMAIN run.todo /\ name = run.todo[1] /\ name \in Names
    BY <1>1, <1>3
  <2>2. \A i \in DOMAIN Tail(run.todo) : i + 1 \in DOMAIN run.todo
                                       /\ Tail(run.todo)[i] = run.todo[i + 1]
    BY <1>1, <1>3
  <2> QED
    BY <1>1, <1>3, <2>1, <2>2 DEF Reconciling
<1>5. contract \in [name : Names \cup Registries, registry : Nat \cup {None}]
  <2>1. artifact.registry \in Nat
    BY <1>2, <1>3 DEF Sound, Chains
  <2> QED
    BY <1>4, <2>1 DEF Contract
<1>6. /\ new \in Chains /\ Grows(chain, new) /\ Address(new) = address
      /\ Deploys(new, address, contract)
  BY <1>2, <1>5, AppendGrows
<1>7. runs' = [runs EXCEPT ![r] = run2]
  BY <1>1, <1>6 DEF DeployMissing
<1>8. /\ DOMAIN run2 = DOMAIN run /\ run2.step = run.step /\ run2.base = run.base
      /\ run2.files = run.files /\ run2.behind = run.behind
      /\ run2.todo = Tail(run.todo) /\ run2.found = With(run.found, name, address)
  BY <1>3
<1> HIDE DEF run, run2, new, contract, name, address
<1>9. Reconciling(new, run2)
  <2>1. Reconciling(new, run)
    BY <1>3, <1>6, SoundGrows
  <2>2. ASSUME NEW n \in DOMAIN run2.found
        PROVE  /\ n \notin DOMAIN artifact.forums
               /\ Deploys(new, run2.found[n], Contract(n, artifact.registry))
    <3>1. CASE n = name
      BY <1>4, <1>6, <1>8, <3>1 DEF With, contract
    <3>2. CASE n # name
      <4>1. n \in DOMAIN run.found /\ run2.found[n] = run.found[n]
        BY <1>8, <2>2, <3>2 DEF With
      <4> QED
        BY <2>1, <4>1 DEF Reconciling
    <3> QED
      BY <3>1, <3>2
  <2> QED
    BY <1>4, <1>8, <2>2 DEF Reconciling
<1>10. RunSound(new, journal, git, r, run2)
  <2>1. RunSound(new, journal, git, r, run)
    BY <1>2, <1>6, RunGrows
  <2> QED
    BY <1>1, <1>3, <1>8, <1>9, <2>1 DEF RunSound
<1>11. JournalSound(new, journal)
  BY <1>2, <1>6, SoundGrows
<1> QED
  BY <1>1, <1>6, <1>7, <1>10, <1>11, StepKeeps DEF run

(* The known forums stay where they are, and the new ones are on the chain. *)
LEMMA WriteReconciledKeeps ==
  ASSUME DeployIInv, NEW r \in Runners, WriteReconciled(r)
  PROVE  DeployIInv'
<1> DEFINE run == runs[r]
           known == run.files.artifact
           merged == Reconciled(run)
           run2 == [run EXCEPT !.files = [@ EXCEPT !.artifact = merged], !.step = "site"]
<1>1. /\ run # None /\ run.step = "reconcile"
      /\ UNCHANGED <<chain, journal, git, hosted, spent>>
      /\ runs' = [runs EXCEPT ![r] = run2]
  BY DEF WriteReconciled, At, Idle
<1>2. RunSound(chain, journal, git, r, run) /\ chain \in Chains /\ JournalSound(chain, journal)
  BY <1>1 DEF DeployIInv, RunsSound, DeployTypeOK
<1>3. /\ r # Developer /\ Reconciling(chain, run) /\ WellFormed(chain, run.files)
      /\ DOMAIN run = {"step", "todo", "found", "base", "files", "behind"}
      /\ Keeps(run.base.artifact, known)
      /\ ~run.behind => run.base = git
  BY <1>1, <1>2 DEF RunSound
<1>4. /\ DOMAIN merged = {"mode", "registry", "order", "forums"}
      /\ merged.mode = known.mode /\ merged.registry = known.registry
      /\ merged.forums = [n \in DOMAIN run.found \cup DOMAIN known.forums |->
                            IF n \in DOMAIN run.found THEN run.found[n] ELSE known.forums[n]]
  BY ArtifactFields DEF Reconciled
<1>5. /\ DOMAIN run2 = DOMAIN run /\ run2.step = "site" /\ run2.base = run.base
      /\ run2.behind = run.behind /\ DOMAIN run2.files = DOMAIN run.files
      /\ run2.files.artifact = merged /\ run2.files.config = run.files.config
  BY <1>3 DEF WellFormed
<1> HIDE DEF merged, run2, run
<1>6. Sound(chain, merged)
  BY <1>3, <1>4 DEF Sound, WellFormed, Reconciling
<1>7. Keeps(run.base.artifact, merged)
  <2> SUFFICES ASSUME NEW n \in DOMAIN run.base.artifact.forums
               PROVE  /\ n \in DOMAIN merged.forums
                      /\ merged.forums[n] = run.base.artifact.forums[n]
    BY DEF Keeps
  <2>1. n \in DOMAIN known.forums /\ known.forums[n] = run.base.artifact.forums[n]
    BY <1>3 DEF Keeps
  <2>2. n \notin DOMAIN run.found
    BY <1>3, <2>1 DEF Reconciling
  <2> QED
    BY <1>4, <2>1, <2>2
<1>8. RunSound(chain, journal, git, r, run2)
  <2>1. WellFormed(chain, run2.files)
    BY <1>3, <1>5, <1>6 DEF WellFormed
  <2>2. /\ DOMAIN run2 = {"step", "todo", "found", "base", "files", "behind"}
        /\ ~run2.behind => run2.base = git
        /\ Keeps(run2.base.artifact, run2.files.artifact)
    BY <1>3, <1>5, <1>7
  <2> QED
    BY <1>5, <2>1, <2>2 DEF RunSound
<1> QED
  BY <1>1, <1>2, <1>8, StepKeeps, ChainStays DEF run

(* The site's addresses are those of the checkout's artifact. *)
LEMMA GenerateSiteKeeps ==
  ASSUME DeployIInv, NEW r \in Runners, GenerateDeploymentArtifacts(r)
  PROVE  DeployIInv'
<1> DEFINE run == runs[r]
           site == SiteOf(run.files.artifact)
           run2 == [run EXCEPT !.files = [@ EXCEPT !.site = site], !.step = "backend"]
<1>1. /\ run # None /\ UNCHANGED <<chain, journal, git, hosted, spent>>
      /\ runs' = [runs EXCEPT ![r] = run2]
  BY DEF GenerateDeploymentArtifacts, At, Idle
<1>2. RunSound(chain, journal, git, r, run) /\ chain \in Chains /\ JournalSound(chain, journal)
  BY <1>1 DEF DeployIInv, RunsSound, DeployTypeOK
<1>3. /\ DOMAIN run2 = DOMAIN run /\ run2.step = "backend" /\ run2.base = run.base
      /\ run2.behind = run.behind /\ DOMAIN run2.files = DOMAIN run.files
      /\ run2.files.artifact = run.files.artifact /\ run2.files.config = run.files.config
      /\ run2.files.site = site
  BY <1>2 DEF RunSound, WellFormed
<1> HIDE DEF run2
<1>4. WellFormed(chain, run2.files)
  BY <1>2, <1>3 DEF RunSound, WellFormed
<1>5. RunSound(chain, journal, git, r, run2)
  BY <1>2, <1>3, <1>4 DEF RunSound
<1> QED
  BY <1>1, <1>2, <1>5, StepKeeps, ChainStays

(* So is the list of the backend. *)
LEMMA GenerateBackendKeeps ==
  ASSUME DeployIInv, NEW r \in Runners, GenerateBackendEnvExamples(r)
  PROVE  DeployIInv'
<1> DEFINE run == runs[r]
           backend == BackendOf(run.files.artifact)
           run2 == [run EXCEPT !.files = [@ EXCEPT !.backend = backend], !.step = "push"]
<1>1. /\ run # None /\ run.step = "backend" /\ UNCHANGED <<chain, journal, git, hosted, spent>>
      /\ runs' = [runs EXCEPT ![r] = run2]
  BY DEF GenerateBackendEnvExamples, At, Idle
<1>2. RunSound(chain, journal, git, r, run) /\ chain \in Chains /\ JournalSound(chain, journal)
  BY <1>1 DEF DeployIInv, RunsSound, DeployTypeOK
<1>3. /\ DOMAIN run2 = DOMAIN run /\ run2.step = "push" /\ run2.base = run.base
      /\ run2.behind = run.behind /\ DOMAIN run2.files = DOMAIN run.files
      /\ run2.files.artifact = run.files.artifact /\ run2.files.config = run.files.config
      /\ run2.files.site = run.files.site /\ run2.files.backend = backend
  BY <1>2 DEF RunSound, WellFormed
<1> HIDE DEF run2
<1>4. WellFormed(chain, run2.files)
  BY <1>2, <1>3 DEF RunSound, WellFormed
<1>5. RunSound(chain, journal, git, r, run2)
  BY <1>1, <1>2, <1>3, <1>4 DEF RunSound
<1> QED
  BY <1>1, <1>2, <1>5, StepKeeps, ChainStays

(* The run ends, with its commit or without. *)
LEMMA EndKeeps ==
  ASSUME DeployIInv, NEW r \in Runners, runs' = [runs EXCEPT ![r] = None],
         UNCHANGED <<chain, journal, git, hosted>>,
         UNCHANGED spent \/ Spend("failures", MaxFailures)
  PROVE  DeployIInv'
<1>1. /\ DOMAIN runs' = Runners /\ runs'[r] = None
      /\ \A o \in Runners : o # r => runs'[o] = runs[o]
  BY DEF DeployIInv, DeployTypeOK
<1>2. RunsSound' /\ BranchSound'
  BY <1>1, RunsKept, ChainStays
<1>3. /\ DOMAIN spent' = {"edits", "dispatches", "failures", "wipes"}
      /\ spent'.wipes \in Nat /\ spent'.wipes = spent.wipes
  BY SpendKeeps DEF DeployIInv, DeployTypeOK
<1>4. DeployTypeOK' /\ WipesCounted'
  BY <1>1, <1>3 DEF DeployIInv, DeployTypeOK, WipesCounted, Runners
<1>5. ServedForumsStay'
  BY <1>3, ServedKept
<1> QED
  BY <1>2, <1>4, <1>5 DEF DeployIInv

(* A commit brings three files that agree, by a run that kept what the     *)
(* branch named or by a redeployment.                                      *)
LEMMA PushKeeps ==
  ASSUME DeployIInv, NEW r \in Runners, Push(r)
  PROVE  DeployIInv'
<1> DEFINE run == runs[r]
<1>1. /\ run # None /\ run.step = "push" /\ UNCHANGED <<chain, journal, hosted, spent>>
      /\ \/ ~run.behind /\ Commit(run.files, r)
         \/ runs' = [runs EXCEPT ![r] = None] /\ UNCHANGED git
  BY DEF Push, At, Idle
<1>2. CASE ~run.behind /\ Commit(run.files, r)
  <2>1. RunSound(chain, journal, git, r, run)
    BY <1>1 DEF DeployIInv, RunsSound
  <2>2. /\ WellFormed(chain, run.files) /\ run.base = git
        /\ run.files.site = SiteOf(run.files.artifact)
        /\ run.files.backend = BackendOf(run.files.artifact)
        /\ r # Developer => Keeps(git.artifact, run.files.artifact)
    BY <1>1, <1>2, <2>1 DEF RunSound
  <2>3. /\ RunsSound' /\ BranchSound' /\ DOMAIN runs' = Runners
        /\ \A o \in Runners : runs'[o] # None => runs[o] # None
    BY <1>1, <1>2, <2>2, CommitKeeps
  <2>4. DeployTypeOK' /\ WipesCounted'
    BY <1>1, <2>3 DEF DeployIInv, DeployTypeOK, WipesCounted, Runners
  <2>5. ServedForumsStay'
    <3> SUFFICES ASSUME spent'.wipes = 0, NEW n \in DOMAIN hosted
                 PROVE  /\ n \in DOMAIN run.files.artifact.forums
                        /\ run.files.artifact.forums[n] = hosted[n]
      BY <1>1, <1>2 DEF ServedForumsStay, Commit
    <3>1. spent.wipes = 0
      BY <1>1
    <3>2. r # Developer
      BY <1>1, <3>1 DEF DeployIInv, WipesCounted
    <3>3. n \in DOMAIN git.artifact.forums /\ git.artifact.forums[n] = hosted[n]
      BY <3>1 DEF DeployIInv, ServedForumsStay
    <3> QED
      BY <2>2, <3>2, <3>3 DEF Keeps
  <2> QED
    BY <1>1, <2>3, <2>4, <2>5 DEF DeployIInv
<1>3. CASE runs' = [runs EXCEPT ![r] = None] /\ UNCHANGED git
  BY <1>1, <1>3, EndKeeps
<1> QED
  BY <1>1, <1>2, <1>3

(* The site that is served is the branch's. *)
LEMMA SiteKeeps ==
  ASSUME DeployIInv, DeploySite
  PROVE  DeployIInv'
<1>1. hosted' = git.site /\ UNCHANGED <<chain, journal, git, runs, spent>>
  BY DEF DeploySite
<1>2. DeployTypeOK' /\ BranchSound' /\ RunsSound' /\ WipesCounted'
  BY <1>1 DEF DeployIInv, DeployTypeOK, BranchSound, WellFormed, FilesAgree, RunsSound,
              WipesCounted
<1>3. ServedForumsStay'
  BY <1>1 DEF DeployIInv, BranchSound, FilesAgree, SiteOf, ServedForumsStay
<1> QED
  BY <1>1, <1>2, <1>3 DEF DeployIInv

-----------------------------------------------------------------------------
(* The break-glass target. *)
LEMMA BeginDeployKeeps ==
  ASSUME DeployIInv, NEW kept \in BOOLEAN, BeginDeploy(kept)
  PROVE  DeployIInv'
<1> DEFINE run == Checkout("deploy", ModuleOf(git.config))
           c == git.config
<1>1. /\ Spend("wipes", MaxWipes) /\ UNCHANGED <<chain, git, hosted>>
      /\ journal' = journal \/ journal' = <<>>
      /\ runs' = [runs EXCEPT ![Developer] = run]
  BY DEF BeginDeploy
<1>2. /\ DOMAIN runs = Runners /\ WellFormed(chain, git) /\ JournalSound(chain, journal)
      /\ Developer \in Runners
  BY DEF DeployIInv, DeployTypeOK, BranchSound, Runners
<1>3. /\ DOMAIN run = {"step", "todo", "found", "base", "files", "behind"}
      /\ run.step = "deploy" /\ run.todo = ModuleOf(c) /\ run.base = git
      /\ run.files = git /\ run.behind = FALSE
  <2> HIDE DEF c
  <2> QED
    BY DEF Checkout, c
<1>4. /\ DOMAIN runs' = Runners /\ runs'[Developer] = run
      /\ \A o \in Runners : o # Developer => runs'[o] = runs[o]
  BY <1>1, <1>2
<1> HIDE DEF run
<1>5. Deploying(journal', run)
  <2>1. c \in DeploymentConfig
    BY <1>2 DEF WellFormed
  <2> HIDE DEF c
  <2>2. /\ ModuleOf(c) = <<RegistryName(c.mode)>> \o c.forums
        /\ ModuleOf(c) \in Seq(Names \cup Registries)
        /\ Len(ModuleOf(c)) = Len(c.forums) + 1 /\ c.forums \in Seq(Names)
        /\ ModuleOf(c)[1] = RegistryName(c.mode)
        /\ \A i \in 1..Len(c.forums) : ModuleOf(c)[i + 1] = c.forums[i]
    BY <2>1, ModuleShape
  <2>3. \A j \in DOMAIN ModuleOf(c) :
          ModuleOf(c)[j] = RegistryName(c.mode) \/ ModuleOf(c)[j] \in Names
    <3> SUFFICES ASSUME NEW j \in DOMAIN ModuleOf(c), j # 1 PROVE ModuleOf(c)[j] \in Names
      BY <2>2
    <3> DEFINE i == j - 1
    <3>1. i \in 1..Len(c.forums) /\ i + 1 = j
      BY <2>2
    <3> HIDE DEF i
    <3>2. ModuleOf(c)[i + 1] = c.forums[i] /\ c.forums[i] \in Names
      BY <2>2, <3>1
    <3> QED
      BY <3>1, <3>2
  <2>4. \A i \in DOMAIN c.forums :
          i + 1 \in DOMAIN ModuleOf(c) /\ ModuleOf(c)[i + 1] = c.forums[i]
    BY <2>2
  <2>5. run.files.config = c
    BY <1>3 DEF c
  <2> DEFINE todo == ModuleOf(c)
             registry == RegistryName(c.mode)
             state == journal'
  <2>6. /\ todo \in Seq(Names \cup Registries) /\ todo = <<registry>> \o c.forums
        /\ \A i \in DOMAIN c.forums : \E j \in DOMAIN todo : todo[j] = c.forums[i]
        /\ \A j \in DOMAIN todo : todo[j] = registry \/ todo[j] \in Names
    <3> HIDE DEF todo
    <3>1. \A i \in DOMAIN c.forums : \E j \in DOMAIN todo : todo[j] = c.forums[i]
      BY <2>4 DEF todo
    <3> QED
      BY <2>2, <2>3, <3>1 DEF todo
  <2>7. run.todo = todo
    BY <1>3
  <2> HIDE DEF todo, registry, state
  <2>8. Deploying(state, run)
    BY <2>5, <2>6, <2>7 DEF Deploying, registry
  <2> QED
    BY <2>8 DEF state
<1>6. RunSound(chain', journal', git, Developer, run)
  BY <1>1, <1>2, <1>3, <1>5 DEF RunSound
<1>7. RunsSound' /\ BranchSound'
  BY <1>1, <1>2, <1>4, <1>6, RunsKept, ChainStays
<1>8. JournalSound(chain', journal')
  <2>1. CASE journal' = <<>>
    <3>1. DOMAIN journal' = {}
      BY <2>1
    <3> QED
      BY <3>1 DEF JournalSound
  <2> QED
    BY <1>1, <1>2, <2>1
<1>9. /\ DOMAIN spent' = {"edits", "dispatches", "failures", "wipes"}
      /\ spent'.wipes \in Nat /\ spent'.wipes > 0
  BY <1>1, SpendKeeps DEF DeployIInv
<1>10. DeployTypeOK' /\ WipesCounted' /\ ServedForumsStay'
  BY <1>1, <1>4, <1>9 DEF DeployIInv, DeployTypeOK, WipesCounted, ServedForumsStay
<1> QED
  BY <1>7, <1>8, <1>10 DEF DeployIInv

(* What is next to be deployed leaves the list when Ignition knows it. *)
LEMMA DeployingGoesOn ==
  ASSUME NEW state, NEW state2, DOMAIN state \subseteq DOMAIN state2,
         NEW run, Deploying(state, run), run.files.config \in DeploymentConfig,
         run.todo # <<>>, Future(run.files.config, Head(run.todo)) \in DOMAIN state2,
         NEW run2, run2.files = run.files, run2.todo = Tail(run.todo)
  PROVE  Deploying(state2, run2)
<1> DEFINE config == run.files.config
           registry == RegistryName(config.mode)
           todo == run.todo
<1>1. /\ todo \in Seq(Names \cup Registries)
      /\ Future(config, registry) \in DOMAIN state \/ todo = <<registry>> \o config.forums
      /\ \A i \in DOMAIN config.forums :
           \/ Future(config, config.forums[i]) \in DOMAIN state
           \/ \E j \in DOMAIN todo : todo[j] = config.forums[i]
      /\ \A j \in DOMAIN todo : todo[j] = registry \/ todo[j] \in Names
  BY DEF Deploying
<1>2. config.forums \in Seq(Names)
  BY ModuleShape
<1>3. Future(config, registry) \in DOMAIN state2
  <2> HIDE DEF config, registry
  <2>1. CASE todo = <<registry>> \o config.forums
    <3>1. Head(<<registry>> \o config.forums) = registry
      BY <1>2
    <3> QED
      BY <2>1, <3>1 DEF config
  <2> QED
    BY <1>1, <2>1
<1> HIDE DEF config, registry, todo
<1>4. /\ todo # <<>> /\ Future(config, Head(todo)) \in DOMAIN state2
      /\ run2.files.config = config /\ run2.todo = Tail(todo)
  BY DEF todo, config
<1>5. /\ Tail(todo) \in Seq(Names \cup Registries) /\ Head(todo) = todo[1]
      /\ \A i \in DOMAIN Tail(todo) : i + 1 \in DOMAIN todo /\ Tail(todo)[i] = todo[i + 1]
  BY <1>1, <1>4
<1>6. ASSUME NEW j \in DOMAIN todo, j # 1
      PROVE  \E i \in DOMAIN Tail(todo) : Tail(todo)[i] = todo[j]
  <2> DEFINE i == j - 1
  <2>1. i \in DOMAIN Tail(todo) /\ i + 1 = j
    BY <1>1, <1>4, <1>6
  <2> HIDE DEF i
  <2> QED
    BY <1>5, <2>1
<1>7. \A i \in DOMAIN config.forums :
        \/ Future(config, config.forums[i]) \in DOMAIN state2
        \/ \E j \in DOMAIN Tail(todo) : Tail(todo)[j] = config.forums[i]
  <2> SUFFICES ASSUME NEW i \in DOMAIN config.forums,
                      Future(config, config.forums[i]) \notin DOMAIN state2
               PROVE  \E j \in DOMAIN Tail(todo) : Tail(todo)[j] = config.forums[i]
    OBVIOUS
  <2>1. PICK j \in DOMAIN todo : todo[j] = config.forums[i]
    BY <1>1
  <2>2. j # 1
    BY <1>4, <1>5, <2>1
  <2> QED
    BY <1>6, <2>1, <2>2
<1>8. \A j \in DOMAIN Tail(todo) : Tail(todo)[j] = registry \/ Tail(todo)[j] \in Names
  BY <1>1, <1>5
<1> QED
  BY <1>3, <1>4, <1>5, <1>7, <1>8 DEF Deploying, registry

(* The journal after one more contract, a registry or a forum of it. *)
LEMMA JournalGrows ==
  ASSUME NEW deployed \in Chains, NEW state, JournalSound(deployed, state),
         NEW config \in DeploymentConfig, NEW name \in Names \cup {RegistryName(config.mode)},
         Future(config, name) \notin DOMAIN state,
         name \in Names => Future(config, RegistryName(config.mode)) \in DOMAIN state,
         NEW contract \in [name : Names \cup Registries, registry : Nat \cup {None}],
         contract = Contract(name, IF name = RegistryName(config.mode) THEN None
                                   ELSE state[Future(config, RegistryName(config.mode))])
  PROVE  JournalSound(Append(deployed, contract),
                      With(state, Future(config, name), Len(deployed) + 1))
<1> DEFINE new == Append(deployed, contract)
           address == Len(deployed) + 1
           key == Future(config, name)
           state2 == With(state, key, address)
<1>1. /\ JournalSound(new, state) /\ Deploys(new, address, contract)
  BY AppendGrows, SoundGrows
<1>2. /\ DOMAIN state2 = DOMAIN state \cup {key} /\ state2[key] = address
      /\ \A k \in DOMAIN state : k # key => state2[k] = state[k]
  BY DEF With
<1>3. /\ contract.name = name /\ key = <<config.mode, name>>
      /\ config.mode \in Modes
      /\ RegistryName(config.mode) \notin Names
  BY ModuleShape DEF Contract, Future
<1>4. new[address] = contract /\ address \in DOMAIN new
  BY <1>1 DEF Deploys
<1> HIDE DEF new, address, state2, key
<1>5. ASSUME NEW mode \in Modes
      PROVE  LET k == <<mode, RegistryName(mode)>>
             IN  /\ k \in DOMAIN state2 =>
                      /\ state2[k] \in DOMAIN new /\ new[state2[k]].name = RegistryName(mode)
                 /\ \A n \in Names :
                      <<mode, n>> \in DOMAIN state2 =>
                        /\ k \in DOMAIN state2
                        /\ Deploys(new, state2[<<mode, n>>], Contract(n, state2[k]))
  <2> DEFINE k == <<mode, RegistryName(mode)>>
  <2>1. /\ k \in DOMAIN state =>
             state[k] \in DOMAIN new /\ new[state[k]].name = RegistryName(mode)
        /\ \A n \in Names :
             <<mode, n>> \in DOMAIN state =>
               /\ k \in DOMAIN state
               /\ Deploys(new, state[<<mode, n>>], Contract(n, state[k]))
    BY <1>1 DEF JournalSound
  <2>2. ASSUME k \in DOMAIN state2
        PROVE  state2[k] \in DOMAIN new /\ new[state2[k]].name = RegistryName(mode)
    <3>1. CASE k = key
      <4>1. name = RegistryName(mode)
        BY <1>3, <3>1
      <4> QED
        BY <1>2, <1>3, <1>4, <3>1, <4>1
    <3>2. CASE k # key
      BY <1>2, <2>1, <2>2, <3>2
    <3> QED
      BY <3>1, <3>2
  <2>3. ASSUME NEW n \in Names, <<mode, n>> \in DOMAIN state2
        PROVE  /\ k \in DOMAIN state2
               /\ Deploys(new, state2[<<mode, n>>], Contract(n, state2[k]))
    <3>1. CASE <<mode, n>> = key
      <4>1. mode = config.mode /\ n = name
        BY <1>3, <3>1
      <4>2. k \in DOMAIN state /\ k # key /\ state2[k] = state[k]
            /\ contract = Contract(n, state[k])
        BY <1>2, <1>3, <4>1 DEF Future
      <4> QED
        BY <1>2, <1>4, <3>1, <4>2 DEF Deploys
    <3>2. CASE <<mode, n>> # key
      <4>1. <<mode, n>> \in DOMAIN state /\ state2[<<mode, n>>] = state[<<mode, n>>]
        BY <1>2, <2>3, <3>2
      <4>2. k \in DOMAIN state /\ Deploys(new, state[<<mode, n>>], Contract(n, state[k]))
        BY <2>1, <4>1
      <4>3. k # key
        BY <4>2 DEF key
      <4> QED
        BY <1>2, <4>1, <4>2, <4>3
    <3> QED
      BY <3>1, <3>2
  <2> QED
    BY <2>2, <2>3
<1>6. JournalSound(new, state2)
  BY <1>5 DEF JournalSound
<1> QED
  BY <1>6 DEF new, state2, key, address

(* Ignition goes through the module, and what it has is in its state. *)
LEMMA IgnitionDeployKeeps ==
  ASSUME DeployIInv, IgnitionDeploy
  PROVE  DeployIInv'
<1> DEFINE run == runs[Developer]
           config == run.files.config
           name == Head(run.todo)
           key == Future(config, name)
           registry == Future(config, RegistryName(config.mode))
           contract == Contract(name, IF name = RegistryName(config.mode) THEN None
                                      ELSE journal[registry])
           run2 == [run EXCEPT !.todo = Tail(@)]
<1>1. /\ run # None /\ run.step = "deploy" /\ run.todo # <<>>
      /\ UNCHANGED <<git, hosted, spent>>
      /\ runs' = [runs EXCEPT ![Developer] = run2]
  BY DEF IgnitionDeploy, At, Idle
<1>2. Developer \in Runners
  BY DEF Runners
<1>3. /\ RunSound(chain, journal, git, Developer, run)
      /\ chain \in Chains /\ JournalSound(chain, journal)
  BY <1>1, <1>2 DEF DeployIInv, RunsSound, DeployTypeOK
<1>4. /\ Deploying(journal, run) /\ WellFormed(chain, run.files)
      /\ DOMAIN run = {"step", "todo", "found", "base", "files", "behind"}
      /\ config \in DeploymentConfig
  BY <1>1, <1>3 DEF RunSound, WellFormed
<1>5. /\ config.mode \in Modes /\ config.forums \in Seq(Names)
      /\ RegistryName(config.mode) \in Registries /\ RegistryName(config.mode) \notin Names
      /\ RegistryOf(config) = RegistryName(config.mode)
  <2> HIDE DEF config
  <2> QED
    BY <1>4, ModuleShape
<1>6. \/ key \in DOMAIN journal /\ UNCHANGED <<chain, journal>>
      \/ /\ key \notin DOMAIN journal /\ chain' = Append(chain, contract)
         /\ journal' = With(journal, key, Address(chain'))
  BY <1>5 DEF IgnitionDeploy
<1>7. /\ DOMAIN run2 = DOMAIN run /\ run2.step = "deploy" /\ run2.base = run.base
      /\ run2.behind = run.behind /\ run2.files = run.files /\ run2.todo = Tail(run.todo)
  BY <1>1, <1>4
<1> HIDE DEF run2
<1>8. ASSUME DOMAIN journal \subseteq DOMAIN journal', key \in DOMAIN journal'
      PROVE  Deploying(journal', run2)
  <2> HIDE DEF run
  <2> QED
    BY <1>1, <1>4, <1>7, <1>8, DeployingGoesOn
<1>9. CASE key \in DOMAIN journal /\ UNCHANGED <<chain, journal>>
  <2>1. Deploying(journal', run2)
    BY <1>8, <1>9
  <2>2. RunSound(chain', journal', git, Developer, run2)
    <3> HIDE DEF run
    <3> QED
      BY <1>3, <1>4, <1>7, <1>9, <2>1 DEF RunSound
  <2> QED
    BY <1>1, <1>2, <1>3, <1>9, <2>2, StepKeeps, ChainStays
<1>10. CASE /\ key \notin DOMAIN journal /\ chain' = Append(chain, contract)
            /\ journal' = With(journal, key, Address(chain'))
  <2>1. name \in Names \cup {RegistryName(config.mode)}
    <3> HIDE DEF config
    <3>1. run.todo \in Seq(Names \cup Registries)
      BY <1>4 DEF Deploying
    <3>2. 1 \in DOMAIN run.todo /\ name = run.todo[1]
      BY <1>1, <3>1
    <3> QED
      BY <1>4, <3>2 DEF Deploying, config
  <2>2. name \in Names => registry \in DOMAIN journal
    <3>1. registry \in DOMAIN journal
            \/ run.todo = <<RegistryName(config.mode)>> \o config.forums
      BY <1>4 DEF Deploying
    <3>2. Head(<<RegistryName(config.mode)>> \o config.forums) = RegistryName(config.mode)
      <4> HIDE DEF config
      <4> QED
        BY <1>5
    <3> HIDE DEF config, registry
    <3> QED
      BY <1>5, <3>1, <3>2
  <2> HIDE DEF config
  <2>3. contract \in [name : Names \cup Registries, registry : Nat \cup {None}]
    <3>1. name \in Names \cup Registries
      BY <1>5, <2>1
    <3>2. name # RegistryName(config.mode) => journal[registry] \in Nat
      <4>1. registry \in DOMAIN journal => journal[registry] \in DOMAIN chain
        BY <1>3, <1>5 DEF JournalSound, Future
      <4>2. DOMAIN chain \subseteq Nat
        BY <1>3 DEF Chains
      <4> QED
        BY <2>1, <2>2, <4>1, <4>2
    <3> HIDE DEF name, registry
    <3> QED
      BY <3>1, <3>2 DEF Contract
  <2>4. /\ Append(chain, contract) \in Chains /\ Grows(chain, Append(chain, contract))
        /\ Address(Append(chain, contract)) = Len(chain) + 1
    <3> HIDE DEF contract
    <3> QED
      BY <1>3, <2>3, AppendGrows
  <2>5. JournalSound(Append(chain, contract), With(journal, key, Len(chain) + 1))
    BY <1>3, <1>4, <1>10, <2>1, <2>2, <2>3, JournalGrows
  <2> HIDE DEF contract, key
  <2>6. /\ chain' \in Chains /\ Grows(chain, chain')
        /\ journal' = With(journal, key, Len(chain) + 1)
        /\ JournalSound(chain', journal')
    BY <1>10, <2>4, <2>5
  <2>7. DOMAIN journal' = DOMAIN journal \cup {key}
    BY <2>6 DEF With
  <2>8. Deploying(journal', run2)
    BY <1>8, <2>7
  <2>9. RunSound(chain', journal', git, Developer, run2)
    <3>1. WellFormed(chain', run2.files)
      BY <1>4, <1>7, <2>6, SoundGrows
    <3> HIDE DEF run
    <3> QED
      BY <1>3, <1>7, <2>8, <3>1 DEF RunSound
  <2> QED
    BY <1>1, <1>2, <2>6, <2>7, <2>9, StepKeeps
<1> QED
  BY <1>6, <1>9, <1>10

(* With nothing left to deploy, all of the module is remembered. *)
LEMMA WriteDeploymentKeeps ==
  ASSUME DeployIInv, WriteDeployment
  PROVE  DeployIInv'
<1> DEFINE run == runs[Developer]
           config == run.files.config
           registry == Future(config, RegistryName(config.mode))
           new == Deployed(run)
           run2 == [run EXCEPT !.files = [@ EXCEPT !.artifact = new], !.step = "site"]
<1>1. /\ run # None /\ run.step = "deploy" /\ run.todo = <<>>
      /\ UNCHANGED <<chain, journal, git, hosted, spent>>
      /\ runs' = [runs EXCEPT ![Developer] = run2]
  BY DEF WriteDeployment, At, Idle
<1>2. Developer \in Runners
  BY DEF Runners
<1>3. /\ RunSound(chain, journal, git, Developer, run)
      /\ chain \in Chains /\ JournalSound(chain, journal)
  BY <1>1, <1>2 DEF DeployIInv, RunsSound, DeployTypeOK
<1>4. /\ Deploying(journal, run) /\ WellFormed(chain, run.files)
      /\ DOMAIN run = {"step", "todo", "found", "base", "files", "behind"}
      /\ config \in DeploymentConfig
  BY <1>1, <1>3 DEF RunSound, WellFormed
<1>5. /\ config.mode \in Modes /\ config.forums \in Seq(Names)
      /\ RegistryOf(config) = RegistryName(config.mode)
  <2> HIDE DEF config
  <2> QED
    BY <1>4, ModuleShape
<1>6. /\ DOMAIN new = {"mode", "registry", "order", "forums"}
      /\ new.mode = config.mode /\ new.registry = journal[registry]
      /\ new.forums = [n \in ToSet(config.forums) |-> journal[Future(config, n)]]
  BY <1>5, ArtifactFields DEF Deployed
<1>7. /\ DOMAIN run2 = DOMAIN run /\ run2.step = "site" /\ run2.base = run.base
      /\ run2.behind = run.behind /\ DOMAIN run2.files = DOMAIN run.files
      /\ run2.files.artifact = new /\ run2.files.config = config
  BY <1>4 DEF WellFormed
<1> HIDE DEF run2, new
<1>8. registry \in DOMAIN journal /\ \A n \in ToSet(config.forums) : Future(config, n) \in DOMAIN journal
  <2> DEFINE todo == run.todo
  <2>1. /\ registry \in DOMAIN journal \/ todo = <<RegistryName(config.mode)>> \o config.forums
        /\ \A i \in DOMAIN config.forums :
             \/ Future(config, config.forums[i]) \in DOMAIN journal
             \/ \E j \in DOMAIN todo : todo[j] = config.forums[i]
    BY <1>4 DEF Deploying
  <2> HIDE DEF config, registry
  <2>2. todo = <<>> /\ DOMAIN todo = {}
    BY <1>1
  <2>3. Len(<<RegistryName(config.mode)>> \o config.forums) # 0
    BY <1>5
  <2> HIDE DEF todo
  <2>4. registry \in DOMAIN journal
    BY <2>1, <2>2, <2>3
  <2> QED
    BY <2>1, <2>2, <2>4 DEF ToSet
<1>9. Sound(chain, new)
  <2> HIDE DEF config
  <2>1. ToSet(config.forums) \subseteq Names
    BY <1>5 DEF ToSet
  <2>2. /\ journal[registry] \in DOMAIN chain
        /\ chain[journal[registry]].name = RegistryName(config.mode)
    BY <1>3, <1>5, <1>8 DEF JournalSound, Future
  <2>3. \A n \in ToSet(config.forums) :
          Deploys(chain, journal[Future(config, n)], Contract(n, journal[registry]))
    BY <1>3, <1>5, <1>8, <2>1 DEF JournalSound, Future
  <2> QED
    BY <1>5, <1>6, <2>2, <2>3 DEF Sound
<1>10. RunSound(chain, journal, git, Developer, run2)
  <2> HIDE DEF run
  <2>1. WellFormed(chain, run2.files)
    BY <1>4, <1>7, <1>9 DEF WellFormed
  <2> QED
    BY <1>3, <1>4, <1>7, <2>1 DEF RunSound
<1> QED
  BY <1>1, <1>2, <1>3, <1>10, StepKeeps, ChainStays

(* Every step of a deployment keeps the invariant. *)
LEMMA NextDeployIInv ==
  ASSUME DeployIInv, DeployNext \/ UNCHANGED deployVars
  PROVE  DeployIInv'
<1>1. CASE \E config \in Configs : EditConfig(config)
  BY <1>1, EditKeeps
<1>2. CASE \E r \in {Develop, Dispatch} : BeginReconcile(r)
  BY <1>2, BeginReconcileKeeps
<1>3. CASE \E kept \in BOOLEAN : BeginDeploy(kept)
  BY <1>3, BeginDeployKeeps
<1>4. CASE IgnitionDeploy \/ WriteDeployment
  BY <1>4, IgnitionDeployKeeps, WriteDeploymentKeeps
<1>5. ASSUME NEW r \in Runners, RunStep(r)
      PROVE  DeployIInv'
  BY <1>5, DeployMissingKeeps, WriteReconciledKeeps, GenerateSiteKeeps, GenerateBackendKeeps,
     PushKeeps DEF RunStep
<1>6. ASSUME NEW r \in Runners, Fail(r)
      PROVE  DeployIInv'
  BY <1>6, EndKeeps DEF Fail
<1>7. CASE DeploySite
  BY <1>7, SiteKeeps
<1>8. CASE UNCHANGED deployVars
  BY <1>8 DEF deployVars, DeployIInv, DeployTypeOK, BranchSound, WellFormed, FilesAgree,
              JournalSound, RunsSound, WipesCounted, ServedForumsStay
<1> QED
  BY <1>1, <1>2, <1>3, <1>4, <1>5, <1>6, <1>7, <1>8 DEF DeployNext

-----------------------------------------------------------------------------
(* What the branch says is part of the invariant. *)
LEMMA InvariantAgrees == DeployIInv => DeploymentsAgree
<1> SUFFICES ASSUME DeployIInv PROVE DeploymentsAgree
  OBVIOUS
<1>1. ServedForumsStay /\ FilesAgree /\ Sound(chain, git.artifact)
  BY DEF DeployIInv, BranchSound, WellFormed
<1>2. RegistryOf([mode |-> git.artifact.mode, forums |-> <<>>])
        = RegistryName(git.artifact.mode)
  <2> DEFINE c == [mode |-> git.artifact.mode, forums |-> <<>>]
  <2>1. c \in DeploymentConfig /\ c.mode = git.artifact.mode
    BY <1>1 DEF Sound, Modes, DeploymentConfig
  <2> HIDE DEF c
  <2>2. RegistryOf(c) = RegistryName(git.artifact.mode)
    BY <2>1, ModuleShape
  <2> QED
    BY <2>2 DEF c
<1>3. ForumsShareRegistry
  BY <1>1, <1>2 DEF Sound, Deploys, ForumsShareRegistry
<1> QED
  BY <1>1, <1>3 DEF DeploymentsAgree

(***************************************************************************)
(* The inductive invariant: every checkout and the branch name contracts   *)
(* that are on the chain and belong together, what Ignition remembers is   *)
(* there too, and a reconciliation keeps what its checkout named.          *)
(***************************************************************************)
THEOREM DeploymentInvariant == Spec => []DeployIInv
<1>1. Init => DeployIInv
  <2> SUFFICES ASSUME Init PROVE DeployIInv
    OBVIOUS
  <2>1. FirstConfig \in DeploymentConfig
    BY DeploymentAssumption
  <2>2. \A mode \in {"dev", "mock"} : [FirstConfig EXCEPT !.mode = mode] \in DeploymentConfig
    BY <2>1 DEF DeploymentConfig
  <2>3. \E config \in DeploymentConfig : DeployInit(config)
    BY <2>1, <2>2 DEF Init
  <2> QED
    BY <2>3, InitDeployIInv
<1>2. DeployIInv /\ [Next]_vars => DeployIInv'
  BY NextDeployIInv DEF Next, vars
<1> QED
  BY <1>1, <1>2, PTL DEF Spec

(***************************************************************************)
(* Whatever runs overlap, fail or are refused by git: the served forums    *)
(* keep their addresses until a redeployment, the branch names a registry  *)
(* of its mode and forums that ask it, and its three files agree.          *)
(***************************************************************************)
THEOREM DeploymentsAlwaysAgree == Spec => []DeploymentsAgree
BY DeploymentInvariant, InvariantAgrees, PTL

-----------------------------------------------------------------------------
(* A remainder is found from any quotient that leaves one. *)
LEMMA Remainder ==
  ASSUME NEW n \in Nat \ {0}, NEW a \in Int
  PROVE  /\ a % n \in 0..n - 1
         /\ \A q \in Int, r \in 0..n - 1 : a = n * q + r => a % n = r
         /\ \E q \in Int : a = n * q + (a % n)
<1>1. a % n \in 0..n - 1 /\ a \div n \in Int /\ a = n * (a \div n) + (a % n)
  BY SMTT(30)
<1>2. ASSUME NEW q \in Int, NEW r \in 0..n - 1, a = n * q + r
      PROVE  a % n = r
  <2> DEFINE p == a \div n  s == a % n
  <2> HIDE DEF p, s
  <2>1. n * (p - q) = r - s /\ s \in 0..n - 1 /\ p \in Int
    BY <1>1, <1>2 DEF p, s
  <2>2. p - q = 0
    <3>1. CASE p - q >= 1
      <4>1. n * (p - q) >= n
        BY <2>1, <3>1
      <4> QED
        BY <2>1, <4>1
    <3>2. CASE p - q <= -1
      <4>1. n * (p - q) <= -n
        BY <2>1, <3>2
      <4> QED
        BY <2>1, <4>1
    <3> QED
      BY <2>1, <3>1, <3>2
  <2> QED
    BY <2>1, <2>2 DEF s
<1> QED
  BY <1>1, <1>2

(* Whoever is first in turn, the next r of n users are r. *)
LEMMA InTurn ==
  ASSUME NEW n \in Nat \ {0}, NEW k \in Int, NEW r \in 0..n - 1
  PROVE  LET next == {u \in 0..n - 1 : (u - k) % n < r}
         IN  IsFiniteSet(next) /\ Cardinality(next) = r
<1> DEFINE rem == [a \in Int |-> a % n]
<1>0. \A a \in Int : /\ rem[a] \in 0..n - 1
                     /\ \A q \in Int, m \in 0..n - 1 : a = n * q + m => rem[a] = m
                     /\ \E q \in Int : a = n * q + rem[a]
  <2> SUFFICES ASSUME NEW a \in Int
               PROVE  /\ rem[a] \in 0..n - 1
                      /\ \A q \in Int, m \in 0..n - 1 : a = n * q + m => rem[a] = m
                      /\ \E q \in Int : a = n * q + rem[a]
    OBVIOUS
  <2> DEFINE m == a % n
  <2>1. rem[a] = m
    OBVIOUS
  <2>2. /\ m \in 0..n - 1
        /\ \A q \in Int, r1 \in 0..n - 1 : a = n * q + r1 => m = r1
        /\ \E q \in Int : a = n * q + m
    BY Remainder
  <2> HIDE DEF rem, m
  <2> QED
    BY <2>1, <2>2
<1> DEFINE next == {u \in 0..n - 1 : rem[u - k] < r}
           turn == [u \in next |-> rem[u - k]]
<1> HIDE DEF rem
<1>1. \A u \in 0..n - 1 : rem[u - k] \in 0..n - 1 /\ \E q \in Int : u - k = n * q + rem[u - k]
  <2> SUFFICES ASSUME NEW u \in 0..n - 1
               PROVE  rem[u - k] \in 0..n - 1 /\ \E q \in Int : u - k = n * q + rem[u - k]
    OBVIOUS
  <2>1. u - k \in Int
    OBVIOUS
  <2> QED
    BY <2>1, <1>0
<1>2. turn \in [next -> 0..r - 1]
  BY <1>1
<1>3. ASSUME NEW u \in next, NEW v \in next, turn[u] = turn[v]
      PROVE  u = v
  <2>1. PICK p \in Int, q \in Int : u - k = n * p + turn[u] /\ v - k = n * q + turn[u]
    BY <1>1, <1>3
  <2>2. turn[u] \in Int
    BY <1>1, <1>3
  <2> HIDE DEF turn
  <2>3. u - v = n * (p - q) /\ u - v < n /\ u - v > -n
    BY <2>1, <2>2
  <2>4. p - q = 0
    <3>1. CASE p - q >= 1
      <4>1. n * (p - q) >= n
        BY <3>1
      <4> QED
        BY <2>3, <4>1
    <3>2. CASE p - q <= -1
      <4>1. n * (p - q) <= -n
        BY <3>2
      <4> QED
        BY <2>3, <4>1
    <3> QED
      BY <3>1, <3>2
  <2> QED
    BY <2>3, <2>4
<1>4. ASSUME NEW m \in 0..r - 1
      PROVE  \E u \in next : turn[u] = m
  <2> DEFINE u == rem[m + k]
  <2>1. m + k \in Int
    OBVIOUS
  <2>2. u \in 0..n - 1 /\ \E q \in Int : m + k = n * q + u
    BY <2>1, <1>0
  <2>3. PICK q \in Int : m + k = n * q + u
    BY <2>2
  <2> HIDE DEF u
  <2>4. u - k \in Int /\ u - k = n * (-q) + m /\ -q \in Int /\ m \in 0..n - 1
    BY <2>2, <2>3
  <2>5. rem[u - k] = m
    BY <2>4, <1>0
  <2>6. u \in next /\ turn[u] = m
    BY <2>2, <2>5
  <2> QED
    BY <2>6
<1>5. ExistsBijection(next, 0..r - 1)
  <2> HIDE DEF turn, next
  <2>1. turn \in Bijection(next, 0..r - 1)
    BY <1>2, <1>3, <1>4 DEF Bijection, Injection, Surjection, IsInjective
  <2> QED
    BY <2>1 DEF ExistsBijection
<1>6. IsFiniteSet(next)
  <2>1. next \in SUBSET (0..n - 1) /\ IsFiniteSet(0..n - 1)
    BY FS_Interval
  <2> QED
    BY <2>1, FS_Subset
<1>7. Cardinality(0..r - 1) = r
  BY FS_Interval
<1> QED
  <2> HIDE DEF next, turn
  <2>1. Cardinality(next) = r
    BY <1>5, <1>6, <1>7, FS_Bijection
  <2> QED
    BY <1>6, <2>1 DEF next, rem

(* What a set of users adds to a statement, if each keeps to the plan. *)
Favoured(targets, i) ==
  {u \in Voters : (u - Offset * (i - 1)) % UserCount < targets[i] % UserCount}

Amount(targets, i, users) ==
  Cardinality(users) * (targets[i] \div UserCount)
    + Cardinality(users \cap Favoured(targets, i))

LEMMA PlanParts ==
  ASSUME NEW targets \in Seq(Nat), NEW i \in DOMAIN targets
  PROVE  /\ targets[i] \in Nat /\ i \in Nat \ {0}
         /\ targets[i] \div UserCount \in Nat
         /\ targets[i] % UserCount \in 0..UserCount - 1
         /\ targets[i] = UserCount * (targets[i] \div UserCount) + (targets[i] % UserCount)
         /\ Offset * (i - 1) \in Int
         /\ IsFiniteSet(Voters) /\ Cardinality(Voters) = UserCount
         /\ IsFiniteSet(Favoured(targets, i))
         /\ Cardinality(Favoured(targets, i)) = targets[i] % UserCount
         /\ Favoured(targets, i) \subseteq Voters
<1>1. targets[i] \in Nat /\ i \in Nat \ {0} /\ UserCount \in Nat \ {0} /\ Offset \in Nat
  BY SeedingAssumption
<1> DEFINE target == targets[i]
<1>2. target \div UserCount \in Nat /\ target % UserCount \in 0..UserCount - 1
      /\ target = UserCount * (target \div UserCount) + (target % UserCount)
  <2> HIDE DEF target
  <2>1. target \in Nat
    BY <1>1 DEF target
  <2> QED
    BY <1>1, <2>1, SMTT(30)
<1>3. Offset * (i - 1) \in Int
  BY <1>1
<1>4. IsFiniteSet(Voters) /\ Cardinality(Voters) = UserCount
  <2>1. PICK last \in Int : last = UserCount - 1
    BY <1>1
  <2>2. IsFiniteSet(0..last) /\ Cardinality(0..last) = IF 0 > last THEN 0 ELSE last - 0 + 1
    BY FS_Interval
  <2> QED
    BY <1>1, <2>1, <2>2 DEF Voters
<1>5. IsFiniteSet(Favoured(targets, i)) /\ Cardinality(Favoured(targets, i)) = target % UserCount
  <2> DEFINE k == Offset * (i - 1)
             r == target % UserCount
             next == {u \in 0..UserCount - 1 : (u - k) % UserCount < r}
  <2>1. k \in Int /\ r \in 0..UserCount - 1
    BY <1>2, <1>3
  <2>2. next = Favoured(targets, i)
    BY DEF Favoured, Voters
  <2> HIDE DEF k, r, target
  <2>3. IsFiniteSet(next) /\ Cardinality(next) = r
    BY <1>1, <2>1, InTurn
  <2> QED
    BY <2>2, <2>3 DEF r
<1> QED
  BY <1>1, <1>2, <1>3, <1>4, <1>5 DEF Favoured

(* A user adds the support of the plan, once. *)
LEMMA AmountAdds ==
  ASSUME NEW targets \in Seq(Nat), NEW i \in DOMAIN targets, NEW users \in SUBSET Voters
  PROVE  /\ Amount(targets, i, users) \in Nat
         /\ \A u \in Voters \ users :
              /\ SupportOf(u, targets, i) \in Nat
              /\ Amount(targets, i, users \cup {u})
                   = Amount(targets, i, users) + SupportOf(u, targets, i)
<1> DEFINE base == targets[i] \div UserCount
           favoured == Favoured(targets, i)
<1>1. base \in Nat /\ IsFiniteSet(Voters) /\ favoured \subseteq Voters
  BY PlanParts
<1>2. IsFiniteSet(users) /\ IsFiniteSet(users \cap favoured)
  BY <1>1, FS_Subset
<1>3. Cardinality(users) \in Nat /\ Cardinality(users \cap favoured) \in Nat
  BY <1>2, FS_CardinalityType
<1>4. Amount(targets, i, users) = Cardinality(users) * base + Cardinality(users \cap favoured)
  BY DEF Amount
<1>5. ASSUME NEW u \in Voters \ users
      PROVE  /\ SupportOf(u, targets, i) \in Nat
             /\ Amount(targets, i, users \cup {u})
                  = Amount(targets, i, users) + SupportOf(u, targets, i)
  <2>1. SupportOf(u, targets, i) = base + (IF u \in favoured THEN 1 ELSE 0)
    BY DEF SupportOf, Favoured
  <2>2. Amount(targets, i, users \cup {u})
          = Cardinality(users \cup {u}) * base + Cardinality((users \cup {u}) \cap favoured)
    BY DEF Amount
  <2>3. Cardinality(users \cup {u}) = Cardinality(users) + 1
    BY <1>2, FS_AddElement
  <2> HIDE DEF base, favoured
  <2>4. Cardinality((users \cup {u}) \cap favoured)
          = Cardinality(users \cap favoured) + (IF u \in favoured THEN 1 ELSE 0)
    <3>1. CASE u \in favoured
      <4>1. (users \cup {u}) \cap favoured = (users \cap favoured) \cup {u}
        BY <3>1
      <4>2. Cardinality((users \cap favoured) \cup {u}) = Cardinality(users \cap favoured) + 1
        BY <1>2, <1>5, FS_AddElement
      <4> QED
        BY <1>3, <3>1, <4>1, <4>2
    <3>2. CASE u \notin favoured
      <4>1. (users \cup {u}) \cap favoured = users \cap favoured
        BY <3>2
      <4>2. Cardinality((users \cup {u}) \cap favoured) = Cardinality(users \cap favoured)
        BY <4>1, Zenon
      <4> QED
        BY <1>3, <3>2, <4>2
    <3> QED
      BY <3>1, <3>2
  <2>5. (Cardinality(users) + 1) * base = Cardinality(users) * base + base
    BY <1>1, <1>3
  <2>6. Cardinality(users) * base \in Nat
    BY <1>1, <1>3
  <2> QED
    BY <1>1, <1>3, <1>4, <2>1, <2>2, <2>3, <2>4, <2>5, <2>6
<1>6. Amount(targets, i, users) \in Nat
  <2> HIDE DEF base, favoured
  <2>1. Cardinality(users) * base \in Nat
    BY <1>1, <1>3
  <2> QED
    BY <1>3, <1>4, <2>1
<1> QED
  BY <1>5, <1>6

(* Users without a vote add nothing. *)
LEMMA AmountSame ==
  ASSUME NEW targets \in Seq(Nat), NEW i \in DOMAIN targets, NEW more \in SUBSET Voters,
         NEW users \in SUBSET more, \A u \in more \ users : SupportOf(u, targets, i) = 0
  PROVE  Amount(targets, i, more) = Amount(targets, i, users)
<1> DEFINE base == targets[i] \div UserCount
           favoured == Favoured(targets, i)
<1>1. CASE users = more
  BY <1>1
<1>2. CASE users # more
  <2>1. base \in Nat /\ IsFiniteSet(Voters) /\ favoured \subseteq Voters
    BY PlanParts
  <2>2. \A u \in Voters : SupportOf(u, targets, i) = base + (IF u \in favoured THEN 1 ELSE 0)
    BY DEF SupportOf, Favoured
  <2> HIDE DEF base, favoured
  <2>3. base = 0 /\ \A u \in more \ users : u \notin favoured
    <3>1. \A u \in more \ users : base + (IF u \in favoured THEN 1 ELSE 0) = 0
      BY <2>2
    <3>2. \A u \in more \ users : base = 0 /\ u \notin favoured
      BY <2>1, <3>1
    <3>3. \E u \in more : u \notin users
      BY <1>2
    <3> QED
      BY <3>2, <3>3
  <2>4. more \cap favoured = users \cap favoured
    BY <2>3
  <2>5. IsFiniteSet(more) /\ IsFiniteSet(users)
    BY <2>1, FS_Subset
  <2>6. Cardinality(more) \in Nat /\ Cardinality(users) \in Nat
    BY <2>5, FS_CardinalityType
  <2>7. Cardinality(more) * base = 0 /\ Cardinality(users) * base = 0
    BY <2>3, <2>6
  <2> QED
    BY <2>4, <2>7 DEF Amount, base, favoured
<1> QED
  BY <1>1, <1>2

(***************************************************************************)
(* The plans of all users add up to what the statement was meant to have   *)
(* (buildVotePlans, seed-stress.ts:123-150), for any number of users, any  *)
(* target and any move of the first voter.                                 *)
(***************************************************************************)
THEOREM PlansAddUp ==
  ASSUME NEW targets \in Seq(Nat), NEW i \in DOMAIN targets
  PROVE  Amount(targets, i, Voters) = targets[i]
<1> DEFINE base == targets[i] \div UserCount
           rest == targets[i] % UserCount
           favoured == Favoured(targets, i)
<1>1. /\ targets[i] = UserCount * base + rest /\ Cardinality(Voters) = UserCount
      /\ Cardinality(favoured) = rest /\ favoured \subseteq Voters
      /\ base \in Nat /\ UserCount \in Nat
  BY PlanParts, SeedingAssumption
<1>2. Voters \cap favoured = favoured
  BY <1>1
<1>3. Amount(targets, i, Voters) = Cardinality(Voters) * base + Cardinality(Voters \cap favoured)
  BY DEF Amount
<1> HIDE DEF base, rest, favoured
<1> QED
  BY <1>1, <1>2, <1>3

-----------------------------------------------------------------------------
Phases ==
  {"switch", "checks", "users", "statements", "votes", "seeded", "failed", "stranded"}

Job == [user : Voters, left : SUBSET DOMAIN plan.targets]

SeedTypeOK ==
  /\ plan.profile \in {"none", "standard", "stress"}
  /\ plan.targets \in Seq(Nat) /\ plan.start \in Nat
  /\ plan.profile = "none" => plan.targets = <<>>
  /\ phase \in Phases /\ nextIndex \in Nat
  /\ statementCount \in Nat
  /\ support \in [DOMAIN plan.targets -> Nat]
  /\ DOMAIN jobs = Workers
  /\ \A w \in Workers : jobs[w] # NoJob => jobs[w] \in Job

(* Two workers never have the same user's votes. *)
JobsApart ==
  \A w \in Workers : jobs[w] # NoJob =>
    /\ jobs[w].user < nextIndex
    /\ phase = "users" \/ (phase = "votes" /\ plan.profile = "stress")
    /\ \A x \in Workers \ {w} : jobs[x] # NoJob => jobs[x].user # jobs[w].user

(* The users whose support of a statement has been cast or need not be. *)
Counted(i) ==
  IF plan.profile = "standard"
  THEN {u \in Voters : u = Author(i) \/ Place(u, i) < nextIndex}
  ELSE {u \in Voters :
          /\ u < nextIndex
          /\ \A w \in Workers : jobs[w] # NoJob /\ jobs[w].user = u => i \notin jobs[w].left}

(* What the support of a statement is, phase by phase. *)
SupportIs(i) ==
  /\ phase \in {"switch", "checks", "users"} => support[i] = 0
  /\ phase = "statements" =>
       support[i] = IF i <= statementCount - plan.start THEN InitialSupport(i) ELSE 0
  /\ phase = "votes" => support[i] = Amount(plan.targets, i, Counted(i))
  /\ phase = "seeded" => support[i] = plan.targets[i]

SeedIInv ==
  /\ SeedTypeOK /\ JobsApart
  /\ phase \in {"switch", "checks", "users"} => statementCount = plan.start
  /\ \A i \in DOMAIN plan.targets : SupportIs(i)

(* The plan of one user for one statement. *)
LEMMA VoteIs ==
  ASSUME SeedTypeOK, NEW i \in DOMAIN plan.targets
  PROVE  /\ Author(i) \in Voters
         /\ \A u \in Voters : SupportOf(u, plan.targets, i) \in Nat
         /\ plan.profile = "standard" =>
              /\ InitialSupport(i) = SupportOf(Author(i), plan.targets, i)
              /\ \A u \in Voters :
                   Vote(u, i) = IF u = Author(i) THEN 0 ELSE SupportOf(u, plan.targets, i)
         /\ plan.profile # "standard" =>
              /\ InitialSupport(i) = 0
              /\ \A u \in Voters : Vote(u, i) = SupportOf(u, plan.targets, i)
<1>1. plan.targets \in Seq(Nat) /\ i \in Nat \ {0} /\ UserCount \in Nat \ {0}
  BY PlanParts, SeedingAssumption DEF SeedTypeOK
<1>2. Author(i) \in Voters
  <2>1. PICK before \in Int : before = i - 1
    BY <1>1
  <2>2. before % UserCount \in 0..UserCount - 1
    BY <1>1, Remainder
  <2> QED
    BY <1>1, <2>1, <2>2 DEF Author, Voters
<1>3. \A u \in Voters : SupportOf(u, plan.targets, i) \in Nat
  <2>1. {} \in SUBSET Voters
    OBVIOUS
  <2> QED
    BY <1>1, <2>1, AmountAdds
<1> QED
  BY <1>2, <1>3 DEF InitialSupport, Vote

(* Amounts of the empty set and of one user. *)
LEMMA AmountBegins ==
  ASSUME NEW targets \in Seq(Nat), NEW i \in DOMAIN targets
  PROVE  /\ Amount(targets, i, {}) = 0
         /\ \A u \in Voters : Amount(targets, i, {u}) = SupportOf(u, targets, i)
<1>1. Amount(targets, i, {}) = 0
  <2> DEFINE base == targets[i] \div UserCount
  <2>1. base \in Nat
    BY PlanParts
  <2>2. Amount(targets, i, {}) = Cardinality({}) * base + Cardinality({})
    BY DEF Amount
  <2> HIDE DEF base
  <2> QED
    BY <2>1, <2>2, FS_EmptySet
<1>2. ASSUME NEW u \in Voters
      PROVE  Amount(targets, i, {u}) = SupportOf(u, targets, i)
  <2>1. {} \in SUBSET Voters /\ u \in Voters \ {} /\ {} \cup {u} = {u}
    OBVIOUS
  <2>2. /\ SupportOf(u, targets, i) \in Nat
        /\ Amount(targets, i, {} \cup {u}) = Amount(targets, i, {}) + SupportOf(u, targets, i)
    BY <2>1, AmountAdds
  <2> QED
    BY <1>1, <2>1, <2>2
<1> QED
  BY <1>1, <1>2

-----------------------------------------------------------------------------
(* The steps that leave the votes alone. *)
LEMMA MiningStepsKeep ==
  ASSUME SeedIInv, SwitchMining \/ BeginSeeding \/ RestoreMining \/ RequestFails
  PROVE  SeedIInv'
<1>0. /\ SeedTypeOK /\ JobsApart
      /\ UNCHANGED <<plan, nextIndex, jobs, statementCount, support>>
  BY DEF SeedIInv, SwitchMining, BeginSeeding, RestoreMining, RequestFails
<1>1. /\ phase \in {"switch", "checks", "seeded", "failed"}
      /\ \/ phase' = phase
         \/ phase \in {"switch", "checks"} /\ phase' \in {"switch", "checks", "users"}
         \/ phase' \in {"failed", "stranded"}
  BY DEF SwitchMining, BeginSeeding, RestoreMining, RequestFails
<1>2. SeedTypeOK'
  BY <1>0, <1>1 DEF SeedTypeOK, Phases, Job
<1>3. JobsApart'
  <2>1. \A w \in Workers : jobs[w] = NoJob
    BY <1>0, <1>1 DEF JobsApart
  <2> QED
    BY <1>0, <2>1 DEF JobsApart
<1>4. ASSUME NEW i \in DOMAIN plan.targets
      PROVE  SupportIs(i)'
  BY <1>0, <1>1, <1>4 DEF SeedIInv, SupportIs
<1> QED
  BY <1>0, <1>1, <1>2, <1>3, <1>4 DEF SeedIInv

LEMMA RegisterUserKeeps ==
  ASSUME SeedIInv, NEW w \in Workers, RegisterUser(w)
  PROVE  SeedIInv'
<1>1. SeedTypeOK'
  BY DEF SeedIInv, SeedTypeOK, RegisterUser, Job
<1>2. JobsApart'
  BY DEF SeedIInv, SeedTypeOK, JobsApart, RegisterUser
<1>3. ASSUME NEW i \in DOMAIN plan.targets
      PROVE  SupportIs(i)'
  BY <1>3 DEF SeedIInv, SupportIs, RegisterUser
<1> QED
  BY <1>1, <1>2, <1>3 DEF SeedIInv, RegisterUser

LEMMA SeedFailsKeeps ==
  ASSUME SeedIInv, SeedFails
  PROVE  SeedIInv'
<1>1. SeedTypeOK'
  BY DEF SeedIInv, SeedTypeOK, SeedFails, Phases, Job
<1>2. JobsApart'
  BY DEF JobsApart, SeedFails
<1>3. ASSUME NEW i \in DOMAIN plan.targets
      PROVE  SupportIs(i)'
  BY <1>3 DEF SupportIs, SeedFails
<1> QED
  BY <1>1, <1>2, <1>3 DEF SeedIInv, SeedFails

(* A refused statement or vote changes nothing but the phase. *)
LEMMA RefusalKeeps ==
  ASSUME SeedIInv, phase \in {"statements", "votes"}, phase' = "failed",
         \A w \in Workers : jobs[w] = NoJob,
         UNCHANGED <<plan, nextIndex, jobs, statementCount, support>>
  PROVE  SeedIInv'
<1>1. SeedTypeOK'
  BY DEF SeedIInv, SeedTypeOK, Phases, Job
<1>2. JobsApart'
  BY DEF JobsApart
<1>3. ASSUME NEW i \in DOMAIN plan.targets
      PROVE  SupportIs(i)'
  BY <1>3 DEF SupportIs
<1> QED
  BY <1>1, <1>2, <1>3 DEF SeedIInv

LEMMA AddSeedStatementKeeps ==
  ASSUME SeedIInv, AddSeedStatement
  PROVE  SeedIInv'
<1>r. CASE phase' # phase
  <2>1. /\ phase = "statements" /\ phase' = "failed"
        /\ UNCHANGED <<plan, nextIndex, jobs, statementCount, support>>
    BY <1>r DEF AddSeedStatement
  <2>2. \A w \in Workers : jobs[w] = NoJob
    BY <2>1 DEF SeedIInv, JobsApart
  <2> QED
    BY <2>1, <2>2, RefusalKeeps
<1>s. SUFFICES ASSUME phase' = phase
               PROVE  SeedIInv'
  BY <1>r
<1> DEFINE n == statementCount - plan.start + 1
<1>0. /\ SeedTypeOK /\ phase = "statements" /\ UNCHANGED <<plan, phase, nextIndex, jobs>>
      /\ support' = [support EXCEPT ![n] = @ + InitialSupport(n)]
      /\ statementCount' = statementCount + 1
  BY <1>s DEF SeedIInv, AddSeedStatement
<1>1. ASSUME NEW i \in DOMAIN plan.targets
      PROVE  /\ InitialSupport(i) \in Nat /\ i \in Nat
             /\ support'[i] = IF i = n THEN support[i] + InitialSupport(i) ELSE support[i]
  BY <1>0, <1>1, VoteIs DEF SeedTypeOK
<1>2. SeedTypeOK'
  <2>1. support' \in [DOMAIN plan.targets -> Nat]
    <3>1. \A i \in DOMAIN plan.targets : support[i] \in Nat
      BY <1>0 DEF SeedTypeOK
    <3>2. \A i \in DOMAIN plan.targets : support'[i] \in Nat
      BY <1>1, <3>1
    <3>3. DOMAIN support' = DOMAIN plan.targets /\ support' = [i \in DOMAIN support' |-> support'[i]]
      BY <1>0 DEF SeedTypeOK
    <3> QED
      BY <3>2, <3>3
  <2> QED
    BY <1>0, <2>1 DEF SeedTypeOK, Job
<1>3. JobsApart'
  BY <1>0 DEF SeedIInv, JobsApart
<1>4. ASSUME NEW i \in DOMAIN plan.targets
      PROVE  SupportIs(i)'
  <2>1. support[i] = IF i <= statementCount - plan.start THEN InitialSupport(i) ELSE 0
    BY <1>0, <1>4 DEF SeedIInv, SupportIs
  <2>2. InitialSupport(i)' = InitialSupport(i)
    BY <1>0 DEF InitialSupport, Author
  <2>3. statementCount \in Nat /\ plan.start \in Nat /\ support[i] \in Nat
    BY <1>0, <1>4 DEF SeedTypeOK
  <2>4. support'[i] = IF i <= statementCount' - plan.start THEN InitialSupport(i) ELSE 0
    BY <1>0, <1>1, <1>4, <2>1, <2>3
  <2> QED
    BY <1>0, <2>2, <2>4 DEF SupportIs
<1> QED
  BY <1>0, <1>2, <1>3, <1>4 DEF SeedIInv

(* The next item is taken: a user without a vote for a statement counts. *)
LEMMA TakeKeeps ==
  ASSUME SeedIInv, NEW w \in Workers, Take(w)
  PROVE  SeedIInv'
<1> DEFINE u == nextIndex
           job == [user |-> u, left |-> Item(u)]
<1>0. /\ SeedTypeOK /\ JobsApart /\ u \in Voters /\ nextIndex' = u + 1
      /\ phase = "users" \/ (phase = "votes" /\ plan.profile = "stress")
      /\ jobs[w] = NoJob /\ jobs' = [jobs EXCEPT ![w] = job]
      /\ UNCHANGED <<plan, phase, statementCount, support>>
  BY SeedingAssumption DEF SeedIInv, SeedTypeOK, Take, Voters
<1>1. Item(u) \in SUBSET DOMAIN plan.targets /\ job \in Job
  BY <1>0 DEF Item, VotePlan, Job
<1>2. \A x \in Workers : jobs'[x] = IF x = w THEN job ELSE jobs[x]
  BY <1>0 DEF SeedTypeOK
<1> HIDE DEF job
<1>3. SeedTypeOK'
  BY <1>0, <1>1, <1>2 DEF SeedTypeOK, Job, Voters
<1>4. job.user = u /\ job.left = Item(u)
  BY DEF job
<1>5. \A x \in Workers : jobs[x] # NoJob => jobs[x].user \in Nat /\ jobs[x].user < u
  BY <1>0 DEF SeedTypeOK, JobsApart, Job, Voters
<1>6. JobsApart'
  <2> SUFFICES ASSUME NEW x \in Workers, jobs'[x] # NoJob
               PROVE  /\ jobs'[x].user < nextIndex'
                      /\ \A y \in Workers \ {x} :
                           jobs'[y] # NoJob => jobs'[y].user # jobs'[x].user
    BY <1>0 DEF JobsApart
  <2>1. u \in Nat
    BY <1>0 DEF Voters
  <2>2. jobs'[x].user < nextIndex'
    BY <1>0, <1>2, <1>4, <1>5, <2>1
  <2>3. ASSUME NEW y \in Workers \ {x}, jobs'[y] # NoJob
        PROVE  jobs'[y].user # jobs'[x].user
    <3>1. CASE x = w
      BY <1>2, <1>4, <1>5, <2>1, <2>3, <3>1
    <3>2. CASE y = w
      BY <1>2, <1>4, <1>5, <2>1, <2>3, <3>2
    <3>3. CASE x # w /\ y # w
      BY <1>0, <1>2, <2>3, <3>3 DEF JobsApart
    <3> QED
      BY <3>1, <3>2, <3>3
  <2> QED
    BY <2>2, <2>3
<1>7. ASSUME NEW i \in DOMAIN plan.targets
      PROVE  SupportIs(i)'
  <2>1. SupportIs(i)
    BY <1>7 DEF SeedIInv
  <2>2. CASE phase = "users"
    BY <1>0, <2>1, <2>2 DEF SupportIs
  <2>3. CASE phase = "votes" /\ plan.profile = "stress"
    <3>1. Counted(i) \subseteq Counted(i)' /\ Counted(i)' \subseteq Voters
      <4>1. ASSUME NEW v \in Voters, v \in Counted(i)
            PROVE  v \in Counted(i)'
        <5>1. v < u /\ v < nextIndex' /\ v # u
          BY <1>0, <2>3, <4>1 DEF Counted, Voters
        <5>2. \A x \in Workers : jobs'[x] # NoJob /\ jobs'[x].user = v => i \notin jobs'[x].left
          BY <1>2, <1>4, <2>3, <4>1, <5>1 DEF Counted
        <5> QED
          BY <1>0, <2>3, <5>1, <5>2 DEF Counted
      <4>2. Counted(i) \subseteq Voters /\ Counted(i)' \subseteq Voters
        BY DEF Counted, Voters
      <4> QED
        BY <4>1, <4>2
    <3>2. ASSUME NEW v \in Counted(i)' \ Counted(i)
          PROVE  SupportOf(v, plan.targets, i) = 0
      <4>1. v \in Voters /\ v < u + 1
        BY <1>0, <2>3 DEF Counted
      <4>2. \A x \in Workers : jobs'[x] # NoJob /\ jobs'[x].user = v => i \notin jobs'[x].left
        BY <1>0, <2>3 DEF Counted
      <4>3. v = u
        <5>1. CASE v < u
          <6>1. \A x \in Workers : jobs[x] # NoJob /\ jobs[x].user = v => i \notin jobs[x].left
            BY <1>0, <1>2, <4>2
          <6> QED
            BY <2>3, <3>2, <4>1, <5>1, <6>1 DEF Counted
        <5> QED
          BY <1>0, <4>1, <5>1 DEF Voters
      <4>4. jobs'[w] # NoJob
        <5>1. DOMAIN plan.targets \subseteq Nat /\ Voters \subseteq Nat
          BY <1>0 DEF SeedTypeOK, Voters
        <5>2. job \in [user : Nat, left : SUBSET Nat]
          BY <1>1, <5>1 DEF Job
        <5> QED
          BY <1>2, <5>2, SeedingAssumption
      <4>5. i \notin VotePlan(u)
        BY <1>2, <1>4, <2>3, <4>2, <4>3, <4>4 DEF Item
      <4>6. Vote(u, i) = SupportOf(u, plan.targets, i) /\ SupportOf(u, plan.targets, i) \in Nat
        BY <1>0, <1>7, <2>3, VoteIs
      <4> QED
        BY <1>7, <4>3, <4>5, <4>6 DEF VotePlan
    <3>3. plan.targets \in Seq(Nat)
      BY <1>0 DEF SeedTypeOK
    <3>4. Amount(plan.targets, i, Counted(i)') = Amount(plan.targets, i, Counted(i))
      <4> DEFINE users == Counted(i)  more == Counted(i)'
      <4> HIDE DEF users, more
      <4>1. more \in SUBSET Voters /\ users \in SUBSET more
        BY <3>1 DEF users, more
      <4>2. \A v \in more \ users : SupportOf(v, plan.targets, i) = 0
        BY <3>2 DEF users, more
      <4>3. Amount(plan.targets, i, more) = Amount(plan.targets, i, users)
        BY <1>7, <3>3, <4>1, <4>2, AmountSame
      <4> QED
        BY <4>3 DEF users, more
    <3> QED
      BY <1>0, <2>1, <2>3, <3>4 DEF SupportIs
  <2> QED
    BY <1>0, <2>2, <2>3
<1> QED
  BY <1>0, <1>3, <1>6, <1>7 DEF SeedIInv

(* A vote is cast: its user counts from now on. *)
LEMMA CastVoteKeeps ==
  ASSUME SeedIInv, NEW w \in Workers, CastVote(w)
  PROVE  SeedIInv'
<1> DEFINE u == jobs[w].user
<1>0. /\ SeedTypeOK /\ JobsApart /\ phase = "votes" /\ jobs[w] # NoJob
      /\ UNCHANGED <<plan, phase, nextIndex, statementCount>>
  BY DEF SeedIInv, CastVote
<1>1. PICK n \in jobs[w].left :
        /\ support' = [support EXCEPT ![n] = @ + Vote(u, n)]
        /\ jobs' = [jobs EXCEPT ![w].left = @ \ {n}]
  BY DEF CastVote
<1>2. /\ jobs[w] \in Job /\ u \in Voters /\ n \in DOMAIN plan.targets
      /\ plan.profile = "stress" /\ u < nextIndex
      /\ plan.targets \in Seq(Nat) /\ support \in [DOMAIN plan.targets -> Nat]
  BY <1>0, <1>1 DEF SeedTypeOK, JobsApart, Job
<1> DEFINE job == [jobs[w] EXCEPT !.left = @ \ {n}]
<1>3. \A x \in Workers : jobs'[x] = IF x = w THEN job ELSE jobs[x]
  BY <1>0, <1>1 DEF SeedTypeOK
<1>4. job \in Job /\ job.user = u /\ job.left = jobs[w].left \ {n}
  BY <1>2 DEF Job
<1>5. Vote(u, n) = SupportOf(u, plan.targets, n) /\ SupportOf(u, plan.targets, n) \in Nat
  BY <1>0, <1>2, VoteIs
<1>6. /\ support' \in [DOMAIN plan.targets -> Nat]
      /\ \A i \in DOMAIN plan.targets :
           support'[i] = IF i = n THEN support[i] + SupportOf(u, plan.targets, n) ELSE support[i]
  BY <1>1, <1>2, <1>5
<1> HIDE DEF job
<1>7. SeedTypeOK'
  <2>1. DOMAIN jobs' = Workers
    BY <1>0, <1>1 DEF SeedTypeOK
  <2>2. Job' = Job
    BY <1>0 DEF Job
  <2> QED
    BY <1>0, <1>3, <1>4, <1>6, <2>1, <2>2 DEF SeedTypeOK
<1>8. \A x \in Workers : jobs'[x] # NoJob =>
        jobs[x] # NoJob /\ jobs'[x].user = jobs[x].user /\ jobs'[x].left \subseteq jobs[x].left
  BY <1>0, <1>3, <1>4
<1>9. JobsApart'
  BY <1>0, <1>8 DEF JobsApart
<1>10. jobs'[w] # NoJob
  <2>1. DOMAIN plan.targets \subseteq Nat /\ Voters \subseteq Nat
    BY <1>2 DEF Voters
  <2>2. job \in [user : Nat, left : SUBSET Nat]
    BY <1>4, <2>1 DEF Job
  <2> QED
    BY <1>3, <2>2, SeedingAssumption
<1>11. ASSUME NEW i \in DOMAIN plan.targets
       PROVE  SupportIs(i)'
  <2>1. support[i] = Amount(plan.targets, i, Counted(i))
    BY <1>0, <1>11 DEF SeedIInv, SupportIs
  <2>2. CASE i = n
    <3>1. u \notin Counted(i) /\ Counted(i) \subseteq Voters
      BY <1>0, <1>1, <1>2, <2>2 DEF Counted
    <3>2. Counted(i)' = Counted(i) \cup {u}
      <4>1. ASSUME NEW v \in Voters, v # u
            PROVE  v \in Counted(i)' <=> v \in Counted(i)
        <5>1. \A x \in Workers :
                 jobs'[x] # NoJob /\ jobs'[x].user = v <=> jobs[x] # NoJob /\ jobs[x].user = v
          BY <1>0, <1>3, <1>4, <4>1
        <5>2. \A x \in Workers : jobs[x].user = v => jobs'[x] = jobs[x]
          BY <1>3, <4>1
        <5> QED
          BY <1>0, <1>2, <5>1, <5>2 DEF Counted
      <4>2. u \in Counted(i)'
        <5>1. ASSUME NEW x \in Workers, jobs'[x] # NoJob, jobs'[x].user = u
              PROVE  i \notin jobs'[x].left
          <6>1. x = w
            BY <1>0, <1>8, <5>1 DEF JobsApart
          <6> QED
            BY <1>3, <1>4, <2>2, <6>1
        <5> QED
          BY <1>0, <1>2, <5>1 DEF Counted
      <4>3. Counted(i)' \subseteq Voters
        BY DEF Counted, Voters
      <4> QED
        BY <3>1, <4>1, <4>2, <4>3, <1>2
    <3>3. Amount(plan.targets, i, Counted(i) \cup {u})
            = Amount(plan.targets, i, Counted(i)) + SupportOf(u, plan.targets, i)
      <4> DEFINE users == Counted(i)  voter == u
      <4> HIDE DEF users, voter
      <4>1. users \in SUBSET Voters /\ voter \in Voters \ users
        BY <1>2, <3>1 DEF users, voter
      <4>2. Amount(plan.targets, i, users \cup {voter})
              = Amount(plan.targets, i, users) + SupportOf(voter, plan.targets, i)
        BY <1>2, <1>11, <4>1, AmountAdds
      <4> QED
        BY <4>2 DEF users, voter
    <3>4. support'[i] = Amount(plan.targets, i, Counted(i)')
      BY <1>6, <1>11, <2>1, <2>2, <3>2, <3>3
    <3> QED
      BY <1>0, <3>4 DEF SupportIs
  <2>3. CASE i # n
    <3>1. \A x \in Workers :
            /\ jobs[x] # NoJob <=> jobs'[x] # NoJob
            /\ jobs[x] # NoJob => /\ jobs'[x].user = jobs[x].user
                                  /\ i \in jobs'[x].left <=> i \in jobs[x].left
      BY <1>0, <1>3, <1>4, <1>10, <2>3
    <3>2. Counted(i)' = Counted(i)
      <4> DEFINE Free(v) == \A x \in Workers : jobs[x] # NoJob /\ jobs[x].user = v
                                               => i \notin jobs[x].left
                 FreeThen(v) == \A x \in Workers : jobs'[x] # NoJob /\ jobs'[x].user = v
                                                   => i \notin jobs'[x].left
      <4>1. ASSUME NEW v \in Voters
            PROVE  FreeThen(v) <=> Free(v)
        <5>1. ASSUME NEW x \in Workers
              PROVE  (jobs'[x] # NoJob /\ jobs'[x].user = v => i \notin jobs'[x].left)
                       <=> (jobs[x] # NoJob /\ jobs[x].user = v => i \notin jobs[x].left)
          BY <3>1, <5>1
        <5> QED
          BY <5>1
      <4>2. Counted(i) = {v \in Voters : v < nextIndex /\ Free(v)}
        BY <1>2 DEF Counted
      <4>3. Counted(i)' = {v \in Voters : v < nextIndex /\ FreeThen(v)}
        BY <1>0, <1>2 DEF Counted, Voters
      <4> HIDE DEF Free, FreeThen
      <4> QED
        BY <4>1, <4>2, <4>3
    <3> QED
      BY <1>0, <1>6, <1>11, <2>1, <2>3, <3>2 DEF SupportIs
  <2> QED
    BY <2>2, <2>3
<1> QED
  BY <1>0, <1>7, <1>9, <1>11 DEF SeedIInv

LEMMA FinishItemKeeps ==
  ASSUME SeedIInv, NEW w \in Workers, FinishItem(w)
  PROVE  SeedIInv'
<1>0. /\ SeedTypeOK /\ JobsApart /\ phase = "votes" /\ jobs[w] # NoJob /\ jobs[w].left = {}
      /\ jobs' = [jobs EXCEPT ![w] = NoJob] /\ plan.profile = "stress"
      /\ UNCHANGED <<plan, phase, nextIndex, statementCount, support>>
  BY DEF SeedIInv, FinishItem, JobsApart
<1>1. \A x \in Workers : jobs'[x] = IF x = w THEN NoJob ELSE jobs[x]
  BY <1>0 DEF SeedTypeOK
<1>2. SeedTypeOK'
  BY <1>0, <1>1 DEF SeedTypeOK, Job
<1>3. JobsApart'
  BY <1>0, <1>1 DEF JobsApart
<1>4. ASSUME NEW i \in DOMAIN plan.targets
      PROVE  SupportIs(i)'
  <2>1. ASSUME NEW v \in Voters
        PROVE  v \in Counted(i)' <=> v \in Counted(i)
    <3>1. (\A x \in Workers : jobs'[x] # NoJob /\ jobs'[x].user = v => i \notin jobs'[x].left)
            <=> (\A x \in Workers : jobs[x] # NoJob /\ jobs[x].user = v => i \notin jobs[x].left)
      BY <1>0, <1>1
    <3> QED
      BY <1>0, <3>1 DEF Counted
  <2>2. Counted(i)' = Counted(i)
    <3>1. Counted(i)' \subseteq Voters /\ Counted(i) \subseteq Voters
      BY DEF Counted, Voters
    <3> DEFINE before == Counted(i)  after == Counted(i)'
    <3>2. \A v \in Voters : v \in after <=> v \in before
      BY <2>1
    <3> HIDE DEF before, after
    <3> QED
      BY <3>1, <3>2 DEF before, after
  <2> QED
    BY <1>0, <1>4, <2>2 DEF SeedIInv, SupportIs
<1> QED
  BY <1>0, <1>2, <1>3, <1>4 DEF SeedIInv

(* The list holds every pair of a user and a statement at a place of its own. *)
LEMMA PlacesDiffer ==
  ASSUME NEW u \in Voters, NEW v \in Voters, NEW i \in Nat, NEW j \in Nat,
         Place(u, i) = Place(v, j)
  PROVE  u = v /\ i = j
<1>1. UserCount \in Nat \ {0} /\ u \in 0..UserCount - 1 /\ v \in 0..UserCount - 1
  BY SeedingAssumption DEF Voters
<1>2. (i - 1) * UserCount + u = (j - 1) * UserCount + v
  BY DEF Place
<1>3. (i - j) * UserCount = v - u
  BY <1>1, <1>2
<1>4. i - j = 0
  <2>1. CASE i - j >= 1
    <3>1. (i - j) * UserCount >= UserCount
      BY <1>1, <2>1
    <3> QED
      BY <1>1, <1>3, <3>1
  <2>2. CASE i - j <= -1
    <3>1. (i - j) * UserCount <= -UserCount
      BY <1>1, <2>2
    <3> QED
      BY <1>1, <1>3, <3>1
  <2> QED
    BY <2>1, <2>2
<1> QED
  BY <1>1, <1>3, <1>4

(* The next vote of the list: those passed over have no vote to cast. *)
LEMMA CastMockSupportKeeps ==
  ASSUME SeedIInv, CastMockSupport
  PROVE  SeedIInv'
<1>r. CASE phase' # phase
  <2>1. /\ phase = "votes" /\ phase' = "failed" /\ plan.profile = "standard"
        /\ UNCHANGED <<plan, nextIndex, jobs, statementCount, support>>
    BY <1>r DEF CastMockSupport
  <2>2. \A w \in Workers : jobs[w] = NoJob
    BY <2>1 DEF SeedIInv, JobsApart
  <2> QED
    BY <2>1, <2>2, RefusalKeeps
<1>s. SUFFICES ASSUME phase' = phase
               PROVE  SeedIInv'
  BY <1>r
<1>0. /\ SeedTypeOK /\ JobsApart /\ phase = "votes" /\ plan.profile = "standard"
      /\ UNCHANGED <<plan, phase, jobs, statementCount>>
  BY <1>s DEF SeedIInv, CastMockSupport
<1>1. PICK vote \in MockSupport :
        /\ \A other \in MockSupport : Place(vote[1], vote[2]) <= Place(other[1], other[2])
        /\ support' = [support EXCEPT ![vote[2]] = @ + Vote(vote[1], vote[2])]
        /\ nextIndex' = Place(vote[1], vote[2]) + 1
  BY <1>0, <1>s DEF CastMockSupport
<1>2. PICK u \in Voters, n \in DOMAIN plan.targets : vote = <<u, n>>
  BY DEF MockSupport
<1>3. /\ Vote(u, n) > 0 /\ Place(u, n) >= nextIndex
      /\ support' = [support EXCEPT ![n] = @ + Vote(u, n)]
      /\ nextIndex' = Place(u, n) + 1
      /\ \A v \in Voters, i \in DOMAIN plan.targets :
           Vote(v, i) > 0 /\ Place(v, i) >= nextIndex => Place(u, n) <= Place(v, i)
  <2>1. vote[1] = u /\ vote[2] = n
    BY <1>2
  <2>2. ASSUME NEW v \in Voters, NEW i \in DOMAIN plan.targets,
               Vote(v, i) > 0 /\ Place(v, i) >= nextIndex
        PROVE  Place(u, n) <= Place(v, i)
    <3>1. <<v, i>> \in MockSupport
      BY <2>2 DEF MockSupport
    <3> QED
      BY <1>1, <2>1, <3>1
  <2> QED
    BY <1>1, <2>1, <2>2 DEF MockSupport
<1>4. /\ plan.targets \in Seq(Nat) /\ support \in [DOMAIN plan.targets -> Nat]
      /\ DOMAIN plan.targets \subseteq Nat \ {0} /\ nextIndex \in Nat
  BY <1>0 DEF SeedTypeOK
<1>5. ASSUME NEW v \in Voters, NEW i \in DOMAIN plan.targets
      PROVE  Place(v, i) \in Nat
  <2>1. UserCount \in Nat /\ v \in Nat /\ i - 1 \in Nat
    BY <1>4, SeedingAssumption DEF Voters
  <2>2. (i - 1) * UserCount \in Nat
    BY <2>1
  <2> QED
    BY <2>1, <2>2 DEF Place
<1>6. \A i \in DOMAIN plan.targets :
        /\ Author(i) \in Voters
        /\ \A v \in Voters : /\ SupportOf(v, plan.targets, i) \in Nat
                             /\ Vote(v, i) = IF v = Author(i) THEN 0
                                             ELSE SupportOf(v, plan.targets, i)
  BY <1>0, VoteIs
<1>7. u # Author(n) /\ Vote(u, n) = SupportOf(u, plan.targets, n)
  BY <1>3, <1>6
<1>8. /\ support' \in [DOMAIN plan.targets -> Nat]
      /\ \A i \in DOMAIN plan.targets :
           support'[i] = IF i = n THEN support[i] + SupportOf(u, plan.targets, n) ELSE support[i]
  BY <1>3, <1>4, <1>6, <1>7
<1>9. SeedTypeOK' /\ JobsApart'
  <2>1. nextIndex' \in Nat
    BY <1>3, <1>5
  <2>2. \A w \in Workers : jobs[w] = NoJob
    BY <1>0 DEF JobsApart
  <2> QED
    BY <1>0, <1>8, <2>1, <2>2 DEF SeedTypeOK, JobsApart, Job
<1>10. ASSUME NEW i \in DOMAIN plan.targets
       PROVE  SupportIs(i)'
  <2> DEFINE before == {v \in Voters : v = Author(i) \/ Place(v, i) < nextIndex}
             after == {v \in Voters : v = Author(i) \/ Place(v, i) < nextIndex'}
  <2>1. Counted(i) = before /\ Counted(i)' = after
    BY <1>0 DEF Counted, Author, Place, Voters
  <2>2. support[i] = Amount(plan.targets, i, before)
    BY <1>0, <1>10, <2>1 DEF SeedIInv, SupportIs
  <2>3. before \subseteq after /\ after \subseteq Voters
    BY <1>3, <1>4, <1>5, <1>10
  <2>4. ASSUME NEW v \in after \ before, v # u \/ i # n
        PROVE  SupportOf(v, plan.targets, i) = 0
    <3>1. /\ v \in Voters /\ v # Author(i) /\ Place(v, i) \in Nat /\ Place(u, n) \in Nat
          /\ Place(v, i) >= nextIndex /\ Place(v, i) <= Place(u, n)
      BY <1>3, <1>4, <1>5, <1>10
    <3>2. Place(v, i) # Place(u, n)
      BY <1>4, <1>10, <2>4, <3>1, PlacesDiffer
    <3>3. ~(Vote(v, i) > 0)
      BY <1>3, <1>10, <3>1, <3>2
    <3> QED
      BY <1>6, <1>10, <3>1, <3>3
  <2>5. CASE i # n
    <3>1. \A v \in after \ before : SupportOf(v, plan.targets, i) = 0
      BY <2>4, <2>5
    <3> HIDE DEF before, after
    <3>2. Amount(plan.targets, i, after) = Amount(plan.targets, i, before)
      BY <1>4, <1>10, <2>3, <3>1, AmountSame
    <3> QED
      BY <1>0, <1>8, <1>10, <2>1, <2>2, <2>5, <3>2 DEF SupportIs
  <2>6. CASE i = n
    <3>1. u \in after /\ u \notin before
      BY <1>3, <1>4, <1>5, <1>7, <1>10, <2>6
    <3>2. \A v \in after \ (before \cup {u}) : SupportOf(v, plan.targets, i) = 0
      BY <2>4
    <3> HIDE DEF before, after
    <3>3. Amount(plan.targets, i, before \cup {u})
            = Amount(plan.targets, i, before) + SupportOf(u, plan.targets, i)
      <4>1. before \in SUBSET Voters /\ u \in Voters \ before
        BY <2>3, <3>1
      <4> QED
        BY <1>4, <1>10, <4>1, AmountAdds
    <3>4. Amount(plan.targets, i, after) = Amount(plan.targets, i, before \cup {u})
      <4> DEFINE users == before \cup {u}
      <4>1. after \in SUBSET Voters /\ users \in SUBSET after
        BY <2>3, <3>1
      <4>2. \A v \in after \ users : SupportOf(v, plan.targets, i) = 0
        BY <3>2
      <4> HIDE DEF users
      <4>3. Amount(plan.targets, i, after) = Amount(plan.targets, i, users)
        BY <1>4, <1>10, <4>1, <4>2, AmountSame
      <4> QED
        BY <4>3 DEF users
    <3> QED
      BY <1>0, <1>8, <1>10, <2>1, <2>2, <2>6, <3>3, <3>4 DEF SupportIs
  <2> QED
    BY <2>5, <2>6
<1> QED
  BY <1>0, <1>9, <1>10 DEF SeedIInv

(* From phase to phase: all votes have been cast when the workers are done. *)
LEMMA NextPhaseKeeps ==
  ASSUME SeedIInv, NextPhase
  PROVE  SeedIInv'
<1>0. /\ SeedTypeOK /\ JobsApart /\ nextIndex' = 0
      /\ UNCHANGED <<plan, jobs, statementCount, support>>
  BY DEF SeedIInv, NextPhase
<1>1. \/ phase = "users" /\ AllDone /\ phase' \in {"statements", "failed"}
      \/ /\ phase = "statements" /\ statementCount = plan.start + Len(plan.targets)
         /\ phase' \in {"votes", "failed"}
      \/ phase = "votes" /\ AllDone /\ phase' = "seeded"
  BY DEF NextPhase
<1>2. \A w \in Workers : jobs[w] = NoJob
  BY <1>0, <1>1 DEF AllDone, JobsApart
<1>3. SeedTypeOK' /\ JobsApart'
  BY <1>0, <1>1, <1>2 DEF SeedTypeOK, JobsApart, Phases, Job
<1>4. ASSUME NEW i \in DOMAIN plan.targets
      PROVE  SupportIs(i)'
  <2>1. SupportIs(i) /\ plan.targets \in Seq(Nat) /\ i \in 1..Len(plan.targets)
        /\ plan.start \in Nat /\ statementCount \in Nat
    BY <1>0, <1>4 DEF SeedIInv, SeedTypeOK
  <2>2. CASE phase = "users"
    <3>1. statementCount = plan.start
      BY <2>2 DEF SeedIInv
    <3> QED
      BY <1>0, <1>1, <2>1, <2>2, <3>1 DEF SupportIs
  <2>3. CASE phase = "statements"
    <3>1. support[i] = InitialSupport(i)
      BY <1>1, <2>1, <2>3 DEF SupportIs
    <3>2. support[i] = Amount(plan.targets, i, Counted(i)')
      <4>1. /\ UserCount \in Nat \ {0}
            /\ \A v \in Voters : v \in Nat /\ Place(v, i) \in Nat
        <5>1. UserCount \in Nat \ {0} /\ i - 1 \in Nat /\ (i - 1) * UserCount \in Nat
          BY <2>1, SeedingAssumption
        <5> QED
          BY <5>1 DEF Place, Voters
      <4>2. CASE plan.profile = "standard"
        <5>1. Counted(i)' = {Author(i)} /\ Author(i) \in Voters
          <6>1. Author(i) \in Voters
            BY <1>0, <1>4, VoteIs
          <6>2. Counted(i)' = {v \in Voters : v = Author(i) \/ Place(v, i) < 0}
            BY <1>0, <4>2 DEF Counted, Author, Place, Voters
          <6> QED
            BY <4>1, <6>1, <6>2
        <5>2. Amount(plan.targets, i, {Author(i)}) = SupportOf(Author(i), plan.targets, i)
          BY <1>4, <2>1, <5>1, AmountBegins
        <5> QED
          BY <3>1, <4>2, <5>1, <5>2 DEF InitialSupport
      <4>3. CASE plan.profile # "standard"
        <5>1. Counted(i)' = {}
          BY <1>0, <4>1, <4>3 DEF Counted, Voters
        <5>2. Amount(plan.targets, i, {}) = 0
          BY <1>4, <2>1, AmountBegins
        <5> QED
          BY <3>1, <4>3, <5>1, <5>2 DEF InitialSupport
      <4> QED
        BY <4>2, <4>3
    <3> QED
      BY <1>0, <1>1, <2>3, <3>2 DEF SupportIs
  <2>4. CASE phase = "votes"
    <3>1. support[i] = Amount(plan.targets, i, Counted(i))
      BY <2>1, <2>4 DEF SupportIs
    <3>2. Amount(plan.targets, i, Voters) = plan.targets[i]
      BY <1>4, <2>1, PlansAddUp
    <3>3. Amount(plan.targets, i, Counted(i)) = Amount(plan.targets, i, Voters)
      <4>1. CASE plan.profile = "standard"
        <5>1. MockSupport = {}
          BY <1>1, <2>4, <4>1 DEF AllDone
        <5>2. ASSUME NEW v \in Voters \ Counted(i)
              PROVE  SupportOf(v, plan.targets, i) = 0
          <6>1. v # Author(i) /\ ~(Place(v, i) < nextIndex)
            BY <4>1, <5>2 DEF Counted
          <6>2. Place(v, i) \in Int /\ nextIndex \in Nat
            <7>1. (i - 1) * UserCount \in Int
              BY <2>1, SeedingAssumption
            <7> QED
              BY <1>0, <5>2, <7>1 DEF Place, Voters, SeedTypeOK
          <6>3. <<v, i>> \notin MockSupport
            BY <5>1
          <6>4. ~(Vote(v, i) > 0)
            BY <1>4, <5>2, <6>1, <6>2, <6>3 DEF MockSupport
          <6>5. Vote(v, i) = SupportOf(v, plan.targets, i) /\ SupportOf(v, plan.targets, i) \in Nat
            BY <1>0, <1>4, <4>1, <5>2, <6>1, VoteIs
          <6> QED
            BY <6>4, <6>5
        <5> DEFINE users == Counted(i)
        <5>3. users \in SUBSET Voters /\ Voters \in SUBSET Voters
          BY DEF Counted
        <5>4. \A v \in Voters \ users : SupportOf(v, plan.targets, i) = 0
          BY <5>2
        <5> HIDE DEF users
        <5>5. Amount(plan.targets, i, Voters) = Amount(plan.targets, i, users)
          BY <1>4, <2>1, <5>3, <5>4, AmountSame
        <5> QED
          BY <5>5 DEF users
      <4>2. CASE plan.profile # "standard"
        <5>1. nextIndex = UserCount /\ UserCount \in Nat
          BY <1>1, <2>4, <4>2, SeedingAssumption DEF AllDone
        <5>2. Counted(i) = Voters
          BY <1>2, <4>2, <5>1 DEF Counted, Voters
        <5> QED
          BY <5>2
      <4> QED
        BY <4>1, <4>2
    <3> QED
      BY <1>0, <1>1, <2>4, <3>1, <3>2, <3>3 DEF SupportIs
  <2> QED
    BY <1>1, <2>2, <2>3, <2>4
<1> QED
  BY <1>0, <1>1, <1>3, <1>4 DEF SeedIInv

(* Every step of the seeding keeps the invariant. *)
LEMMA NextSeedIInv ==
  ASSUME SeedIInv, SeedNext \/ UNCHANGED seedVars
  PROVE  SeedIInv'
<1>1. ASSUME NEW w \in Workers, Take(w) \/ RegisterUser(w) \/ CastVote(w) \/ FinishItem(w)
      PROVE  SeedIInv'
  BY <1>1, TakeKeeps, RegisterUserKeeps, CastVoteKeeps, FinishItemKeeps
<1>2. CASE AddSeedStatement \/ CastMockSupport \/ NextPhase
  BY <1>2, AddSeedStatementKeeps, CastMockSupportKeeps, NextPhaseKeeps
<1>3. CASE SwitchMining \/ BeginSeeding \/ RestoreMining \/ RequestFails \/ SeedFails
  BY <1>3, MiningStepsKeep, SeedFailsKeeps
<1>4. CASE UNCHANGED seedVars
  <2>1. \A i : Counted(i)' = Counted(i) /\ InitialSupport(i)' = InitialSupport(i)
    BY <1>4 DEF seedVars, Counted, InitialSupport, Author, Place, Voters, Workers
  <2> QED
    BY <1>4, <2>1 DEF seedVars, SeedIInv, SeedTypeOK, JobsApart, SupportIs, Job
<1> QED
  BY <1>1, <1>2, <1>3, <1>4 DEF SeedNext, SeedStep

LEMMA InitSeedIInv ==
  ASSUME SeedNothing \/ \E mode : SeedInit(mode)
  PROVE  SeedIInv
<1>1. CASE SeedNothing
  <2>1. plan.targets = <<>> /\ plan.profile = "none" /\ plan.start = 0
    BY <1>1 DEF SeedNothing
  <2>2. support \in [DOMAIN plan.targets -> Nat] /\ DOMAIN plan.targets = {}
    BY <1>1, <2>1 DEF SeedNothing
  <2> QED
    BY <1>1, <2>1, <2>2
       DEF SeedNothing, SeedIInv, SeedTypeOK, JobsApart, SupportIs, Phases
<1>2. ASSUME NEW mode, SeedInit(mode)
      PROVE  SeedIInv
  <2>1. /\ plan.profile \in {"standard", "stress"} /\ plan.targets \in Seq(Nat)
        /\ plan.start \in Nat
    BY <1>2, SeedingAssumption DEF SeedInit
  <2> QED
    BY <1>2, <2>1 DEF SeedInit, SeedIInv, SeedTypeOK, JobsApart, SupportIs, Phases
<1> QED
  BY <1>1, <1>2

(***************************************************************************)
(* The inductive invariant of the seeding: what the support of a statement *)
(* is while its votes are cast, counted by the users whose vote has been.  *)
(***************************************************************************)
THEOREM SeedingInvariant == Spec => []SeedIInv
<1>1. Init => SeedIInv
  BY InitSeedIInv DEF Init
<1>2. SeedIInv /\ [Next]_vars => SeedIInv'
  BY NextSeedIInv DEF Next, vars
<1> QED
  BY <1>1, <1>2, PTL DEF Spec

(***************************************************************************)
(* For every number of users, every target and every number of workers:    *)
(* a seeding that ends well leaves every statement with its target.        *)
(***************************************************************************)
THEOREM VotesAlwaysMeetTargets == Spec => []VotesMeetTargets
<1>1. SeedIInv => VotesMeetTargets
  BY DEF SeedIInv, SeedTypeOK, SupportIs, VotesMeetTargets
<1> QED
  BY <1>1, SeedingInvariant, PTL

=============================================================================
