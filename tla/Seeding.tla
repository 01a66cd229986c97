------------------------------ MODULE Seeding ------------------------------
(***************************************************************************)
(* How a local network is filled with test data (blockchain/scripts:       *)
(* seed-stress.ts, seed-mock-users.ts and seed-mock-content.ts).  Users    *)
(* register, statements are added, and then the votes are cast, each step  *)
(* by a pool of workers that share one index; the standard data is seeded  *)
(* by a pool of one.  How large the supports are is data: a target per     *)
(* statement, which the vote plans must add up to.  In the standard data   *)
(* the statements have different authors, whose own votes come with them.  *)
(***************************************************************************)
EXTENDS Integers, Sequences, FiniteSetsExt, FiniteSets

CONSTANTS
  UserCount,
  Offset,          \* by how much the first voter moves from one statement to the next
  TargetLists,     \* supports the statements may be meant to have
  MaxCost,         \* what a user may spend
  Widths,          \* sizes of the pool
  Starts,          \* statements a forum may have before
  NoJob

ASSUME SeedingAssumption ==
  /\ UserCount \in Nat \ {0} /\ Offset \in Nat /\ MaxCost \in Nat
  /\ \A targets \in TargetLists : targets \in Seq(Nat)
  /\ Widths \subseteq Nat \ {0} /\ Starts \subseteq Nat
  /\ NoJob \notin [user : Nat, left : SUBSET Nat]

VARIABLES
  plan,         \* the profile, the targets, the size of the pool, the statements before
  phase,        \* what main() is doing
  nextIndex,    \* shared by the workers
  jobs,         \* what each worker has left of its item
  members, statementCount,
  support,      \* of each statement
  mining        \* whether blocks are mined at once, and whether at intervals

seedVars == <<plan, phase, nextIndex, jobs, members, statementCount, support, mining>>

Voters == 0..UserCount - 1

Workers == 1..Max(Widths)

(* A slip: one user too many gets a part of the remainder. *)
SupportOfOneMore(user, targets, i) ==
  LET position == (user - Offset * (i - 1)) % UserCount
  IN  targets[i] \div UserCount + (IF position <= targets[i] % UserCount THEN 1 ELSE 0)

(* buildVotePlans: every user the same, the remainder to those next in     *)
(* turn, of whom the first moves on by Offset.                             *)
SupportOf(user, targets, i) ==
  LET position == (user - Offset * (i - 1)) % UserCount
  IN  targets[i] \div UserCount + (IF position < targets[i] % UserCount THEN 1 ELSE 0)

Author(i) == IF plan.profile = "standard" THEN (i - 1) % UserCount ELSE 0

InitialSupport(i) ==
  IF plan.profile = "standard" THEN SupportOf(Author(i), plan.targets, i) ELSE 0

(* What a user has yet to add to a statement's support. *)
Vote(user, i) ==
  SupportOf(user, plan.targets, i) - (IF user = Author(i) THEN InitialSupport(i) ELSE 0)

(* The statements a user votes for. *)
VotePlan(user) == {i \in DOMAIN plan.targets : Vote(user, i) > 0}

CreditCostForSupport(n) == (n * (n + 1)) \div 2

CostOf(user, targets) ==
  MapThenSumSet(LAMBDA i : CreditCostForSupport(SupportOf(user, targets, i)),
                DOMAIN targets)

(* What the node is asked for while data is seeded, and otherwise. *)
AtOnce == [automine |-> TRUE, interval |-> FALSE]
EverySoOften == [automine |-> FALSE, interval |-> TRUE]

SeedInit(mode) ==
  /\ plan \in [profile : {"standard", "stress"}, mode : {mode}, accounts : {1, UserCount},
               targets : TargetLists, width : Widths, start : Starts,
               forum : {0, 1}, addresses : {0, 1}]
  /\ plan.profile = "standard" => plan.width = 1 /\ plan.start = 0
  /\ phase = (IF plan.profile = "standard" THEN "switch" ELSE "checks") /\ nextIndex = 0
  /\ jobs = [w \in Workers |-> NoJob]
  /\ members = {} /\ statementCount = plan.start
  /\ support = [i \in DOMAIN plan.targets |-> 0]
  /\ mining = EverySoOften

(* SEED_PROFILE=none *)
SeedNothing ==
  /\ plan = [profile |-> "none", targets |-> <<>>, width |-> 1, start |-> 0,
             forum |-> 0, addresses |-> 0]
  /\ phase = "seeded" /\ nextIndex = 0
  /\ jobs = [w \in Workers |-> NoJob]
  /\ members = {} /\ statementCount = 0 /\ support = <<>>
  /\ mining = EverySoOften

-----------------------------------------------------------------------------
RequireDevRegistry == plan.mode = "dev"

(* The generated users of the stress test need no accounts of the node. *)
RequireWalletCount == plan.profile = "standard" => plan.accounts >= UserCount

(* The environment file lists the addresses of the deployed forums; the    *)
(* one to be filled is found by its place in the configuration.            *)
LoadDeploymentEnv == plan.addresses > 0

ForumAddressForName == plan.forum < plan.addresses

(***************************************************************************)
(* The node is asked for automine and then for the interval, in two        *)
(* requests.  contracts.sh switches it before the scripts of the standard  *)
(* data run and back when they end, however they end; the stress test      *)
(* switches it itself, after its checks.                                   *)
(***************************************************************************)
SetLocalMining(wanted) ==
  mining' = IF mining.automine # wanted.automine
            THEN [mining EXCEPT !.automine = wanted.automine] ELSE wanted

SwitchMining ==
  /\ phase = "switch"
  /\ SetLocalMining(AtOnce)
  /\ phase' = IF mining' # AtOnce THEN phase
              ELSE IF plan.profile = "standard" THEN "checks" ELSE "users"
  /\ UNCHANGED <<plan, nextIndex, jobs, members, statementCount, support>>

(* A slip: a failure ends the script at once. *)
RestoreMiningAfterSuccess ==
  /\ phase = "seeded" /\ mining # EverySoOften
  /\ SetLocalMining(EverySoOften)
  /\ UNCHANGED <<plan, phase, nextIndex, jobs, members, statementCount, support>>

RestoreMining ==
  /\ phase \in {"seeded", "failed"} /\ mining # EverySoOften
  /\ SetLocalMining(EverySoOften)
  /\ UNCHANGED <<plan, phase, nextIndex, jobs, members, statementCount, support>>

(* Neither the script nor main() goes on when such a request is refused:   *)
(* both requests of the stress test stand before the block whose end       *)
(* restores the mining, and the second one is not sent.                    *)
RequestFails ==
  /\ phase = "switch" \/ (phase \in {"seeded", "failed"} /\ mining # EverySoOften)
  /\ phase' = "stranded"
  /\ UNCHANGED <<plan, nextIndex, jobs, members, statementCount, support, mining>>

(* Only a registry that takes anyone's word can be filled.  The standard   *)
(* data finds out at its first statement that the forum has no address.    *)
BeginSeeding ==
  /\ phase = "checks"
  /\ phase' = IF /\ LoadDeploymentEnv /\ RequireDevRegistry /\ RequireWalletCount
                 /\ plan.profile = "stress" => ForumAddressForName
              THEN IF plan.profile = "stress" THEN "switch" ELSE "users"
              ELSE "failed"
  /\ UNCHANGED <<plan, nextIndex, jobs, members, statementCount, support, mining>>

(* The items of the pool: users to register, or their votes. *)
Item(index) ==
  IF phase = "users" THEN {} ELSE VotePlan(index)

(* runConcurrently: a worker takes the next item, in one go. *)
Take(w) ==
  /\ phase = "users" \/ (phase = "votes" /\ plan.profile = "stress")
  /\ w <= plan.width /\ jobs[w] = NoJob /\ nextIndex < UserCount
  /\ jobs' = [jobs EXCEPT ![w] = [user |-> nextIndex, left |-> Item(nextIndex)]]
  /\ nextIndex' = nextIndex + 1
  /\ UNCHANGED <<plan, phase, members, statementCount, support, mining>>

(* register("USA"), and its receipt *)
RegisterUser(w) ==
  /\ phase = "users" /\ jobs[w] # NoJob
  /\ members' = members \cup {jobs[w].user}
  /\ jobs' = [jobs EXCEPT ![w] = NoJob]
  /\ UNCHANGED <<plan, phase, nextIndex, statementCount, support, mining>>

(* The standard votes are a list, by statement and then by user: where a   *)
(* vote would stand if everyone voted for everything.                      *)
Place(user, i) == (i - 1) * UserCount + user

(* What a user has given to a statement, when so many statements have been *)
(* added and so much of the list is done, and whether it can be paid for.  *)
Given(user, i, added, done) ==
  IF Place(user, i) < done THEN SupportOf(user, plan.targets, i)
  ELSE IF user = Author(i) /\ i <= added THEN InitialSupport(i) ELSE 0

Affords(user, added, done) ==
  MapThenSumSet(LAMBDA i : CreditCostForSupport(Given(user, i, added, done)),
                DOMAIN plan.targets) <= MaxCost

(* The statements are added one after the other, those of the stress test  *)
(* by the first user and without support.  The contract refuses what the   *)
(* author cannot afford.                                                   *)
AddSeedStatement ==
  /\ phase = "statements"
  /\ statementCount < plan.start + Len(plan.targets)
  /\ LET i == statementCount - plan.start + 1
     IN  /\ Author(i) \in members
         /\ IF Affords(Author(i), i, 0)
            THEN /\ support' = [support EXCEPT ![i] = @ + InitialSupport(i)]
                 /\ statementCount' = statementCount + 1 /\ phase' = phase
            ELSE phase' = "failed" /\ UNCHANGED <<support, statementCount>>
  /\ UNCHANGED <<plan, nextIndex, jobs, members, mining>>

(* adjustSupport, one statement at a time, in their order; it is added to  *)
(* the support the statement has.                                          *)
CastVote(w) ==
  /\ phase = "votes" /\ jobs[w] # NoJob /\ jobs[w].user \in members
  /\ \E i \in jobs[w].left :
       /\ \A other \in jobs[w].left : i <= other
       /\ plan.start + i <= statementCount
       /\ support' = [support EXCEPT ![i] = @ + Vote(jobs[w].user, i)]
       /\ jobs' = [jobs EXCEPT ![w].left = @ \ {i}]
  /\ UNCHANGED <<plan, phase, nextIndex, members, statementCount, mining>>

FinishItem(w) ==
  /\ phase = "votes" /\ jobs[w] # NoJob /\ jobs[w].left = {}
  /\ jobs' = [jobs EXCEPT ![w] = NoJob]
  /\ UNCHANGED <<plan, phase, nextIndex, members, statementCount, support, mining>>

(* What is left of the list of the standard votes. *)
MockSupport ==
  {vote \in Voters \X DOMAIN plan.targets :
     Vote(vote[1], vote[2]) > 0 /\ Place(vote[1], vote[2]) >= nextIndex}

CastMockSupport ==
  /\ phase = "votes" /\ plan.profile = "standard"
  /\ \E vote \in MockSupport :
       /\ \A other \in MockSupport : Place(vote[1], vote[2]) <= Place(other[1], other[2])
       /\ vote[1] \in members /\ vote[2] <= statementCount
       /\ IF Affords(vote[1], statementCount, Place(vote[1], vote[2]) + 1)
          THEN /\ support' = [support EXCEPT ![vote[2]] = @ + Vote(vote[1], vote[2])]
               /\ nextIndex' = Place(vote[1], vote[2]) + 1 /\ phase' = phase
          ELSE phase' = "failed" /\ UNCHANGED <<support, nextIndex>>
  /\ UNCHANGED <<plan, jobs, members, statementCount, mining>>

(* Promise.all(workers), or the end of the list *)
AllDone ==
  /\ IF phase = "votes" /\ plan.profile = "standard" THEN MockSupport = {}
     ELSE nextIndex = UserCount
  /\ \A w \in Workers : jobs[w] = NoJob

AffordablePlans == \A user \in Voters : CostOf(user, plan.targets) <= MaxCost

NextPhase ==
  /\ \/ /\ phase = "users" /\ AllDone
        /\ phase' = IF ForumAddressForName THEN "statements" ELSE "failed"
     \/ /\ phase = "statements" /\ statementCount = plan.start + Len(plan.targets)
        /\ phase' = IF AffordablePlans \/ plan.profile = "standard" THEN "votes" ELSE "failed"
     \/ /\ phase = "votes" /\ AllDone /\ phase' = "seeded"
  /\ nextIndex' = 0
  /\ UNCHANGED <<plan, jobs, members, statementCount, support, mining>>

(* A call fails, and the others are abandoned. *)
SeedFails ==
  /\ phase \in {"users", "statements", "votes"}
  /\ phase' = "failed"
  /\ jobs' = [w \in Workers |-> NoJob] /\ nextIndex' = 0
  /\ UNCHANGED <<plan, members, statementCount, support, mining>>

SeedStep ==
  \/ \E w \in Workers : Take(w) \/ RegisterUser(w) \/ CastVote(w) \/ FinishItem(w)
  \/ SwitchMining \/ BeginSeeding \/ AddSeedStatement \/ CastMockSupport \/ NextPhase
  \/ RestoreMining

SeedNext == SeedStep \/ SeedFails \/ RequestFails

-----------------------------------------------------------------------------
(***************************************************************************)
(* When the seeding ends well, every statement has the support it was      *)
(* meant to have: the plans of all users add up to the targets, whoever    *)
(* votes first, and no user's plan is carried out twice or skipped         *)
(* (seed-stress.ts:123-211).                                               *)
(***************************************************************************)
VotesMeetTargets == phase = "seeded" => support = plan.targets

(***************************************************************************)
(* The seeding ends, and then the network mines at intervals again, also   *)
(* when a check or a call fails, a vote is refused or the plans are too    *)
(* expensive (contracts.sh:88, seed-stress.ts:424): unless one of the      *)
(* requests that switch the mining is refused itself.                      *)
(***************************************************************************)
MiningIsRestored ==
  <>[](phase = "stranded" \/ (phase \in {"seeded", "failed"} /\ mining = EverySoOften))

=============================================================================
