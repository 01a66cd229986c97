----------------------------- MODULE Statements -----------------------------
(***************************************************************************)
(* The statements of a forum (Forum.sol): their aggregate support, the     *)
(* ranked list and the engagement times.  This is the side of              *)
(* addStatement and adjustSupport that does not depend on who calls: a     *)
(* call arrives here as the changes it makes to statements, in order.      *)
(***************************************************************************)
EXTENDS StatementRanking, SupportDecay, Sequences

CONSTANTS
  engagementWindowSeconds,
  InitialSupports,   \* the initial supports a new statement may get
  Changes,           \* the [statementId, change] a call may make
  MaxBatch,          \* bound on the changes of one call
  StartTime          \* block.timestamp when the forum is deployed

ASSUME StatementsAssumption ==
  /\ engagementWindowSeconds \in Nat
  /\ MaxBatch \in Nat
  /\ InitialSupports \subseteq Supports
  /\ Changes \subseteq [statementId : StatementIds, change : Int]
  /\ StartTime \in Times

(* Real timestamps are far from 0, which stands for "never". *)
ASSUME StartAssumption ==
  StartTime > 0 /\ StartTime >= engagementWindowSeconds

VARIABLES
  now,               \* block.timestamp
  statementCount,
  statementSupport,  \* statements[s].support
  ranking,           \* ranks, peak ranks, statementRankings and rankedCount
  lastEngagement     \* statements[s].lastEngagementEventTimestamp

vars == <<now, statementCount, statementSupport, ranking, lastEngagement>>

TypeOK ==
  /\ now \in Times
  /\ statementCount \in 0..MaxStatements
  /\ statementSupport \in [StatementIds -> Support]
  /\ ranking \in RankingType
  /\ lastEngagement \in [StatementIds -> Times]

Init ==
  /\ now = StartTime
  /\ statementCount = 0
  /\ statementSupport = [s \in StatementIds |-> NoSupport]
  /\ ranking = NoRanking
  /\ lastEngagement = [s \in StatementIds |-> 0]

-----------------------------------------------------------------------------
(* addStatement *)
Add(initialSupport) ==
  LET s == statementCount
      supports == [statementSupport EXCEPT
                     ![s] = [value |-> initialSupport, lastUpdated |-> now]]
      fresh == [ranking EXCEPT !.rank[s] = -1, !.peakRank[s] = -1]
  IN  /\ statementCount < MaxStatements
      /\ statementCount' = statementCount + 1
      /\ statementSupport' = supports
      /\ ranking' = UpdateStatementRanking(fresh, CurrentSupports(supports, now), s)
      /\ lastEngagement' = [lastEngagement EXCEPT ![s] = 0]
      /\ UNCHANGED now

(***************************************************************************)
(* adjustSupport: the loop runs on a copy f of the storage it writes and   *)
(* the whole call reverts if one round does.                               *)
(***************************************************************************)
Storage ==
  [statementSupport : [StatementIds -> Support], ranking : RankingType,
   lastEngagement : [StatementIds -> Times], reverted : BOOLEAN]

BeforeAdjusting ==
  [statementSupport |-> statementSupport, ranking |-> ranking,
   lastEngagement |-> lastEngagement, reverted |-> FALSE]

Accept(f, s, support) ==
  LET supports == [f.statementSupport EXCEPT
                     ![s] = [value |-> support, lastUpdated |-> now]]
      due == now >= f.lastEngagement[s] + engagementWindowSeconds
  IN  [f EXCEPT
        !.statementSupport = supports,
        !.ranking = UpdateStatementRanking(@, CurrentSupports(supports, now), s),
        !.lastEngagement = IF due THEN [@ EXCEPT ![s] = now] ELSE @]

(* A slip: the change is added to the stored support, not to the current. *)
AdjustOneOfStored(f, change) ==
  LET s == change.statementId
      support == f.statementSupport[s].value + change.change
  IN  IF f.reverted \/ s >= statementCount \/ support \notin Supports
      THEN [f EXCEPT !.reverted = TRUE]
      ELSE Accept(f, s, support)

(* One round: InvalidStatementId and arithmetic overflow revert. *)
AdjustOne(f, change) ==
  LET s == change.statementId
      support == CurrentSupport(f.statementSupport[s], now) + change.change
  IN  IF f.reverted \/ s >= statementCount \/ support \notin Supports
      THEN [f EXCEPT !.reverted = TRUE]
      ELSE Accept(f, s, support)

(* The loop, as a function of the number of rounds done. *)
AdjustAll(changes) ==
  LET after[i \in 0..Len(changes)] ==
        IF i = 0 THEN BeforeAdjusting
        ELSE AdjustOne(after[i - 1], changes[i])
  IN  after[Len(changes)]

Adjust(changes) ==
  LET f == AdjustAll(changes)
  IN  /\ ~f.reverted
      /\ statementSupport' = f.statementSupport
      /\ ranking' = f.ranking
      /\ lastEngagement' = f.lastEngagement
      /\ UNCHANGED <<now, statementCount>>

(* The next block has a later timestamp. *)
Tick ==
  /\ now < MaxTime
  /\ now' = now + 1
  /\ UNCHANGED <<statementCount, statementSupport, ranking, lastEngagement>>

Batches == UNION {[1..n -> Changes] : n \in 0..MaxBatch}

Next ==
  \/ \E initialSupport \in InitialSupports : Add(initialSupport)
  \/ \E changes \in Batches : Adjust(changes)
  \/ Tick

Spec == Init /\ [][Next]_vars

-----------------------------------------------------------------------------
ListedRanks == 0..(ranking.rankedCount - 1)
RankOf(s) == GetStatementRank(ranking, s)
StatementAt(r) == ranking.statementRankings[r]
Strength(s) == CurrentSupport(statementSupport[s], now)

(***************************************************************************)
(* The list and the ranks stored with the statements are inverse to each   *)
(* other: every place holds a statement that knows it is there, and a      *)
(* statement that shows a rank is found at it.  Three loops and two early  *)
(* returns of _updateStatementRanking keep the two in step by hand.        *)
(***************************************************************************)
RankConsistency ==
  /\ \A r \in ListedRanks : ranking.rank[StatementAt(r)] = r
  /\ \A s \in StatementIds : RankOf(s) # -1 => StatementAt(RankOf(s)) = s

(***************************************************************************)
(* The list is sorted by current support, although only one statement is   *)
(* moved per adjustment and all of them decay meanwhile.  Both loops stop  *)
(* at the first neighbour that is in order, so they are right only on a    *)
(* list that is sorted to begin with.                                      *)
(***************************************************************************)
SortedBySupport ==
  \A r1, r2 \in ListedRanks :
    r1 < r2 => Strength(StatementAt(r1)) >= Strength(StatementAt(r2))

(***************************************************************************)
(* A statement is never shown at a better rank than its recorded best one. *)
(***************************************************************************)
PeakCoversRank ==
  \A s \in StatementIds : RankOf(s) # -1 => ranking.peakRank[s] \in 0..RankOf(s)

(***************************************************************************)
(* No stored time is later than the block's: a later one would make every  *)
(* following call on the statement revert.                                 *)
(***************************************************************************)
NothingFromTheFuture ==
  \A s \in StatementIds : /\ statementSupport[s].lastUpdated <= now
                          /\ lastEngagement[s] <= now

(***************************************************************************)
(* "best (lowest) rank ever achieved": eviction, maintenance and decay may *)
(* take the rank away but never the record of it.                          *)
(***************************************************************************)
PeakNeverWorsens ==
  [][\A s \in StatementIds :
       ranking.peakRank[s] # -1 => ranking'.peakRank[s] \in 0..ranking.peakRank[s]]_vars

(***************************************************************************)
(* A call places the statement it moves last where that belongs: if it is  *)
(* not ranked afterwards it is below the bar, or the list is full of       *)
(* statements at least as strong.  (What moves earlier in the same call    *)
(* may be pushed out by a statement that then leaves.)                     *)
(***************************************************************************)
RightlyLeftOut(s) ==
  \/ Strength(s) < minStatementSupportToRank
  \/ /\ ranking.rankedCount = maxRankedStatements
     /\ \A r \in ListedRanks : Strength(StatementAt(r)) >= Strength(s)

MovedLast(s) ==
  \/ s = statementCount /\ \E initialSupport \in InitialSupports : Add(initialSupport)
  \/ \E changes \in Batches :
       /\ changes # <<>> /\ changes[Len(changes)].statementId = s
       /\ Adjust(changes)

=============================================================================
