------------------------------- MODULE Forum --------------------------------
(***************************************************************************)
(* Forum.sol as a whole: the members' accounts and the statements they     *)
(* support, composed.  A call of a member is one action of the member's    *)
(* account and one of the statements, taken together: a transaction runs   *)
(* to its end or reverts and leaves nothing behind.  Several calls may run *)
(* at one timestamp, those of one block or of a Multicall.                 *)
(***************************************************************************)
EXTENDS Integers, Sequences, FiniteSets

LOCAL INSTANCE FiniteSetsExt

CONSTANTS
  ApproxDecay(_, _),
  decaySpeedupFactor,
  MaxSupport,
  MaxTime,
  MaxStatements,
  maxRankedStatements,
  minStatementSupportToRank,
  engagementWindowSeconds,
  creditMultiplier,
  refundPenaltyBps,
  userStartingCredits,
  userCreditAllowancePerInterval,
  creditAllowanceIntervalSeconds,
  minAdjustmentIntervalSeconds,
  InitialSupports,        \* the initial supports a caller may give
  Adjustments,            \* the SupportAdjustments a call may contain
  MaxBatch,               \* bound on the adjustments of one call
  StartTime,              \* block.timestamp when the forum is deployed
  Users,                  \* the identities of members
  registrationTimestamp   \* when each of them was registered

VARIABLES
  now,                      \* block.timestamp
  statementCount,
  statementSupport,         \* statements[s].support
  ranking,                  \* ranks, peak ranks, statementRankings, rankedCount
  lastEngagement,           \* statements[s].lastEngagementEventTimestamp
  userSupportMap,
  userSupportedStatements,  \* _userSupportedStatements
  userCredits

statementVars == <<statementSupport, ranking, lastEngagement>>
memberVars == <<userSupportMap, userSupportedStatements, userCredits>>
vars == <<now, statementCount, statementVars, memberVars>>

(* The changes that reach a statement are differences of supports. *)
Changes ==
  [statementId : 0..(MaxStatements - 1), change : (-2 * MaxSupport)..(2 * MaxSupport)]

Statement == INSTANCE Statements

Member(u) == INSTANCE MemberAccount WITH
  registrationTimestamp <- registrationTimestamp[u],
  supports <- userSupportMap[u],
  supported <- userSupportedStatements[u],
  balance <- userCredits[u]

(* What the parts assume of the constants, the forum assumes. *)
ASSUME ForumAssumption ==
  /\ Statement!DecayBoundsAssumption
  /\ Statement!DecayAssumption
  /\ Statement!DecayMonotonicAssumption
  /\ Statement!RankingAssumption
  /\ Statement!StatementsAssumption
  /\ Statement!StartAssumption
  /\ \A u \in Users :
       /\ Member(u)!CostAssumption
       /\ Member(u)!AccountAssumption
       /\ Member(u)!InputsAssumption
       /\ Member(u)!ClockAssumption

TypeOK == Statement!TypeOK /\ \A u \in Users : Member(u)!TypeOK

Init ==
  /\ Statement!Init
  /\ userSupportMap = [u \in Users |-> [s \in Statement!StatementIds |->
                                          Statement!NoSupport]]
  /\ userSupportedStatements = [u \in Users |-> <<>>]
  /\ userCredits = [u \in Users |-> [credits |-> 0, lastUpdated |-> 0]]

-----------------------------------------------------------------------------
(* A slip: the new statement does not take part in the ranking. *)
AddStatementUnranked(u, initialSupport) ==
  LET s == statementCount
      given == [userSupportMap[u] EXCEPT
                  ![s] = [value |-> initialSupport, lastUpdated |-> now]]
      cost == Member(u)!CostOfUserSupport(initialSupport)
  IN  /\ Member(u)!IsMember
      /\ Member(u)!CurrentUserBalance >= cost
      /\ statementCount < MaxStatements
      /\ statementCount' = statementCount + 1
      /\ statementSupport' = [statementSupport EXCEPT
           ![s] = [value |-> initialSupport, lastUpdated |-> now]]
      /\ UNCHANGED <<now, ranking, lastEngagement>>
      /\ userCredits' = [userCredits EXCEPT
           ![u] = [credits |-> Member(u)!CurrentUserBalance - cost,
                   lastUpdated |-> now]]
      /\ userSupportMap' = [userSupportMap EXCEPT ![u] = given]
      /\ userSupportedStatements' = [userSupportedStatements EXCEPT
           ![u] = Member(u)!UpdateUserSupportedStatements(
                    @, Member(u)!CurrentSupports(given, now), s)]

(***************************************************************************)
(* addStatement: any call brings the caller's balance current; the initial *)
(* support is paid for in full, the statement being new.                   *)
(***************************************************************************)
AddStatement(u, initialSupport) ==
  LET s == statementCount
      given == [userSupportMap[u] EXCEPT
                  ![s] = [value |-> initialSupport, lastUpdated |-> now]]
      cost == Member(u)!CostOfUserSupport(initialSupport)
      credits == Member(u)!CurrentUserBalance
  IN  /\ Member(u)!IsMember
      /\ credits >= cost                                \* InsufficientCredits
      /\ Statement!Add(initialSupport)
      /\ userCredits' = [userCredits EXCEPT
           ![u] = [credits |-> credits - cost, lastUpdated |-> now]]
      /\ IF initialSupport = 0
         THEN UNCHANGED <<userSupportMap, userSupportedStatements>>
         ELSE /\ userSupportMap' = [userSupportMap EXCEPT ![u] = given]
              /\ userSupportedStatements' = [userSupportedStatements EXCEPT
                   ![u] = Member(u)!UpdateUserSupportedStatements(
                            @, Member(u)!CurrentSupports(given, now), s)]

(***************************************************************************)
(* adjustSupport: the member's side of the loop leaves the changes that    *)
(* the statements get.  Either side may revert the call.                   *)
(***************************************************************************)
AdjustSupport(u, adjustments) ==
  LET c == Member(u)!AdjustAll(adjustments)
      charge == Member(u)!Settle(c.totalCostChange)
      credits == Member(u)!CurrentUserBalance
  IN  /\ Member(u)!IsMember
      /\ ~c.reverted
      /\ credits >= charge                              \* InsufficientCredits
      /\ Statement!Adjust(c.changes)
      /\ userSupportMap' = [userSupportMap EXCEPT ![u] = c.supports]
      /\ userSupportedStatements' = [userSupportedStatements EXCEPT ![u] = c.supported]
      /\ userCredits' = [userCredits EXCEPT
           ![u] = [credits |-> credits - charge, lastUpdated |-> now]]

Tick == Statement!Tick /\ UNCHANGED memberVars

Batches == UNION {[1..n -> Adjustments] : n \in 0..MaxBatch}

Next ==
  \/ \E u \in Users, initialSupport \in InitialSupports :
       AddStatement(u, initialSupport)
  \/ \E u \in Users, adjustments \in Batches : AdjustSupport(u, adjustments)
  \/ Tick

Spec == Init /\ [][Next]_vars

-----------------------------------------------------------------------------
(***************************************************************************)
(* The statements of a forum behave as the module Statements says and the  *)
(* account of each member as MemberAccount says, whatever the other        *)
(* members do: what is checked of the parts alone holds in the forum.      *)
(***************************************************************************)
ImplementsStatements ==
  Statement!Init /\ [][Statement!Next]_(Statement!vars)

ImplementsMembers ==
  /\ \A u \in Users : Member(u)!Init
  /\ [][\A u \in Users : [Member(u)!Next]_(Member(u)!vars)]_vars

(* Both at once: a call changes the account and the ranking, or neither. *)
ImplementsBoth == ImplementsStatements /\ ImplementsMembers

(***************************************************************************)
(* A statement's support is the sum of what its supporters give.  The two  *)
(* are stored apart, written at different times and decay with rounding of *)
(* their own.  The support of a statement that one member alone has ever   *)
(* supported is written whenever hers is, and equals it; each further      *)
(* supporter may make the sum drift by one unit a second, no more.         *)
(***************************************************************************)
MemberSupport(s) ==
  LET ofMember(u) == Member(u)!UserSupport(s)
  IN  MapThenSumSet(ofMember, Users)

Drift(s) == Statement!Abs(Statement!Strength(s) - MemberSupport(s))

Supporters(s) == {u \in Users : userSupportMap[u][s].lastUpdated # 0}

SupportIsSum ==
  \A s \in Statement!StatementIds :
    Drift(s) <= IF Supporters(s) = {} THEN 0
                ELSE (Cardinality(Supporters(s)) - 1) * (now - StartTime)

=============================================================================
