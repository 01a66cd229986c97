--------------------------- MODULE MemberAccount ----------------------------
(***************************************************************************)
(* The account one member has in a forum (Forum.sol): credits, the support *)
(* the member gives to each statement, and the list of the statements      *)
(* supported.  This is the side of addStatement and adjustSupport that     *)
(* does not depend on what other members do.                               *)
(***************************************************************************)
EXTENDS UserSupports

CONSTANTS
  MaxStatements,                  \* bound: identifiers are 0..MaxStatements-1
  registrationTimestamp,          \* when the member's identity was registered
  userStartingCredits,
  userCreditAllowancePerInterval,
  creditAllowanceIntervalSeconds,
  minAdjustmentIntervalSeconds,
  InitialSupports,                \* the initial supports a caller may give
  Adjustments,                    \* the SupportAdjustments a call may contain
  MaxBatch,                       \* bound on the adjustments of one call
  StartTime                       \* block.timestamp when the forum is deployed

StatementIds == 0..(MaxStatements - 1)

ASSUME AccountAssumption ==
  /\ MaxStatements \in Nat \ {0}
  /\ registrationTimestamp \in Times \ {0}
  /\ userStartingCredits \in Nat
  /\ userCreditAllowancePerInterval \in Nat
  /\ creditAllowanceIntervalSeconds \in Nat \ {0}
  /\ minAdjustmentIntervalSeconds \in Nat
  /\ MaxBatch \in Nat

ASSUME InputsAssumption ==
  /\ InitialSupports \subseteq Supports
  /\ Adjustments \subseteq [statementId : StatementIds, value : Supports,
                            adjustmentType : {"Delta", "SetTo"}]

(* Real timestamps are far from 0, which stands for "never". *)
ASSUME ClockAssumption ==
  /\ StartTime \in Times \ {0}
  /\ StartTime >= minAdjustmentIntervalSeconds

VARIABLES
  now,             \* block.timestamp
  statementCount,
  supports,        \* userSupportMap[_userId]
  supported,       \* _userSupportedStatements[_userId]
  balance          \* userCredits[_userId]

vars == <<now, statementCount, supports, supported, balance>>

UserBalance == [credits : Nat, lastUpdated : Times]

TypeOK ==
  /\ now \in Times
  /\ statementCount \in 0..MaxStatements
  /\ supports \in [StatementIds -> Support]
  /\ supported \in Seq(StatementIds)
  /\ balance \in UserBalance

Init ==
  /\ now = StartTime
  /\ statementCount = 0
  /\ supports = [s \in StatementIds |-> NoSupport]
  /\ supported = <<>>
  /\ balance = [credits |-> 0, lastUpdated |-> 0]

-----------------------------------------------------------------------------
(* onlyMembers, for a forum whose nationality the member has. *)
IsMember == registrationTimestamp <= now

(* _getCurrentUserBalance: an account that was never used is as old as the *)
(* registration.                                                           *)
Intervals(from) == (now - from) \div creditAllowanceIntervalSeconds

(* A slip: an account without credits is taken for a new one. *)
CurrentUserBalanceOfEmpty ==
  IF balance.credits = 0
  THEN userStartingCredits
         + Intervals(registrationTimestamp) * userCreditAllowancePerInterval
  ELSE balance.credits
         + Intervals(balance.lastUpdated) * userCreditAllowancePerInterval

CurrentUserBalance ==
  IF balance.lastUpdated = 0
  THEN userStartingCredits
         + Intervals(registrationTimestamp) * userCreditAllowancePerInterval
  ELSE balance.credits
         + Intervals(balance.lastUpdated) * userCreditAllowancePerInterval

(***************************************************************************)
(* addStatement: any call brings the balance current; initial support is   *)
(* paid for in full, the statement being new.                              *)
(***************************************************************************)
Add(initialSupport) ==
  LET s == statementCount
      given == [supports EXCEPT
                  ![s] = [value |-> initialSupport, lastUpdated |-> now]]
      cost == CostOfUserSupport(initialSupport)
  IN  /\ IsMember
      /\ statementCount < MaxStatements
      /\ CurrentUserBalance >= cost                     \* InsufficientCredits
      /\ statementCount' = statementCount + 1
      /\ IF initialSupport = 0
         THEN UNCHANGED <<supports, supported>>
         ELSE /\ supports' = given
              /\ supported' = UpdateUserSupportedStatements(
                                supported, CurrentSupports(given, now), s)
      /\ balance' = [credits |-> CurrentUserBalance - cost, lastUpdated |-> now]
      /\ UNCHANGED now

-----------------------------------------------------------------------------
(***************************************************************************)
(* adjustSupport: the loop runs on a copy c of the storage it writes.  It  *)
(* adds up the cost and leaves the changes the statements get.  The whole  *)
(* call reverts if one round does.                                         *)
(***************************************************************************)
BeforeAdjusting ==
  [supports |-> supports, supported |-> supported, totalCostChange |-> 0,
   changes |-> <<>>, reverted |-> FALSE]

Adjusted(old, adjustment) ==
  IF adjustment.adjustmentType = "SetTo"
  THEN adjustment.value
  ELSE old + adjustment.value

Accept(c, s, old, new) ==
  LET given == [c.supports EXCEPT ![s] = [value |-> new, lastUpdated |-> now]]
  IN  [c EXCEPT
        !.supports = given,
        !.supported = UpdateUserSupportedStatements(@, CurrentSupports(given, now), s),
        !.totalCostChange = @ + CostOfUserSupport(new) - CostOfUserSupport(old),
        !.changes = Append(@, [statementId |-> s, change |-> new - old])]

(* One round: InvalidStatementId, DuplicateAdjustment, overflow revert. *)
AdjustOne(c, adjustment) ==
  LET s == adjustment.statementId
      old == CurrentSupport(c.supports[s], now)
      new == Adjusted(old, adjustment)
  IN  IF \/ c.reverted
         \/ s >= statementCount
         \/ now - c.supports[s].lastUpdated < minAdjustmentIntervalSeconds
         \/ new \notin Supports
      THEN [c EXCEPT !.reverted = TRUE]
      ELSE Accept(c, s, old, new)

(* The loop, as a function of the number of rounds done. *)
AdjustAll(adjustments) ==
  LET after[i \in 0..Len(adjustments)] ==
        IF i = 0 THEN BeforeAdjusting
        ELSE AdjustOne(after[i - 1], adjustments[i])
  IN  after[Len(adjustments)]

Adjust(adjustments) ==
  LET c == AdjustAll(adjustments)
      charge == Settle(c.totalCostChange)
  IN  /\ IsMember
      /\ ~c.reverted
      /\ CurrentUserBalance >= charge                   \* InsufficientCredits
      /\ supports' = c.supports
      /\ supported' = c.supported
      /\ balance' = [credits |-> CurrentUserBalance - charge, lastUpdated |-> now]
      /\ UNCHANGED <<now, statementCount>>

-----------------------------------------------------------------------------
(* Another member adds a statement. *)
OtherAdds ==
  /\ statementCount < MaxStatements
  /\ statementCount' = statementCount + 1
  /\ UNCHANGED <<now, supports, supported, balance>>

(* The next block has a later timestamp. *)
Tick ==
  /\ now < MaxTime
  /\ now' = now + 1
  /\ UNCHANGED <<statementCount, supports, supported, balance>>

Batches == UNION {[1..n -> Adjustments] : n \in 0..MaxBatch}

Next ==
  \/ \E initialSupport \in InitialSupports : Add(initialSupport)
  \/ \E adjustments \in Batches : Adjust(adjustments)
  \/ OtherAdds
  \/ Tick

Spec == Init /\ [][Next]_vars

-----------------------------------------------------------------------------
UserSupport(s) == CurrentSupport(supports[s], now)

(* What it costs to hold every support as last written. *)
StakeOf(given) ==
  LET upTo[k \in 0..MaxStatements] ==
        IF k = 0 THEN 0
        ELSE upTo[k - 1] + CostOfUserSupport(given[k - 1].value)
  IN  upTo[MaxStatements]

Stake == StakeOf(supports)

(* Everything the forum has promised the member so far. *)
Granted ==
  userStartingCredits
    + Intervals(registrationTimestamp) * userCreditAllowancePerInterval

(***************************************************************************)
(* No sequence of calls yields credits: what a member can spend now plus   *)
(* what the member's supports cost never exceeds the starting credits and  *)
(* the allowance since registration, whatever is withdrawn, re-staked in   *)
(* one batch, rounded or decayed in between.                               *)
(***************************************************************************)
NoFreeCredits == IsMember => CurrentUserBalance + Stake <= Granted

(***************************************************************************)
(* getUserStatementSupport reads the list, not the map: a support that is  *)
(* not listed is invisible to its owner.  Slots are reused and the array   *)
(* is compacted on every call, and a slot empties by itself when what it   *)
(* points to has decayed.                                                  *)
(***************************************************************************)
SupportListed ==
  \A s \in StatementIds :
    UserSupport(s) # 0 => \E i \in DOMAIN supported : supported[i] = s

(***************************************************************************)
(* No stored time is later than the block's, and nothing is supported that *)
(* does not exist: either would make every later call of the member revert *)
(* or return statements nobody wrote.                                      *)
(***************************************************************************)
AccountIsPast ==
  /\ balance.lastUpdated <= now
  /\ \A s \in StatementIds :
       /\ supports[s].lastUpdated <= now
       /\ supports[s] # NoSupport => s < statementCount
  /\ \A i \in DOMAIN supported : supported[i] < statementCount

(***************************************************************************)
(* The clock of the account: every call of the member moves it, so a       *)
(* client that remembers an older value and reads a newer one knows that   *)
(* what it staged is out of date; no call moves a support without it.      *)
(***************************************************************************)
SupportMovesClock ==
  [][supports' # supports => balance'.lastUpdated = now]_vars

(***************************************************************************)
(* A member's account is complete and can always be used again: what its   *)
(* owner supports is listed, every stored time lies in the past, and the   *)
(* clock that clients compare moves with every change of a support         *)
(* (addStatement and adjustSupport, in any sequence of batches).           *)
(***************************************************************************)
AccountIsKept ==
  [](TypeOK /\ SupportListed /\ AccountIsPast) /\ SupportMovesClock

(***************************************************************************)
(* "last occupied element (E at index 4) moves to index 2, array pops"     *)
(* (Forum.t.sol:1231): an element that moved is not left where it was, so  *)
(* getUserStatementSupport returns no statement twice.  It does not hold   *)
(* when the last slot is itself empty (Forum.sol:575; four statements).    *)
(***************************************************************************)
ListedOnce ==
  \A i, j \in DOMAIN supported :
    supported[i] = supported[j] /\ UserSupport(supported[i]) # 0 => i = j

(***************************************************************************)
(* "Amount of credits a user is credited each credit allowance interval"   *)
(* (Forum.sol:26): a member who never staked anything has been credited    *)
(* the allowance of every interval since registration.  It does not hold:  *)
(* every call restarts the interval (Forum.sol:505).                       *)
(***************************************************************************)
AllowanceAccrues ==
  IsMember /\ supports = [s \in StatementIds |-> NoSupport]
    => CurrentUserBalance = Granted

(***************************************************************************)
(* "set to block.timestamp (strictly increasing) on every addStatement and *)
(* adjustSupport" (Forum.sol:417-418).  It does not hold of two calls in   *)
(* one block.                                                              *)
(***************************************************************************)
LastUpdatedAdvances ==
  [][supports' # supports => balance'.lastUpdated > balance.lastUpdated]_vars

=============================================================================
