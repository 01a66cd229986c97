-------------------------- MODULE StatementRanking --------------------------
(***************************************************************************)
(* Forum.sol's ranked list of statements, as operators on a record         *)
(*                                                                         *)
(*   [rank, peakRank, statementRankings, rankedCount]                      *)
(*                                                                         *)
(* that Forum keeps in its variable `ranking`.  Ranks count from 0 and -1  *)
(* is "not ranked".  statementRankings keeps what was written beyond       *)
(* rankedCount, as the contract's array does.                              *)
(*                                                                         *)
(* `cur` maps every statement to its support at the block's timestamp      *)
(* (_getCurrentSupportValue), which is constant during a call except for   *)
(* the statement being adjusted, whose new value `cur` already holds.      *)
(*                                                                         *)
(* The contract moves a statement through the list one place at a time.    *)
(* The places it stops at depend only on `cur` and on entries the loop has *)
(* not yet written, so each loop is given here by the place where it ends  *)
(* and the block of entries it has shifted.                                *)
(***************************************************************************)
EXTENDS Integers

CONSTANTS
  MaxStatements,             \* bound: identifiers are 0..MaxStatements-1
  maxRankedStatements,       \* length limit of the ranked list
  minStatementSupportToRank  \* support a statement needs to be ranked

ASSUME RankingAssumption ==
  /\ MaxStatements \in Nat \ {0}
  /\ maxRankedStatements \in Nat \ {0}
  /\ minStatementSupportToRank \in Int

StatementIds == 0..(MaxStatements - 1)
Ranks == 0..(maxRankedStatements - 1)

RankingType ==
  [rank              : [StatementIds -> Ranks \cup {-1}],
   peakRank          : [StatementIds -> Ranks \cup {-1}],
   statementRankings : [Ranks -> StatementIds],
   rankedCount       : 0..maxRankedStatements]

NoRanking ==
  [rank              |-> [s \in StatementIds |-> -1],
   peakRank          |-> [s \in StatementIds |-> -1],
   statementRankings |-> [r \in Ranks |-> 0],
   rankedCount       |-> 0]

Least(S) == CHOOSE x \in S : \A y \in S : x <= y
Greatest(S) == CHOOSE x \in S : \A y \in S : x >= y

-----------------------------------------------------------------------------
(* _getStatementRank: a stored rank past the end of the list is stale. *)
GetStatementRank(l, s) == IF l.rank[s] < l.rankedCount THEN l.rank[s] ELSE -1

BetterRank(peak, r) == IF peak = -1 \/ r < peak THEN r ELSE peak

(* _setStatementRank *)
SetStatementRank(l, s, r) ==
  [l EXCEPT !.rank[s] = r,
            !.peakRank[s] = IF r >= 0 THEN BetterRank(@, r) ELSE @]

(* A slip: the statements that leave keep their ranks. *)
RankingMaintenanceOfCount(l, cur) ==
  LET strong == {k \in 1..l.rankedCount :
                   cur[l.statementRankings[k - 1]] >= minStatementSupportToRank}
  IN  [l EXCEPT !.rankedCount = Greatest({0} \cup strong)]

(* _rankingMaintenance: the weakest statements leave while below the bar. *)
RankingMaintenance(l, cur) ==
  LET strong == {k \in 1..l.rankedCount :
                   cur[l.statementRankings[k - 1]] >= minStatementSupportToRank}
      kept == Greatest({0} \cup strong)
      dropped == {l.statementRankings[r] : r \in kept..(l.rankedCount - 1)}
  IN  [l EXCEPT !.rankedCount = kept,
                !.rank = [s \in StatementIds |->
                            IF s \in dropped THEN -1 ELSE l.rank[s]]]

(* A slip: the bar itself is not enough. *)
RankingThresholdStrict(l, cur) ==
  IF l.rankedCount < maxRankedStatements
  THEN minStatementSupportToRank + 1
  ELSE cur[l.statementRankings[l.rankedCount - 1]] + 1

(* _getRankingThreshold *)
RankingThreshold(l, cur) ==
  IF l.rankedCount < maxRankedStatements
  THEN minStatementSupportToRank
  ELSE cur[l.statementRankings[l.rankedCount - 1]] + 1

-----------------------------------------------------------------------------
(* Where the statement ends that starts at r and has support v. *)
RiseTo(l, cur, r, v) ==
  Least({j \in 0..r : \A i \in j..(r - 1) : v > cur[l.statementRankings[i]]})

SinkTo(l, cur, r, v) ==
  Greatest({j \in r..(l.rankedCount - 1) :
              \A i \in (r + 1)..j : v < cur[l.statementRankings[i]]})

(* The entries of above..r-1 each move one place down the list. *)
ShiftDown(l, above, r) ==
  LET moved == (above + 1)..r
      placed == [i \in Ranks |-> IF i \in moved THEN l.statementRankings[i - 1]
                                 ELSE l.statementRankings[i]]
      places(s) == {i \in moved : placed[i] = s}
  IN  [l EXCEPT
        !.statementRankings = placed,
        !.rank = [s \in StatementIds |->
                    IF places(s) = {} THEN l.rank[s] ELSE Least(places(s))],
        !.peakRank = [s \in StatementIds |->
                        IF places(s) = {} THEN l.peakRank[s]
                        ELSE BetterRank(l.peakRank[s], Least(places(s)))]]

(* The entries of r+1..below each move one place up the list. *)
ShiftUp(l, r, below) ==
  LET moved == r..(below - 1)
      placed == [i \in Ranks |-> IF i \in moved THEN l.statementRankings[i + 1]
                                 ELSE l.statementRankings[i]]
      places(s) == {i \in moved : placed[i] = s}
  IN  [l EXCEPT
        !.statementRankings = placed,
        !.rank = [s \in StatementIds |->
                    IF places(s) = {} THEN l.rank[s] ELSE Greatest(places(s))],
        !.peakRank = [s \in StatementIds |->
                        IF places(s) = {} THEN l.peakRank[s]
                        ELSE BetterRank(l.peakRank[s], Least(places(s)))]]

(***************************************************************************)
(* The second half of _updateStatementRanking: statement s is moved from   *)
(* place r to where its support belongs and either written there, or, if   *)
(* it fell below the bar, taken off by shortening the list.                *)
(***************************************************************************)
Resettle(l, cur, s, r) ==
  LET top == RiseTo(l, cur, r, cur[s])
      bottom == SinkTo(l, cur, r, cur[s])
      place == IF top < r THEN top ELSE bottom
      shifted == IF top < r THEN ShiftDown(l, top, r) ELSE ShiftUp(l, r, bottom)
  IN  IF cur[s] < minStatementSupportToRank
      THEN SetStatementRank([shifted EXCEPT !.rankedCount = @ - 1], s, -1)
      ELSE SetStatementRank([shifted EXCEPT !.statementRankings[place] = s],
                            s, place)

(* _updateStatementRanking *)
UpdateStatementRanking(before, cur, s) ==
  LET l == RankingMaintenance(before, cur)
      last == l.rankedCount - 1
  IN  IF GetStatementRank(l, s) # -1
      THEN Resettle(l, cur, s, l.rank[s])
      ELSE IF cur[s] < RankingThreshold(l, cur)
      THEN l
      ELSE IF l.rankedCount < maxRankedStatements
      THEN Resettle([l EXCEPT !.rankedCount = @ + 1], cur, s, l.rankedCount)
      ELSE Resettle(SetStatementRank(l, l.statementRankings[last], -1),
                    cur, s, last)

=============================================================================
