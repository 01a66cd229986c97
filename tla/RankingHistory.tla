--------------------------- MODULE RankingHistory ---------------------------
(***************************************************************************)
(* Statements with the one fact of its past that the order of the ranked   *)
(* list depends on.  Supports stored at different times are rounded        *)
(* differently as they decay, so a second that passes may swap two         *)
(* neighbours of the list without any call; no line of Forum.sol runs      *)
(* then, and the loops of the next call start from a list that is out of   *)
(* order.  `swapped` records that this has happened.                       *)
(***************************************************************************)
EXTENDS Statements

VARIABLE swapped   \* time alone has brought the list out of order

historyVars == <<vars, swapped>>

HistoryInit == Init /\ swapped = FALSE

(* Only time sets it: a call that leaves the list unsorted is to blame. *)
TimePasses ==
  /\ Tick
  /\ swapped' = (swapped \/ ~SortedBySupport')

HistoryNext ==
  \/ \E initialSupport \in InitialSupports : Add(initialSupport) /\ UNCHANGED swapped
  \/ \E changes \in Batches : Adjust(changes) /\ UNCHANGED swapped
  \/ TimePasses

HistorySpec == HistoryInit /\ [][HistoryNext]_historyVars

-----------------------------------------------------------------------------
(***************************************************************************)
(* The peaks cover the ranks and the next call can subtract every time     *)
(* they rest on, always; and until time itself swaps two neighbours, list  *)
(* and ranks are inverse and the list is sorted through every rise, fall,  *)
(* eviction and maintenance (_updateStatementRanking,                      *)
(* _rankingMaintenance).                                                   *)
(***************************************************************************)
RankingSound ==
  /\ TypeOK /\ PeakCoversRank /\ NothingFromTheFuture
  /\ ~swapped => RankConsistency /\ SortedBySupport

(* Until then the statement a call moves last is in its place.             *)
StrongIsRanked ==
  [][\A s \in StatementIds :
       swapped \/ (RankOf(s) # -1 \/ RightlyLeftOut(s))' \/ ~MovedLast(s)]_historyVars

(* What a call does to a statement's place and record is never left undone *)
(* while the list is in order, and its record never undone at all.         *)
PlacesAreEarned == StrongIsRanked /\ PeakNeverWorsens

=============================================================================
