---------------------------- MODULE UserSupports ----------------------------
(***************************************************************************)
(* The part of Forum.sol that belongs to one member: what support costs    *)
(* in credits, and the list of statements the member supports.             *)
(***************************************************************************)
EXTENDS SupportDecay, Sequences

CONSTANTS
  creditMultiplier,   \* parts per whole credit
  refundPenaltyBps    \* share of a net refund that is kept, in 1/10000

ASSUME CostAssumption ==
  /\ creditMultiplier \in Nat \ {0}
  /\ refundPenaltyBps \in 0..10000

(* _costOfUserSupport: quadratic in whole credits. *)
CostOfUserSupport(support) ==
  (Abs(support) * (Abs(support) + creditMultiplier)) \div (2 * creditMultiplier)

(* The end of adjustSupport: a net refund is paid out less the penalty. *)
Settle(costChange) ==
  IF costChange >= 0
  THEN costChange
  ELSE costChange + ((-costChange) * refundPenaltyBps) \div 10000

-----------------------------------------------------------------------------
(***************************************************************************)
(* _updateUserSupportedStatements.  `list` is the member's array, `cur`    *)
(* the member's current support of every statement and s the statement     *)
(* that was just adjusted.  A slot whose statement has no support left is  *)
(* empty: s goes into the first one, and the content of the last occupied  *)
(* slot is copied into the second one before the array loses its last      *)
(* element.                                                                *)
(***************************************************************************)
IsLeast(i, S) == i \in S /\ \A j \in S : i <= j
IsGreatest(i, S) == i \in S /\ \A j \in S : i >= j

EmptySlots(list, cur) == {i \in DOMAIN list : cur[list[i]] = 0}
OccupiedSlots(list, cur) == {i \in DOMAIN list : cur[list[i]] # 0}

Track(list, cur, s) ==
  LET empty == EmptySlots(list, cur)
  IN  IF cur[s] = 0 \/ \E i \in DOMAIN list : list[i] = s
      THEN list
      ELSE IF empty = {}
      THEN Append(list, s)
      ELSE [i \in DOMAIN list |-> IF IsLeast(i, empty) THEN s ELSE list[i]]

(* A slip: the last element is dropped without having been moved. *)
CompactWithoutMove(list, empty, occupied) ==
  LET later == {i \in empty : \E j \in empty : j < i}
  IN  IF \E i \in later, j \in occupied : j > i
      THEN SubSeq(list, 1, Len(list) - 1)
      ELSE list

(* The slots are those found before s was tracked. *)
Compact(list, empty, occupied) ==
  LET later == {i \in empty : \E j \in empty : j < i}
      movable(i, j) == IsLeast(i, later) /\ IsGreatest(j, occupied) /\ j > i
  IN  IF \E i \in later, j \in occupied : movable(i, j)
      THEN LET filled == [i \in DOMAIN list |->
                            IF IsLeast(i, later)
                            THEN list[CHOOSE j \in occupied : IsGreatest(j, occupied)]
                            ELSE list[i]]
           IN  SubSeq(filled, 1, Len(filled) - 1)
      ELSE list

UpdateUserSupportedStatements(list, cur, s) ==
  Compact(Track(list, cur, s), EmptySlots(list, cur), OccupiedSlots(list, cur))

=============================================================================
