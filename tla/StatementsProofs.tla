-------------------------- MODULE StatementsProofs --------------------------
(***************************************************************************)
(* What the ranking of a forum guarantees for every decay, every length of *)
(* the list and every bar.  Types, peaks and times are always right.  That *)
(* the list is sorted and agrees with the ranks holds until time alone     *)
(* swaps two neighbours of the list, which the rounding of supports stored *)
(* at different times may do.                                              *)
(*                                                                         *)
(* IInv is the invariant of every state, Ordered that of the states before *)
(* such a swap.  _updateStatementRanking takes a statement out of          *)
(* its place, moves the hole to where the statement belongs and fills it   *)
(* or cuts it off: Hole says that list and ranks agree but for one place,  *)
(* Opened what a loop does to the rest of the list.                        *)
(***************************************************************************)
EXTENDS RankingHistory, DecayUtils, Induction

Listed(l) == 0..(l.rankedCount - 1)
Currents == [StatementIds -> Int]

(* A recorded peak is as good as the rank; only the statements of S have any *)
(* and stand in the list.                                                    *)
Peaked(l) == \A s \in StatementIds : l.rank[s] # -1 => l.peakRank[s] \in 0..l.rank[s]
Filled(l, S, places) == \A i \in places : l.statementRankings[i] \in S
Unranked(l, S) == \A s \in StatementIds \ S : l.rank[s] = -1 /\ l.peakRank[s] = -1

Sound(l, S) ==
  l \in RankingType /\ Peaked(l) /\ Unranked(l, S) /\ Filled(l, S, Listed(l))

PeaksKept(l, m) ==
  \A s \in StatementIds :
    l.peakRank[s] # -1 => m.peakRank[s] \in 0..l.peakRank[s]

(* The list and the ranks agree, everywhere or but for the hole at r. *)
Consistent(l) ==
  /\ \A r \in Listed(l) : l.rank[l.statementRankings[r]] = r
  /\ \A s \in StatementIds :
       l.rank[s] # -1 => l.rank[s] \in Listed(l) /\ l.statementRankings[l.rank[s]] = s

Hole(l, s, r) ==
  /\ r \in Listed(l)
  /\ \A i \in Listed(l) \ {r} :
       l.statementRankings[i] # s /\ l.rank[l.statementRankings[i]] = i
  /\ \A t \in StatementIds \ {s} :
       l.rank[t] # -1 =>
         l.rank[t] \in Listed(l) \ {r} /\ l.statementRankings[l.rank[t]] = t

SortedOver(l, cur, places) ==
  \A i, j \in places :
    i < j => cur[l.statementRankings[i]] >= cur[l.statementRankings[j]]

Strong(l, cur, places) ==
  \A i \in places : cur[l.statementRankings[i]] >= minStatementSupportToRank

(* m is l with the entries of a..b taken from d places further on. *)
Shifted(l, m, a, b, d) ==
  /\ m \in RankingType /\ m.rankedCount = l.rankedCount
  /\ \A i \in Ranks :
       m.statementRankings[i] = IF i \in a..b THEN l.statementRankings[i + d]
                                ELSE l.statementRankings[i]
  /\ \A t \in StatementIds :
       \/ /\ \A i \in a..b : l.statementRankings[i + d] # t
          /\ m.rank[t] = l.rank[t] /\ m.peakRank[t] = l.peakRank[t]
       \/ \E i, j \in a..b :
            /\ l.statementRankings[i + d] = t /\ l.statementRankings[j + d] = t
            /\ j <= i /\ m.rank[t] = i
            /\ m.peakRank[t] = BetterRank(l.peakRank[t], j)

(* What a loop does that moves them: each entry of a..b is written with its *)
(* rank, in order, the last write of a statement's rank being the one that  *)
(* stays.                                                                    *)
Places(placed, a, b, t) == {i \in a..b : placed[i] = t}

Placing(l, placed, a, b, d) ==
  placed = [i \in Ranks |-> IF i \in a..b THEN l.statementRankings[i + d]
                            ELSE l.statementRankings[i]]

Ranking(l, placed, rank, peak, a, b, up) ==
  /\ rank = [t \in StatementIds |->
               IF Places(placed, a, b, t) = {} THEN l.rank[t]
               ELSE IF up THEN Greatest(Places(placed, a, b, t))
               ELSE Least(Places(placed, a, b, t))]
  /\ peak = [t \in StatementIds |->
               IF Places(placed, a, b, t) = {} THEN l.peakRank[t]
               ELSE BetterRank(l.peakRank[t], Least(Places(placed, a, b, t)))]

-----------------------------------------------------------------------------
(* The operators choose what they are named for. *)
LEMMA GreatestIs ==
  ASSUME NEW a \in Int, NEW b \in Int, NEW S \in SUBSET (a..b), S # {}
  PROVE  Greatest(S) \in S /\ \A x \in S : Greatest(S) >= x
<1>1. \E m \in S : \A x \in S : m >= x
  BY GreatestOfInterval
<1> QED
  BY <1>1 DEF Greatest

(* Likewise the least element. *)
LEMMA LeastIs ==
  ASSUME NEW a \in Int, NEW b \in Int, NEW S \in SUBSET (a..b), S # {}
  PROVE  Least(S) \in S /\ \A x \in S : Least(S) <= x
<1>1. \E m \in S : \A x \in S : m <= x
  BY LeastOfInterval
<1> QED
  BY <1>1 DEF Least

(* What a ranking is made of. *)
LEMMA RankingIs ==
  ASSUME NEW l \in RankingType
  PROVE  /\ \A s \in StatementIds :
              /\ l.rank[s] \in Int /\ l.rank[s] >= -1 /\ l.rank[s] < maxRankedStatements
              /\ l.peakRank[s] \in Int /\ l.peakRank[s] >= -1
              /\ l.peakRank[s] < maxRankedStatements
         /\ \A r \in Ranks : l.statementRankings[r] \in StatementIds
         /\ l.rankedCount \in Int /\ 0 <= l.rankedCount
         /\ l.rankedCount <= maxRankedStatements
         /\ Listed(l) \subseteq Ranks /\ Ranks \subseteq Int
BY RankingAssumption DEF RankingType, Ranks, Listed

(* _rankingMaintenance cuts the list after the last strong statement. *)
LEMMA MaintenanceIs ==
  ASSUME NEW l \in RankingType, NEW cur \in Currents
  PROVE  LET m == RankingMaintenance(l, cur)
             cut == m.rankedCount..(l.rankedCount - 1)
         IN  /\ m \in RankingType
             /\ m.statementRankings = l.statementRankings /\ m.peakRank = l.peakRank
             /\ m.rankedCount \in 0..l.rankedCount
             /\ m.rankedCount > 0 =>
                  cur[l.statementRankings[m.rankedCount - 1]] >= minStatementSupportToRank
             /\ \A i \in cut : cur[l.statementRankings[i]] < minStatementSupportToRank
             /\ \A s \in StatementIds :
                  m.rank[s] = IF \E i \in cut : l.statementRankings[i] = s
                              THEN -1 ELSE l.rank[s]
<1> DEFINE m == RankingMaintenance(l, cur)
           strong == {k \in 1..l.rankedCount :
                        cur[l.statementRankings[k - 1]] >= minStatementSupportToRank}
           kept == Greatest({0} \cup strong)
           dropped == {l.statementRankings[r] : r \in kept..(l.rankedCount - 1)}
           rank == [s \in StatementIds |-> IF s \in dropped THEN -1 ELSE l.rank[s]]
           m1 == [l EXCEPT !.rankedCount = kept]
<1>1. /\ l.rankedCount \in Int /\ 0 <= l.rankedCount
      /\ l.rankedCount <= maxRankedStatements /\ maxRankedStatements \in Int
      /\ \A i \in 0..(l.rankedCount - 1) : cur[l.statementRankings[i]] \in Int
  BY RankingIs, RankingAssumption DEF Listed, Currents
<1>2. kept \in {0} \cup strong /\ \A k \in strong : kept >= k
  <2> DEFINE T == {0} \cup strong
  <2>1. T \in SUBSET (0..l.rankedCount) /\ T # {} /\ 0 \in Int
    BY <1>1
  <2> HIDE DEF T
  <2>2. Greatest(T) \in T /\ \A k \in T : Greatest(T) >= k
    BY <1>1, <2>1, GreatestIs
  <2> QED
    BY <2>2 DEF T
<1>3. /\ kept \in 0..l.rankedCount
      /\ kept > 0 => cur[l.statementRankings[kept - 1]] >= minStatementSupportToRank
  BY <1>1, <1>2
<1>4. \A i \in kept..(l.rankedCount - 1) :
        cur[l.statementRankings[i]] < minStatementSupportToRank
  <2> SUFFICES ASSUME NEW i \in kept..(l.rankedCount - 1)
               PROVE  cur[l.statementRankings[i]] < minStatementSupportToRank
    OBVIOUS
  <2>1. i + 1 \in 1..l.rankedCount /\ i + 1 > kept /\ (i + 1) - 1 = i
        /\ cur[l.statementRankings[i]] \in Int
    BY <1>1, <1>3
  <2>2. i + 1 \notin strong
    BY <1>2, <1>3, <2>1
  <2> QED
    BY <2>1, <2>2, RankingAssumption
<1>5. rank \in [StatementIds -> Ranks \cup {-1}]
  BY DEF RankingType
<1> HIDE DEF strong
<1>6. kept \in 0..maxRankedStatements
  BY <1>1, <1>3
<1>7. \A s \in StatementIds : rank[s] = IF \E i \in kept..(l.rankedCount - 1) :
                                             l.statementRankings[i] = s
                                        THEN -1 ELSE l.rank[s]
  OBVIOUS
<1> HIDE DEF kept, rank
<1>8. m1 \in RankingType /\ m1.rankedCount = kept /\ m1.peakRank = l.peakRank
      /\ m1.statementRankings = l.statementRankings
  BY <1>6 DEF RankingType
<1>9. m = [m1 EXCEPT !.rank = rank]
  BY DEF RankingMaintenance, kept, rank, strong
<1> HIDE DEF m1, m
<1>10. /\ m \in RankingType /\ m.rankedCount = kept /\ m.peakRank = l.peakRank
       /\ m.statementRankings = l.statementRankings /\ m.rank = rank
  BY <1>5, <1>8, <1>9 DEF RankingType
<1>11. /\ m \in RankingType
       /\ m.statementRankings = l.statementRankings /\ m.peakRank = l.peakRank
       /\ m.rankedCount \in 0..l.rankedCount
       /\ m.rankedCount > 0 =>
            cur[l.statementRankings[m.rankedCount - 1]] >= minStatementSupportToRank
       /\ \A i \in m.rankedCount..(l.rankedCount - 1) :
            cur[l.statementRankings[i]] < minStatementSupportToRank
  BY <1>3, <1>4, <1>10
<1>12. \A s \in StatementIds :
         m.rank[s] = IF \E i \in m.rankedCount..(l.rankedCount - 1) :
                          l.statementRankings[i] = s
                     THEN -1 ELSE l.rank[s]
  BY <1>7, <1>10
<1> QED
  BY <1>11, <1>12 DEF m

(* _setStatementRank *)
LEMMA SetRankIs ==
  ASSUME NEW l \in RankingType, NEW s \in StatementIds, NEW r \in Ranks \cup {-1}
  PROVE  LET m == SetStatementRank(l, s, r)
         IN  /\ m \in RankingType /\ m.rankedCount = l.rankedCount
             /\ m.statementRankings = l.statementRankings
             /\ m.rank[s] = r
             /\ m.peakRank[s] = IF r >= 0 THEN BetterRank(l.peakRank[s], r)
                                ELSE l.peakRank[s]
             /\ \A t \in StatementIds \ {s} :
                  m.rank[t] = l.rank[t] /\ m.peakRank[t] = l.peakRank[t]
<1> DEFINE m == SetStatementRank(l, s, r)
           rank == [l.rank EXCEPT ![s] = r]
           best == IF r >= 0 THEN BetterRank(l.peakRank[s], r) ELSE l.peakRank[s]
           peak == [l.peakRank EXCEPT ![s] = best]
           m1 == [l EXCEPT !.rank = rank]
<1>1. /\ l.rank \in [StatementIds -> Ranks \cup {-1}]
      /\ l.peakRank \in [StatementIds -> Ranks \cup {-1}]
  BY DEF RankingType
<1>2. best \in Ranks \cup {-1}
  BY <1>1, RankingAssumption DEF BetterRank, Ranks
<1> HIDE DEF best
<1>3. /\ rank \in [StatementIds -> Ranks \cup {-1}] /\ rank[s] = r
      /\ \A t \in StatementIds \ {s} : rank[t] = l.rank[t]
      /\ peak \in [StatementIds -> Ranks \cup {-1}] /\ peak[s] = best
      /\ \A t \in StatementIds \ {s} : peak[t] = l.peakRank[t]
  BY <1>1, <1>2
<1> HIDE DEF rank, peak
<1>4. m1 \in RankingType /\ m1.rank = rank /\ m1.rankedCount = l.rankedCount
      /\ m1.peakRank = l.peakRank /\ m1.statementRankings = l.statementRankings
  BY <1>3 DEF RankingType
<1>5. m = [m1 EXCEPT !.peakRank = peak]
  BY DEF SetStatementRank, rank, peak, best
<1> HIDE DEF m1, m
<1>6. m \in RankingType /\ m.rank = rank /\ m.rankedCount = l.rankedCount
      /\ m.peakRank = peak /\ m.statementRankings = l.statementRankings
  BY <1>3, <1>4, <1>5 DEF RankingType
<1> QED
  BY <1>3, <1>6 DEF m, best

(* What a loop that moves entries leaves: the place each goes to, and the *)
(* ranks of those that moved.                                              *)
LEMMA MovedIs ==
  ASSUME NEW l \in RankingType, NEW a \in Ranks, NEW b \in Int, b < maxRankedStatements,
         NEW d \in {-1, 1}, \A i \in a..b : i + d \in Ranks, NEW up \in BOOLEAN,
         NEW placed, Placing(l, placed, a, b, d),
         NEW rank, NEW peak, Ranking(l, placed, rank, peak, a, b, up)
  PROVE  Shifted(l, [l EXCEPT !.statementRankings = placed, !.rank = rank,
                              !.peakRank = peak], a, b, d)
<1>1. /\ \A i \in a..b : i \in Ranks /\ i \in Int
      /\ l.rank \in [StatementIds -> Ranks \cup {-1}]
      /\ l.peakRank \in [StatementIds -> Ranks \cup {-1}]
      /\ l.statementRankings \in [Ranks -> StatementIds]
      /\ a \in Int
  BY RankingAssumption DEF RankingType, Ranks
<1>2. /\ placed \in [Ranks -> StatementIds]
      /\ \A i \in Ranks : placed[i] = IF i \in a..b THEN l.statementRankings[i + d]
                                      ELSE l.statementRankings[i]
  BY <1>1 DEF Placing
<1>3. ASSUME NEW t \in StatementIds, NEW P, P = Places(placed, a, b, t)
      PROVE  \/ P = {} /\ \A i \in a..b : l.statementRankings[i + d] # t
             \/ /\ P # {}
                /\ \E i, j \in a..b :
                     /\ l.statementRankings[i + d] = t /\ l.statementRankings[j + d] = t
                     /\ j <= i /\ j = Least(P)
                     /\ i = IF up THEN Greatest(P) ELSE Least(P)
  <2>1. /\ P \in SUBSET (a..b)
        /\ \A i \in a..b : i \in P <=> l.statementRankings[i + d] = t
    BY <1>1, <1>2, <1>3 DEF Places
  <2>2. CASE P = {}
    BY <2>1, <2>2
  <2>3. CASE P # {}
    <3>1. /\ Least(P) \in P /\ \A x \in P : Least(P) <= x
          /\ Greatest(P) \in P
      BY <1>1, <2>1, <2>3, LeastIs, GreatestIs
    <3>2. Least(P) \in a..b /\ Greatest(P) \in a..b
          /\ Least(P) <= Greatest(P) /\ Least(P) <= Least(P)
      BY <2>1, <3>1
    <3> QED
      BY <2>1, <2>3, <3>1, <3>2
  <2> QED
    BY <2>2, <2>3
<1>4. ASSUME NEW t \in StatementIds
      PROVE  \/ /\ \A i \in a..b : l.statementRankings[i + d] # t
                /\ rank[t] = l.rank[t] /\ peak[t] = l.peakRank[t]
             \/ \E i, j \in a..b :
                  /\ l.statementRankings[i + d] = t /\ l.statementRankings[j + d] = t
                  /\ j <= i /\ rank[t] = i
                  /\ peak[t] = BetterRank(l.peakRank[t], j)
  <2> DEFINE P == Places(placed, a, b, t)
  <2>1. /\ rank[t] = IF P = {} THEN l.rank[t]
                     ELSE IF up THEN Greatest(P) ELSE Least(P)
        /\ peak[t] = IF P = {} THEN l.peakRank[t] ELSE BetterRank(l.peakRank[t], Least(P))
    BY DEF Ranking
  <2>2. \/ P = {} /\ \A i \in a..b : l.statementRankings[i + d] # t
        \/ /\ P # {}
           /\ \E i, j \in a..b :
                /\ l.statementRankings[i + d] = t /\ l.statementRankings[j + d] = t
                /\ j <= i /\ j = Least(P)
                /\ i = IF up THEN Greatest(P) ELSE Least(P)
    BY <1>3
  <2> HIDE DEF P
  <2> QED
    BY <2>1, <2>2
<1>5. /\ rank \in [StatementIds -> Ranks \cup {-1}]
      /\ peak \in [StatementIds -> Ranks \cup {-1}]
  <2>1. ASSUME NEW t \in StatementIds
        PROVE  rank[t] \in Ranks \cup {-1} /\ peak[t] \in Ranks \cup {-1}
    <3>1. l.rank[t] \in Ranks \cup {-1} /\ l.peakRank[t] \in Ranks \cup {-1}
      BY <1>1
    <3> QED
      BY <1>1, <1>4, <3>1 DEF BetterRank
  <2>2. rank = [t \in StatementIds |-> rank[t]] /\ peak = [t \in StatementIds |-> peak[t]]
    BY DEF Ranking
  <2> QED
    BY <2>1, <2>2
<1> DEFINE m1 == [l EXCEPT !.statementRankings = placed]
           m2 == [m1 EXCEPT !.rank = rank]
           m == [l EXCEPT !.statementRankings = placed, !.rank = rank, !.peakRank = peak]
<1>6. m1 \in RankingType /\ m1.statementRankings = placed /\ m1.rankedCount = l.rankedCount
  BY <1>2 DEF RankingType
<1>7. m = [m2 EXCEPT !.peakRank = peak]
  OBVIOUS
<1> HIDE DEF m1, m
<1>8. m2 \in RankingType /\ m2.statementRankings = placed /\ m2.rankedCount = l.rankedCount
      /\ m2.rank = rank
  BY <1>5, <1>6 DEF RankingType
<1> HIDE DEF m2
<1>9. m \in RankingType /\ m.statementRankings = placed /\ m.rankedCount = l.rankedCount
      /\ m.rank = rank /\ m.peakRank = peak
  BY <1>5, <1>7, <1>8 DEF RankingType
<1>10. Shifted(l, m, a, b, d)
  BY <1>2, <1>4, <1>9 DEF Shifted
<1> QED
  BY <1>10 DEF m

(* The loop that makes room above moves the entries one place down, *)
LEMMA ShiftDownIs ==
  ASSUME NEW l \in RankingType, NEW r \in Ranks, NEW above \in 0..r, above < r
  PROVE  Shifted(l, ShiftDown(l, above, r), above + 1, r, -1)
<1> DEFINE a == above + 1
           placed == [i \in Ranks |-> IF i \in a..r THEN l.statementRankings[i - 1]
                                      ELSE l.statementRankings[i]]
           rank == [t \in StatementIds |->
                      IF Places(placed, a, r, t) = {} THEN l.rank[t]
                      ELSE Least(Places(placed, a, r, t))]
           peak == [t \in StatementIds |->
                      IF Places(placed, a, r, t) = {} THEN l.peakRank[t]
                      ELSE BetterRank(l.peakRank[t], Least(Places(placed, a, r, t)))]
           m == [l EXCEPT !.statementRankings = placed, !.rank = rank, !.peakRank = peak]
<1>1. /\ a \in Ranks /\ r \in Int /\ r < maxRankedStatements
      /\ -1 \in {-1, 1} /\ \A i \in a..r : i + (-1) \in Ranks
  BY RankingAssumption DEF Ranks
<1>2. Placing(l, placed, a, r, -1)
  <2>1. \A i \in Ranks : i + (-1) = i - 1
    BY RankingAssumption DEF Ranks
  <2> QED
    BY <2>1 DEF Placing
<1>3. ShiftDown(l, above, r) = m
  BY DEF ShiftDown, Places
<1> HIDE DEF placed
<1>4. Ranking(l, placed, rank, peak, a, r, FALSE)
  BY DEF Ranking
<1>5. FALSE \in BOOLEAN
  OBVIOUS
<1> HIDE DEF rank, peak, a
<1>6. Shifted(l, m, a, r, -1)
  BY <1>1, <1>2, <1>4, <1>5, MovedIs
<1> QED
  BY <1>3, <1>6 DEF a

(* the one that closes a gap moves them one place up. *)
LEMMA ShiftUpIs ==
  ASSUME NEW l \in RankingType, NEW below \in Ranks, NEW r \in 0..below
  PROVE  Shifted(l, ShiftUp(l, r, below), r, below - 1, 1)
<1> DEFINE b == below - 1
           placed == [i \in Ranks |-> IF i \in r..b THEN l.statementRankings[i + 1]
                                      ELSE l.statementRankings[i]]
           rank == [t \in StatementIds |->
                      IF Places(placed, r, b, t) = {} THEN l.rank[t]
                      ELSE Greatest(Places(placed, r, b, t))]
           peak == [t \in StatementIds |->
                      IF Places(placed, r, b, t) = {} THEN l.peakRank[t]
                      ELSE BetterRank(l.peakRank[t], Least(Places(placed, r, b, t)))]
           m == [l EXCEPT !.statementRankings = placed, !.rank = rank, !.peakRank = peak]
<1>1. /\ r \in Ranks /\ b \in Int /\ b < maxRankedStatements
      /\ 1 \in {-1, 1} /\ \A i \in r..b : i + 1 \in Ranks
  BY RankingAssumption DEF Ranks
<1>2. Placing(l, placed, r, b, 1)
  BY DEF Placing
<1>3. ShiftUp(l, r, below) = m
  BY DEF ShiftUp, Places
<1> HIDE DEF placed
<1>4. Ranking(l, placed, rank, peak, r, b, TRUE)
  BY DEF Ranking
<1>5. TRUE \in BOOLEAN
  OBVIOUS
<1> HIDE DEF rank, peak, b
<1>6. Shifted(l, m, r, b, 1)
  BY <1>1, <1>2, <1>4, <1>5, MovedIs
<1> QED
  BY <1>3, <1>6 DEF b

(* Peaks survive the move, and only statements of S get a rank. *)
LEMMA ShiftKeeps ==
  ASSUME NEW l \in RankingType, NEW m, NEW a \in Int, NEW b \in Int, NEW d \in {-1, 1},
         Shifted(l, m, a, b, d), Peaked(l), NEW S, Unranked(l, S),
         \A i \in a..b : i \in Ranks /\ l.statementRankings[i + d] \in S
  PROVE  Peaked(m) /\ Unranked(m, S) /\ PeaksKept(l, m)
<1>1. ASSUME NEW t \in StatementIds
      PROVE  /\ m.rank[t] # -1 => m.peakRank[t] \in 0..m.rank[t]
             /\ l.peakRank[t] # -1 => m.peakRank[t] \in 0..l.peakRank[t]
             /\ t \notin S => m.rank[t] = -1 /\ m.peakRank[t] = -1
  <2>1. /\ l.rank[t] \in Int /\ l.rank[t] >= -1 /\ l.peakRank[t] \in Int
        /\ l.peakRank[t] >= -1 /\ \A i \in Ranks : i \in Int /\ i >= 0
        /\ l.rank[t] # -1 => l.peakRank[t] \in 0..l.rank[t]
        /\ t \notin S => l.rank[t] = -1 /\ l.peakRank[t] = -1
    BY RankingIs DEF Ranks, Peaked, Unranked
  <2>2. CASE /\ \A i \in a..b : l.statementRankings[i + d] # t
             /\ m.rank[t] = l.rank[t] /\ m.peakRank[t] = l.peakRank[t]
    BY <2>1, <2>2
  <2>3. CASE \E i, j \in a..b :
               /\ l.statementRankings[i + d] = t /\ l.statementRankings[j + d] = t
               /\ j <= i /\ m.rank[t] = i
               /\ m.peakRank[t] = BetterRank(l.peakRank[t], j)
    <3>1. PICK i, j \in a..b :
            /\ l.statementRankings[i + d] = t
            /\ j <= i /\ m.rank[t] = i
            /\ m.peakRank[t] = BetterRank(l.peakRank[t], j)
      BY <2>3
    <3>2. i >= 0 /\ j >= 0 /\ i \in Int /\ j \in Int /\ t \in S
      BY <2>1, <3>1
    <3> QED
      BY <2>1, <3>1, <3>2 DEF BetterRank
  <2> QED
    BY <2>2, <2>3 DEF Shifted
<1> QED
  BY <1>1 DEF Peaked, Unranked, PeaksKept

-----------------------------------------------------------------------------
(* Where the loops stop. *)
LEMMA RiseIs ==
  ASSUME NEW l \in RankingType, NEW cur \in Currents, NEW v \in Int, NEW r \in Ranks
  PROVE  LET top == RiseTo(l, cur, r, v)
         IN  /\ top \in 0..r
             /\ \A i \in top..(r - 1) : v > cur[l.statementRankings[i]]
             /\ top > 0 => cur[l.statementRankings[top - 1]] >= v
<1> DEFINE ok(j) == \A i \in j..(r - 1) : v > cur[l.statementRankings[i]]
           S == {j \in 0..r : ok(j)}
           top == Least(S)
<1>1. /\ r \in Int /\ r >= 0 /\ r < maxRankedStatements
      /\ \A i \in 0..r : cur[l.statementRankings[i]] \in Int
  BY RankingAssumption, RankingIs DEF Ranks, Currents
<1>2. r \in S
  BY <1>1
<1>3. top \in S /\ \A x \in S : top <= x
  <2>1. S \in SUBSET (0..r) /\ S # {} /\ 0 \in Int
    BY <1>2
  <2> HIDE DEF S
  <2> QED
    BY <1>1, <2>1, LeastIs
<1>4. top > 0 => cur[l.statementRankings[top - 1]] >= v
  <2> SUFFICES ASSUME top > 0, ~(cur[l.statementRankings[top - 1]] >= v) PROVE FALSE
    OBVIOUS
  <2>1. top \in 0..r /\ ok(top)
    BY <1>3
  <2> HIDE DEF top
  <2>2. top - 1 \in 0..r /\ cur[l.statementRankings[top - 1]] \in Int
    BY <1>1, <2>1
  <2>3. ok(top - 1)
    <3>1. \A i \in (top - 1)..(r - 1) : i = top - 1 \/ i \in top..(r - 1)
      BY <1>1, <2>1
    <3> QED
      BY <2>1, <2>2, <3>1
  <2>4. top - 1 \in S
    BY <2>2, <2>3
  <2> QED
    BY <1>3, <2>1, <2>4
<1>5. RiseTo(l, cur, r, v) = top
  BY DEF RiseTo
<1> QED
  BY <1>3, <1>4, <1>5

(* Sinking ends before the first entry that is not stronger. *)
LEMMA SinkIs ==
  ASSUME NEW l \in RankingType, NEW cur \in Currents, NEW v \in Int, NEW r \in Listed(l)
  PROVE  LET bottom == SinkTo(l, cur, r, v)
         IN  /\ bottom \in r..(l.rankedCount - 1)
             /\ \A i \in (r + 1)..bottom : v < cur[l.statementRankings[i]]
             /\ bottom < l.rankedCount - 1 => cur[l.statementRankings[bottom + 1]] <= v
<1> DEFINE n == l.rankedCount - 1
           ok(j) == \A i \in (r + 1)..j : v < cur[l.statementRankings[i]]
           S == {j \in r..n : ok(j)}
           bottom == Greatest(S)
<1>1. /\ r \in Int /\ n \in Int /\ r <= n /\ 0 <= r
      /\ \A i \in r..n : cur[l.statementRankings[i]] \in Int
  <2>1. r \in 0..n /\ n \in Int /\ \A i \in 0..n : l.statementRankings[i] \in StatementIds
    BY RankingIs DEF Listed
  <2> QED
    BY <2>1 DEF Currents
<1> HIDE DEF n
<1>2. r \in S
  BY <1>1
<1>3. bottom \in S /\ \A x \in S : bottom >= x
  <2>1. S \in SUBSET (r..n) /\ S # {}
    BY <1>2
  <2> HIDE DEF S
  <2> QED
    BY <1>1, <2>1, GreatestIs
<1>4. bottom < n => cur[l.statementRankings[bottom + 1]] <= v
  <2> SUFFICES ASSUME bottom < n, ~(cur[l.statementRankings[bottom + 1]] <= v) PROVE FALSE
    OBVIOUS
  <2>1. bottom \in r..n /\ ok(bottom)
    BY <1>3
  <2> HIDE DEF bottom
  <2>2. bottom + 1 \in r..n /\ cur[l.statementRankings[bottom + 1]] \in Int
    BY <1>1, <2>1
  <2>3. ok(bottom + 1)
    <3>1. \A i \in (r + 1)..(bottom + 1) : i = bottom + 1 \/ i \in (r + 1)..bottom
      BY <1>1, <2>1
    <3> QED
      BY <2>1, <2>2, <3>1
  <2>4. bottom + 1 \in S
    BY <2>2, <2>3
  <2> QED
    BY <1>3, <2>1, <2>4
<1>5. SinkTo(l, cur, r, v) = bottom
  BY DEF SinkTo, n
<1> QED
  BY <1>3, <1>4, <1>5 DEF n

-----------------------------------------------------------------------------
(* x is l after the hole has moved from r to p. *)
Opened(l, x, r, p) ==
  \/ p < r /\ Shifted(l, x, p + 1, r, -1)
  \/ p >= r /\ Shifted(l, x, r, p - 1, 1)

(* The entries move over, the others stay. *)
LEMMA OpenedIs ==
  ASSUME NEW l \in RankingType, NEW r \in Listed(l), NEW p \in Listed(l), NEW x,
         Opened(l, x, r, p)
  PROVE  /\ x \in RankingType /\ x.rankedCount = l.rankedCount
         /\ \A i \in Ranks \ {p} :
              LET from == IF p < i /\ i <= r THEN i - 1 ELSE IF r <= i /\ i < p THEN i + 1 ELSE i
              IN  /\ x.statementRankings[i] = l.statementRankings[from]
                  /\ i \in Listed(l) => from \in Listed(l) \ {r}
         /\ x.statementRankings[p] = l.statementRankings[p]
         /\ r \in Int /\ p \in Int /\ l.rankedCount \in Int /\ Listed(l) \subseteq Ranks
         /\ Ranks \subseteq Int
<1>1. /\ r \in Int /\ p \in Int /\ l.rankedCount \in Int /\ Listed(l) \subseteq Ranks
      /\ Ranks \subseteq Int /\ r \in Ranks /\ p \in Ranks
      /\ \A i \in Int : i \in Listed(l) <=> 0 <= i /\ i <= l.rankedCount - 1
  BY RankingIs DEF Listed
<1>2. CASE p < r /\ Shifted(l, x, p + 1, r, -1)
  <2>1. \A i \in Ranks : x.statementRankings[i] = IF i \in (p + 1)..r
                           THEN l.statementRankings[i + (-1)] ELSE l.statementRankings[i]
    BY <1>2 DEF Shifted
  <2>2. \A i \in Ranks : /\ i + (-1) = i - 1
                         /\ i \in (p + 1)..r <=> p < i /\ i <= r
    BY <1>1
  <2>3. x \in RankingType /\ x.rankedCount = l.rankedCount
    BY <1>2 DEF Shifted
  <2> QED
    BY <1>1, <1>2, <2>1, <2>2, <2>3
<1>3. CASE p >= r /\ Shifted(l, x, r, p - 1, 1)
  <2>1. \A i \in Ranks : x.statementRankings[i] = IF i \in r..(p - 1)
                           THEN l.statementRankings[i + 1] ELSE l.statementRankings[i]
    BY <1>3 DEF Shifted
  <2>2. \A i \in Ranks : i \in r..(p - 1) <=> r <= i /\ i < p
    BY <1>1
  <2>3. x \in RankingType /\ x.rankedCount = l.rankedCount
    BY <1>3 DEF Shifted
  <2> QED
    BY <1>1, <1>3, <2>1, <2>2, <2>3
<1> QED
  BY <1>2, <1>3 DEF Opened

(* Whatever moves, peaks are kept and only statements of S are ranked. *)
LEMMA OpenedSound ==
  ASSUME NEW l \in RankingType, NEW r \in Listed(l), NEW p \in Listed(l), NEW x,
         Opened(l, x, r, p), Peaked(l), NEW S, Unranked(l, S),
         Filled(l, S, Listed(l) \ {r})
  PROVE  /\ Peaked(x) /\ Unranked(x, S) /\ PeaksKept(l, x)
         /\ Filled(x, S, Listed(l) \ {p})
         /\ Filled(l, S, Listed(l)) => Filled(x, S, Listed(l))
<1>1. /\ \A i \in Ranks \ {p} :
           LET from == IF p < i /\ i <= r THEN i - 1 ELSE IF r <= i /\ i < p THEN i + 1 ELSE i
           IN  /\ x.statementRankings[i] = l.statementRankings[from]
               /\ i \in Listed(l) => from \in Listed(l) \ {r}
      /\ x.statementRankings[p] = l.statementRankings[p]
      /\ r \in Int /\ p \in Int /\ l.rankedCount \in Int /\ Listed(l) \subseteq Ranks
      /\ Ranks \subseteq Int
  BY OpenedIs
<1>2. Filled(x, S, Listed(l) \ {p})
  <2> SUFFICES ASSUME NEW i \in Listed(l) \ {p} PROVE x.statementRankings[i] \in S
    BY DEF Filled
  <2> DEFINE from == IF p < i /\ i <= r THEN i - 1 ELSE IF r <= i /\ i < p THEN i + 1 ELSE i
  <2>1. /\ x.statementRankings[i] = l.statementRankings[from] /\ from \in Listed(l) \ {r}
    BY <1>1
  <2> HIDE DEF from
  <2> QED
    BY <2>1 DEF Filled
<1>3. Filled(l, S, Listed(l)) => Filled(x, S, Listed(l))
  BY <1>1, <1>2 DEF Filled
<1>4. ASSUME NEW a \in Int, NEW b \in Int, NEW d \in {-1, 1}, Shifted(l, x, a, b, d),
             \A i \in a..b : i + d \in Listed(l) \ {r} /\ i \in Ranks
      PROVE  Peaked(x) /\ Unranked(x, S) /\ PeaksKept(l, x)
  <2>1. \A i \in a..b : i \in Ranks /\ l.statementRankings[i + d] \in S
    BY <1>4 DEF Filled
  <2> QED
    BY <1>4, <2>1, ShiftKeeps
<1>5. /\ 0 <= r /\ r <= l.rankedCount - 1 /\ 0 <= p /\ p <= l.rankedCount - 1
      /\ \A i \in 0..(l.rankedCount - 1) : i \in Ranks
      /\ \A i \in Int : i \in Listed(l) <=> 0 <= i /\ i <= l.rankedCount - 1
  BY <1>1 DEF Listed
<1>6. CASE p < r /\ Shifted(l, x, p + 1, r, -1)
  <2>1. /\ \A i \in (p + 1)..r : i + (-1) \in Listed(l) \ {r} /\ i \in Ranks
        /\ p + 1 \in Int /\ -1 \in {-1, 1}
    BY <1>1, <1>5
  <2> QED
    BY <1>1, <1>2, <1>3, <1>4, <1>6, <2>1
<1>7. CASE p >= r /\ Shifted(l, x, r, p - 1, 1)
  <2>1. /\ \A i \in r..(p - 1) : i + 1 \in Listed(l) \ {r} /\ i \in Ranks
        /\ p - 1 \in Int /\ 1 \in {-1, 1}
    BY <1>1, <1>5
  <2> QED
    BY <1>1, <1>2, <1>3, <1>4, <1>7, <2>1
<1> QED
  BY <1>6, <1>7 DEF Opened

(* If list and ranks agreed but for the hole, they do. *)
LEMMA OpenedHole ==
  ASSUME NEW l \in RankingType, NEW r \in Listed(l), NEW p \in Listed(l), NEW x,
         Opened(l, x, r, p), NEW s \in StatementIds, Hole(l, s, r)
  PROVE  Hole(x, s, p)
<1> DEFINE from(i) == IF p < i /\ i <= r THEN i - 1 ELSE IF r <= i /\ i < p THEN i + 1 ELSE i
<1>1. /\ x \in RankingType /\ x.rankedCount = l.rankedCount /\ Listed(x) = Listed(l)
      /\ \A i \in Ranks \ {p} :
           /\ x.statementRankings[i] = l.statementRankings[from(i)]
           /\ i \in Listed(l) => from(i) \in Listed(l) \ {r}
      /\ r \in Int /\ p \in Int /\ l.rankedCount \in Int /\ Listed(l) \subseteq Ranks
      /\ Ranks \subseteq Int /\ \A i \in Ranks : i \in Int
  BY OpenedIs DEF Listed
<1>2. /\ \A i \in Listed(l) \ {r} :
           l.statementRankings[i] # s /\ l.rank[l.statementRankings[i]] = i
      /\ \A t \in StatementIds \ {s} :
           l.rank[t] # -1 =>
             l.rank[t] \in Listed(l) \ {r} /\ l.statementRankings[l.rank[t]] = t
      /\ \A i \in Ranks : l.statementRankings[i] \in StatementIds
  BY RankingIs DEF Hole
<1>3. \A i \in Int : i \in Listed(l) <=> 0 <= i /\ i <= l.rankedCount - 1
  BY <1>1 DEF Listed
<1>4. ASSUME NEW i \in Listed(l) \ {p}, NEW t, t = x.statementRankings[i]
      PROVE  t \in StatementIds \ {s} /\ l.rank[t] = from(i)
  <2>1. t = l.statementRankings[from(i)] /\ from(i) \in Listed(l) \ {r}
    BY <1>1, <1>4
  <2> HIDE DEF from
  <2> QED
    BY <1>1, <1>2, <2>1
\* Every statement but s: where it was, and where it is.
<1>5. ASSUME NEW t \in StatementIds \ {s}
      PROVE  \/ l.rank[t] = -1 /\ x.rank[t] = -1
             \/ /\ l.rank[t] \in Listed(l) \ {r} /\ x.rank[t] \in Listed(l) \ {p}
                /\ l.rank[t] = from(x.rank[t])
                /\ x.statementRankings[x.rank[t]] = t
  <2>1. /\ l.rank[t] # -1 =>
             l.rank[t] \in Listed(l) \ {r} /\ l.statementRankings[l.rank[t]] = t
        /\ \A i \in Listed(l) \ {r} : l.statementRankings[i] = t => l.rank[t] = i
    BY <1>2
  <2>2. CASE p < r /\ Shifted(l, x, p + 1, r, -1)
    <3>1. CASE /\ \A i \in (p + 1)..r : l.statementRankings[i + (-1)] # t
               /\ x.rank[t] = l.rank[t]
      <4>1. CASE l.rank[t] # -1
        <5> DEFINE k == l.rank[t]
        <5>1. k \in Listed(l) \ {r} /\ l.statementRankings[k] = t /\ k \in Int /\ k \in Ranks
          BY <1>1, <2>1, <4>1
        <5>2. ~(p <= k /\ k <= r - 1)
          <6> SUFFICES ASSUME p <= k, k <= r - 1 PROVE FALSE
            OBVIOUS
          <6>1. k + 1 \in (p + 1)..r /\ (k + 1) + (-1) = k
            BY <1>1, <5>1
          <6> HIDE DEF k
          <6> QED
            BY <3>1, <5>1, <6>1
        <5>3. k # p /\ from(k) = k
          BY <1>1, <2>2, <5>1, <5>2
        <5>4. x.statementRankings[k] = t
          BY <1>1, <5>1, <5>3
        <5> QED
          BY <3>1, <5>1, <5>3, <5>4
      <4> QED
        BY <3>1, <4>1
    <3>2. CASE \E i \in (p + 1)..r : l.statementRankings[i + (-1)] = t /\ x.rank[t] = i
      <4>1. PICK i \in (p + 1)..r : l.statementRankings[i + (-1)] = t /\ x.rank[t] = i
        BY <3>2
      <4>2. /\ i \in Int /\ i + (-1) = i - 1 /\ i # p /\ from(i) = i - 1
            /\ 0 <= p /\ r <= l.rankedCount - 1 /\ p < i /\ i <= r
        BY <1>1, <1>3, <2>2
      <4>3. i \in Listed(l) \ {p} /\ i - 1 \in Listed(l) \ {r}
        BY <1>1, <1>3, <4>2
      <4>4. l.rank[t] = i - 1 /\ x.statementRankings[i] = t
        BY <1>1, <2>1, <4>1, <4>2, <4>3
      <4> QED
        BY <4>1, <4>2, <4>3, <4>4
    <3> QED
      BY <2>2, <3>1, <3>2 DEF Shifted
  <2>3. CASE p >= r /\ Shifted(l, x, r, p - 1, 1)
    <3>1. CASE /\ \A i \in r..(p - 1) : l.statementRankings[i + 1] # t
               /\ x.rank[t] = l.rank[t]
      <4>1. CASE l.rank[t] # -1
        <5> DEFINE k == l.rank[t]
        <5>1. k \in Listed(l) \ {r} /\ l.statementRankings[k] = t /\ k \in Int /\ k \in Ranks
          BY <1>1, <2>1, <4>1
        <5>2. ~(r < k /\ k <= p)
          <6> SUFFICES ASSUME r < k, k <= p PROVE FALSE
            OBVIOUS
          <6>1. k - 1 \in r..(p - 1) /\ (k - 1) + 1 = k
            BY <1>1, <5>1
          <6> HIDE DEF k
          <6> QED
            BY <3>1, <5>1, <6>1
        <5>3. k # p /\ from(k) = k
          BY <1>1, <2>3, <5>1, <5>2
        <5>4. x.statementRankings[k] = t
          BY <1>1, <5>1, <5>3
        <5> QED
          BY <3>1, <5>1, <5>3, <5>4
      <4> QED
        BY <3>1, <4>1
    <3>2. CASE \E i \in r..(p - 1) : l.statementRankings[i + 1] = t /\ x.rank[t] = i
      <4>1. PICK i \in r..(p - 1) : l.statementRankings[i + 1] = t /\ x.rank[t] = i
        BY <3>2
      <4>2. /\ i \in Int /\ i # p /\ from(i) = i + 1
            /\ 0 <= r /\ p <= l.rankedCount - 1 /\ r <= i /\ i < p
        BY <1>1, <1>3, <2>3
      <4>3. i \in Listed(l) \ {p} /\ i + 1 \in Listed(l) \ {r}
        BY <1>1, <1>3, <4>2
      <4>4. l.rank[t] = i + 1 /\ x.statementRankings[i] = t
        BY <1>1, <2>1, <4>1, <4>2, <4>3
      <4> QED
        BY <4>1, <4>2, <4>3, <4>4
    <3> QED
      BY <2>3, <3>1, <3>2 DEF Shifted
  <2> QED
    BY <2>2, <2>3 DEF Opened
<1>6. \A i, j \in Listed(l) \ {p} : from(i) = from(j) => i = j
  BY <1>1, <1>3
<1>7. -1 \notin Listed(l)
  BY <1>3
<1>8. ASSUME NEW i \in Listed(l) \ {p}
      PROVE  x.statementRankings[i] # s /\ x.rank[x.statementRankings[i]] = i
  <2> DEFINE t == x.statementRankings[i]
  <2>1. t \in StatementIds \ {s} /\ l.rank[t] = from(i) /\ from(i) \in Listed(l)
    BY <1>1, <1>4
  <2> HIDE DEF t, from
  <2>2. x.rank[t] \in Listed(l) \ {p} /\ from(i) = from(x.rank[t])
    BY <1>5, <1>7, <2>1
  <2>3. x.rank[t] = i
    BY <1>6, <2>2
  <2> QED
    BY <2>1, <2>3 DEF t
<1>9. \A t \in StatementIds \ {s} :
        x.rank[t] # -1 => x.rank[t] \in Listed(l) \ {p} /\ x.statementRankings[x.rank[t]] = t
  BY <1>5
<1> QED
  BY <1>1, <1>8, <1>9 DEF Hole

(* Whether s fits at p, between the others. *)
Between(l, cur, p, v) ==
  \A i \in Listed(l) \ {p} :
    /\ i < p => cur[l.statementRankings[i]] >= v
    /\ i > p => cur[l.statementRankings[i]] <= v

(* The others stay sorted. *)
LEMMA OpenedSorted ==
  ASSUME NEW l \in RankingType, NEW r \in Listed(l), NEW p \in Listed(l), NEW x,
         Opened(l, x, r, p), NEW cur \in Currents, SortedOver(l, cur, Listed(l) \ {r})
  PROVE  SortedOver(x, cur, Listed(l) \ {p})
<1> DEFINE from(i) == IF p < i /\ i <= r THEN i - 1 ELSE IF r <= i /\ i < p THEN i + 1 ELSE i
<1>1. /\ \A i \in Listed(l) \ {p} :
           /\ x.statementRankings[i] = l.statementRankings[from(i)]
           /\ from(i) \in Listed(l) \ {r} /\ i \in Int
      /\ r \in Int /\ p \in Int
  BY OpenedIs
<1>2. \A i, j \in Listed(l) \ {p} : i < j => from(i) < from(j)
  BY <1>1
<1> HIDE DEF from
<1> QED
  BY <1>1, <1>2 DEF SortedOver

(* Both loops stop where s fits between the others. *)
LEMMA OpenedBetween ==
  ASSUME NEW l \in RankingType, NEW cur \in Currents, NEW v \in Int, NEW r \in Listed(l),
         NEW p, p = IF RiseTo(l, cur, r, v) < r THEN RiseTo(l, cur, r, v)
                    ELSE SinkTo(l, cur, r, v),
         NEW x, Opened(l, x, r, p), SortedOver(l, cur, Listed(l) \ {r})
  PROVE  Between(x, cur, p, v)
<1> DEFINE top == RiseTo(l, cur, r, v)
           bottom == SinkTo(l, cur, r, v)
           n == l.rankedCount - 1
           c(i) == cur[l.statementRankings[i]]
           from(i) == IF p < i /\ i <= r THEN i - 1 ELSE IF r <= i /\ i < p THEN i + 1 ELSE i
<1>1. r \in Ranks /\ n \in Int /\ r \in Int /\ 0 <= r /\ r <= n
      /\ \A i \in Int : i \in Listed(l) <=> 0 <= i /\ i <= n
  BY RankingIs DEF Listed
<1>2. /\ top \in 0..r
      /\ \A i \in top..(r - 1) : v > c(i)
      /\ top > 0 => c(top - 1) >= v
  BY <1>1, RiseIs
<1>3. /\ bottom \in r..n
      /\ \A i \in (r + 1)..bottom : v < c(i)
      /\ bottom < n => c(bottom + 1) <= v
  BY SinkIs
<1>4. \A i \in Listed(l) : c(i) \in Int /\ i \in Int
  BY RankingIs DEF Currents
<1>5. p = IF top < r THEN top ELSE bottom
  OBVIOUS
<1>6. \A i, j \in Listed(l) \ {r} : i < j => c(i) >= c(j)
  BY DEF SortedOver
<1> HIDE DEF top, bottom, c, n
<1>7. p \in Listed(l) /\ p \in Int
  BY <1>1, <1>2, <1>3, <1>5
<1>8. /\ x.rankedCount = l.rankedCount
      /\ \A i \in Listed(l) \ {p} :
           /\ x.statementRankings[i] = l.statementRankings[from(i)]
           /\ from(i) \in Listed(l) \ {r}
  <2>1. p \in Listed(l) /\ r \in Listed(l) /\ Opened(l, x, r, p)
    BY <1>7
  <2>2. /\ x.rankedCount = l.rankedCount /\ Listed(l) \subseteq Ranks
        /\ \A i \in Ranks \ {p} :
             /\ x.statementRankings[i] = l.statementRankings[from(i)]
             /\ i \in Listed(l) => from(i) \in Listed(l) \ {r}
    BY <2>1, OpenedIs
  <2> HIDE DEF from
  <2> QED
    BY <2>2
\* What is before and after the hole, in the places of l.
<1>9. \A k \in Listed(l) \ {r} :
        /\ (IF top < r THEN k < top ELSE k <= bottom) => c(k) >= v
        /\ (IF top < r THEN k >= top ELSE k > bottom) => c(k) <= v
  <2> SUFFICES ASSUME NEW k \in Listed(l) \ {r}
               PROVE  /\ (IF top < r THEN k < top ELSE k <= bottom) => c(k) >= v
                      /\ (IF top < r THEN k >= top ELSE k > bottom) => c(k) <= v
    OBVIOUS
  <2>1. k \in Int /\ 0 <= k /\ k <= n /\ c(k) \in Int
    BY <1>1, <1>4
  <2>2. CASE top < r
    <3>1. k < top => c(k) >= v
      <4> SUFFICES ASSUME k < top PROVE c(k) >= v
        OBVIOUS
      <4>1. top - 1 \in Listed(l) \ {r} /\ c(top - 1) >= v /\ c(top - 1) \in Int
        BY <1>1, <1>2, <1>4, <2>1, <2>2
      <4>2. k = top - 1 \/ c(k) >= c(top - 1)
        BY <1>2, <1>6, <2>1, <4>1
      <4>3. CASE k = top - 1
        BY <4>1, <4>3
      <4>4. CASE c(k) >= c(top - 1)
        BY <2>1, <4>1, <4>4
      <4> QED
        BY <4>2, <4>3, <4>4
    <3>2. k >= top => c(k) <= v
      <4> SUFFICES ASSUME k >= top PROVE c(k) <= v
        OBVIOUS
      <4>1. r - 1 \in Listed(l) \ {r} /\ c(r - 1) < v /\ c(r - 1) \in Int
        BY <1>1, <1>2, <1>4, <2>2
      <4>2. k < r => c(k) < v
        BY <1>1, <1>2, <2>1
      <4>3. k > r => c(r - 1) >= c(k)
        BY <1>1, <1>6, <2>1, <4>1
      <4> QED
        BY <1>1, <2>1, <4>1, <4>2, <4>3
    <3> QED
      BY <2>2, <3>1, <3>2
  <2>3. CASE ~(top < r)
    <3>1. k <= bottom => c(k) >= v
      <4>1. k > r /\ k <= bottom => c(k) > v
        BY <1>1, <1>3, <2>1
      <4>2. k < r => c(k) >= v
        <5> SUFFICES ASSUME k < r PROVE c(k) >= v
          OBVIOUS
        <5>1. r - 1 \in Listed(l) \ {r} /\ c(r - 1) >= v /\ c(r - 1) \in Int
          BY <1>1, <1>2, <1>4, <2>1, <2>3
        <5>2. k = r - 1 \/ c(k) >= c(r - 1)
          BY <1>1, <1>6, <2>1, <5>1
        <5> QED
          BY <2>1, <5>1, <5>2
      <4> QED
        BY <1>1, <2>1, <4>1, <4>2
    <3>2. k > bottom => c(k) <= v
      <4> SUFFICES ASSUME k > bottom PROVE c(k) <= v
        OBVIOUS
      <4>1. bottom + 1 \in Listed(l) \ {r} /\ c(bottom + 1) <= v /\ c(bottom + 1) \in Int
        BY <1>1, <1>3, <1>4, <2>1
      <4>2. k = bottom + 1 \/ c(bottom + 1) >= c(k)
        BY <1>1, <1>3, <1>6, <2>1, <4>1
      <4> QED
        BY <2>1, <4>1, <4>2
    <3> QED
      BY <2>3, <3>1, <3>2
  <2> QED
    BY <2>2, <2>3
<1>10. ASSUME NEW i \in Listed(l) \ {p}
       PROVE  /\ i < p => cur[x.statementRankings[i]] >= v
              /\ i > p => cur[x.statementRankings[i]] <= v
  <2>1. i \in Int /\ from(i) \in Listed(l) \ {r}
        /\ cur[x.statementRankings[i]] = c(from(i))
    BY <1>4, <1>8 DEF c
  <2>2. /\ i < p => IF top < r THEN from(i) < top ELSE from(i) <= bottom
        /\ i > p => IF top < r THEN from(i) >= top ELSE from(i) > bottom
    BY <1>1, <1>2, <1>3, <1>5, <2>1
  <2> HIDE DEF from
  <2> QED
    BY <1>9, <2>1, <2>2
<1> QED
  BY <1>8, <1>10 DEF Between, Listed

(* s takes the place that is open, *)
LEMMA PlacedSettled ==
  ASSUME NEW x \in RankingType, NEW s \in StatementIds, NEW p, Hole(x, s, p),
         NEW cur \in Currents
  PROVE  LET m == SetStatementRank([x EXCEPT !.statementRankings[p] = s], s, p)
         IN  /\ Consistent(m) /\ m.rank[s] = p /\ m.rankedCount = x.rankedCount
             /\ SortedOver(x, cur, Listed(x) \ {p}) /\ Between(x, cur, p, cur[s]) =>
                  SortedOver(m, cur, Listed(m))
<1> DEFINE y == [x EXCEPT !.statementRankings[p] = s]
           m == SetStatementRank(y, s, p)
<1>1. p \in Listed(x) /\ p \in Ranks /\ Listed(x) \subseteq Ranks /\ \A i \in Ranks : i \in Int
  BY RankingIs DEF Hole
<1>2. /\ y \in RankingType /\ y.rankedCount = x.rankedCount /\ y.rank = x.rank
      /\ y.statementRankings[p] = s
      /\ \A i \in Ranks \ {p} : y.statementRankings[i] = x.statementRankings[i]
  BY <1>1 DEF RankingType
<1> HIDE DEF y
<1>3. /\ m.rankedCount = x.rankedCount /\ Listed(m) = Listed(x)
      /\ m.statementRankings[p] = s
      /\ \A i \in Listed(x) \ {p} : m.statementRankings[i] = x.statementRankings[i]
      /\ m.rank[s] = p /\ \A t \in StatementIds \ {s} : m.rank[t] = x.rank[t]
  BY <1>1, <1>2, SetRankIs DEF Listed
<1> HIDE DEF m
<1>4. /\ \A i \in Listed(x) \ {p} :
           /\ x.statementRankings[i] # s /\ x.rank[x.statementRankings[i]] = i
           /\ x.statementRankings[i] \in StatementIds
      /\ \A t \in StatementIds \ {s} :
           x.rank[t] # -1 =>
             x.rank[t] \in Listed(x) \ {p} /\ x.statementRankings[x.rank[t]] = t
  BY <1>1, RankingIs DEF Hole
<1>5. Consistent(m)
  BY <1>1, <1>3, <1>4 DEF Consistent
<1>6. ASSUME SortedOver(x, cur, Listed(x) \ {p}), Between(x, cur, p, cur[s])
      PROVE  SortedOver(m, cur, Listed(m))
  <2> SUFFICES ASSUME NEW i \in Listed(x), NEW j \in Listed(x), i < j
               PROVE  cur[m.statementRankings[i]] >= cur[m.statementRankings[j]]
    BY <1>3 DEF SortedOver
  <2>1. CASE i # p /\ j # p
    BY <1>3, <1>6, <2>1 DEF SortedOver
  <2>2. CASE i = p
    BY <1>1, <1>3, <1>4, <1>6, <2>2 DEF Between, Currents
  <2>3. CASE j = p
    BY <1>1, <1>3, <1>4, <1>6, <2>3 DEF Between, Currents
  <2> QED
    BY <2>1, <2>2, <2>3
<1> QED
  BY <1>3, <1>5, <1>6 DEF m, y

(* or the last place, which is open, is given up. *)
LEMMA DroppedSettled ==
  ASSUME NEW x \in RankingType, NEW s \in StatementIds, Hole(x, s, x.rankedCount - 1),
         NEW cur \in Currents, SortedOver(x, cur, Listed(x) \ {x.rankedCount - 1})
  PROVE  LET m == SetStatementRank([x EXCEPT !.rankedCount = @ - 1], s, -1)
         IN  Consistent(m) /\ SortedOver(m, cur, Listed(m))
<1> DEFINE p == x.rankedCount - 1
           y == [x EXCEPT !.rankedCount = p]
           m == SetStatementRank(y, s, -1)
<1>1. p \in Listed(x) /\ p \in Ranks /\ Listed(x) \subseteq Ranks /\ \A i \in Ranks : i \in Int
  BY RankingIs DEF Hole
<1>2. p \in 0..maxRankedStatements
  BY <1>1, RankingAssumption DEF Ranks
<1>3. /\ y \in RankingType /\ y.rankedCount = p /\ y.rank = x.rank
      /\ y.statementRankings = x.statementRankings
  BY <1>2 DEF RankingType
<1> HIDE DEF y
<1>4. /\ m.rankedCount = p /\ m.statementRankings = x.statementRankings
      /\ m.rank[s] = -1 /\ \A t \in StatementIds \ {s} : m.rank[t] = x.rank[t]
  BY <1>3, SetRankIs
<1>5. Listed(m) = Listed(x) \ {p}
  <2>1. Listed(m) = 0..(p - 1) /\ Listed(x) = 0..p
    BY <1>1, <1>4, RankingIs DEF Listed
  <2> QED
    BY <1>1, <2>1
<1> HIDE DEF m
<1>6. /\ \A i \in Listed(x) \ {p} :
           /\ x.statementRankings[i] # s /\ x.rank[x.statementRankings[i]] = i
           /\ x.statementRankings[i] \in StatementIds
      /\ \A t \in StatementIds \ {s} :
           x.rank[t] # -1 =>
             x.rank[t] \in Listed(x) \ {p} /\ x.statementRankings[x.rank[t]] = t
  BY <1>1, RankingIs DEF Hole
<1>7. Consistent(m)
  BY <1>4, <1>5, <1>6 DEF Consistent
<1>8. SortedOver(m, cur, Listed(m))
  BY <1>4, <1>5 DEF SortedOver
<1> QED
  BY <1>7, <1>8 DEF m, y

-----------------------------------------------------------------------------
(* _updateStatementRanking moves s from r to p, the hole with it. *)
LEMMA ResettleIs ==
  ASSUME NEW l \in RankingType, NEW cur \in Currents, NEW s \in StatementIds,
         NEW r \in Listed(l)
  PROVE  \E p \in Listed(l) : \E x \in RankingType :
           /\ p = IF RiseTo(l, cur, r, cur[s]) < r THEN RiseTo(l, cur, r, cur[s])
                  ELSE SinkTo(l, cur, r, cur[s])
           /\ Opened(l, x, r, p) /\ x.rankedCount = l.rankedCount
           /\ Resettle(l, cur, s, r) =
                IF cur[s] < minStatementSupportToRank
                THEN SetStatementRank([x EXCEPT !.rankedCount = @ - 1], s, -1)
                ELSE SetStatementRank([x EXCEPT !.statementRankings[p] = s], s, p)
<1> DEFINE top == RiseTo(l, cur, r, cur[s])
           bottom == SinkTo(l, cur, r, cur[s])
           p == IF top < r THEN top ELSE bottom
           x == IF top < r THEN ShiftDown(l, top, r) ELSE ShiftUp(l, r, bottom)
<1>1. /\ cur[s] \in Int /\ r \in Ranks /\ r \in Int /\ l.rankedCount \in Int
      /\ Listed(l) \subseteq Ranks
      /\ \A i \in Int : i \in Listed(l) <=> 0 <= i /\ i <= l.rankedCount - 1
  BY RankingIs DEF Currents, Listed
<1>2. top \in 0..r
  BY <1>1, RiseIs
<1>3. bottom \in r..(l.rankedCount - 1)
  BY <1>1, SinkIs
<1>4. Resettle(l, cur, s, r) =
        IF cur[s] < minStatementSupportToRank
        THEN SetStatementRank([x EXCEPT !.rankedCount = @ - 1], s, -1)
        ELSE SetStatementRank([x EXCEPT !.statementRankings[p] = s], s, p)
  BY DEF Resettle
<1> HIDE DEF top, bottom
<1>5. p \in Listed(l)
  BY <1>1, <1>2, <1>3
<1>6. Opened(l, x, r, p)
  <2>1. CASE top < r
    <3>1. Shifted(l, ShiftDown(l, top, r), top + 1, r, -1)
      BY <1>1, <1>2, <2>1, ShiftDownIs
    <3> QED
      BY <2>1, <3>1 DEF Opened
  <2>2. CASE ~(top < r)
    <3>1. bottom \in Ranks /\ r \in 0..bottom /\ bottom >= r
      BY <1>1, <1>3
    <3>2. Shifted(l, ShiftUp(l, r, bottom), r, bottom - 1, 1)
      BY <3>1, ShiftUpIs
    <3> QED
      BY <2>2, <3>1, <3>2 DEF Opened
  <2> QED
    BY <2>1, <2>2
<1>7. p = IF RiseTo(l, cur, r, cur[s]) < r THEN RiseTo(l, cur, r, cur[s])
          ELSE SinkTo(l, cur, r, cur[s])
  BY DEF top, bottom
<1> HIDE DEF p, x
<1>8. x \in RankingType /\ x.rankedCount = l.rankedCount
  BY <1>5, <1>6, OpenedIs
<1> QED
  BY <1>4, <1>5, <1>6, <1>7, <1>8

(* A peak only improves. *)
LEMMA PeaksKeptAgain ==
  ASSUME NEW l, NEW m, NEW n, l \in RankingType, m \in RankingType, n \in RankingType,
         PeaksKept(l, m), PeaksKept(m, n)
  PROVE  PeaksKept(l, n)
<1> SUFFICES ASSUME NEW s \in StatementIds, l.peakRank[s] # -1
             PROVE  n.peakRank[s] \in 0..l.peakRank[s]
  BY DEF PeaksKept
<1>1. /\ l.peakRank[s] \in Int /\ m.peakRank[s] \in Int /\ n.peakRank[s] \in Int
  BY RankingIs
<1>2. m.peakRank[s] \in 0..l.peakRank[s]
  BY DEF PeaksKept
<1>3. n.peakRank[s] \in 0..m.peakRank[s]
  BY <1>1, <1>2 DEF PeaksKept
<1> QED
  BY <1>1, <1>2, <1>3

(* Peaks that do not change are kept. *)
LEMMA PeaksStay ==
  ASSUME NEW l \in RankingType, NEW m, m.peakRank = l.peakRank
  PROVE  PeaksKept(l, m)
<1>1. \A s \in StatementIds : l.peakRank[s] \in Int /\ l.peakRank[s] >= -1
  BY RankingIs
<1> QED
  BY <1>1 DEF PeaksKept

(* Whatever the order of the list, what is moved stays sound. *)
LEMMA ResettleSound ==
  ASSUME NEW l \in RankingType, NEW cur \in Currents, NEW S \in SUBSET StatementIds,
         NEW s \in S, NEW r \in Listed(l), Peaked(l), Unranked(l, S),
         Filled(l, S, Listed(l) \ {r}),
         cur[s] < minStatementSupportToRank => Filled(l, S, Listed(l))
  PROVE  Sound(Resettle(l, cur, s, r), S) /\ PeaksKept(l, Resettle(l, cur, s, r))
<1> DEFINE m == Resettle(l, cur, s, r)
<1>1. s \in StatementIds /\ cur[s] \in Int /\ minStatementSupportToRank \in Int
  BY RankingAssumption DEF Currents
<1>2. PICK p \in Listed(l), x \in RankingType :
        /\ p = IF RiseTo(l, cur, r, cur[s]) < r THEN RiseTo(l, cur, r, cur[s])
               ELSE SinkTo(l, cur, r, cur[s])
        /\ Opened(l, x, r, p) /\ x.rankedCount = l.rankedCount
        /\ m = IF cur[s] < minStatementSupportToRank
               THEN SetStatementRank([x EXCEPT !.rankedCount = @ - 1], s, -1)
               ELSE SetStatementRank([x EXCEPT !.statementRankings[p] = s], s, p)
  BY <1>1, ResettleIs
<1> HIDE DEF m
<1>3. /\ Peaked(x) /\ Unranked(x, S) /\ PeaksKept(l, x)
      /\ Filled(x, S, Listed(l) \ {p})
      /\ Filled(l, S, Listed(l)) => Filled(x, S, Listed(l))
  BY <1>2, OpenedSound
<1>4. /\ p \in Ranks /\ p \in Int /\ p >= 0 /\ Listed(l) \subseteq Ranks /\ Listed(x) = Listed(l)
      /\ x.rankedCount \in Int /\ x.rankedCount >= 1
      /\ x.rankedCount <= maxRankedStatements
  <2>1. p \in Listed(l) /\ Listed(l) \subseteq Ranks /\ Ranks \subseteq Int
        /\ x.rankedCount \in Int /\ x.rankedCount <= maxRankedStatements
    BY RankingIs
  <2> QED
    BY <1>2, <2>1 DEF Listed
<1>5. \A t \in StatementIds : /\ x.peakRank[t] \in Int /\ x.peakRank[t] >= -1
                              /\ x.rank[t] # -1 => x.peakRank[t] \in 0..x.rank[t]
  BY <1>3, RankingIs DEF Peaked
<1>6. CASE cur[s] < minStatementSupportToRank
  <2> DEFINE y == [x EXCEPT !.rankedCount = @ - 1]
  <2>1. /\ y \in RankingType /\ y.statementRankings = x.statementRankings
        /\ y.rankedCount = x.rankedCount - 1 /\ y.rank = x.rank /\ y.peakRank = x.peakRank
    <3>1. x.rankedCount - 1 \in 0..maxRankedStatements
      BY <1>4, RankingAssumption
    <3> QED
      BY <3>1 DEF RankingType
  <2> HIDE DEF y
  <2>2. m = SetStatementRank(y, s, -1)
    BY <1>2, <1>6 DEF y
  <2>3. /\ m \in RankingType /\ m.rankedCount = x.rankedCount - 1
        /\ m.statementRankings = x.statementRankings
        /\ m.rank[s] = -1 /\ m.peakRank[s] = x.peakRank[s]
        /\ \A t \in StatementIds \ {s} :
             m.rank[t] = x.rank[t] /\ m.peakRank[t] = x.peakRank[t]
    <3>1. ~(-1 >= 0)
      OBVIOUS
    <3> QED
      BY <1>1, <2>1, <2>2, <3>1, SetRankIs
  <2>4. Listed(m) \subseteq Listed(l)
    BY <1>2, <1>4, <2>3 DEF Listed
  <2>5. Filled(m, S, Listed(m))
    BY <1>3, <1>6, <2>3, <2>4 DEF Filled
  <2>6. Peaked(m) /\ Unranked(m, S)
    BY <1>1, <1>3, <2>3 DEF Peaked, Unranked
  <2>7. PeaksKept(x, m)
    BY <1>1, <1>5, <2>3 DEF PeaksKept
  <2>8. PeaksKept(l, m)
    BY <1>3, <2>3, <2>7, PeaksKeptAgain
  <2> QED
    BY <2>3, <2>5, <2>6, <2>8 DEF Sound, m
<1>7. CASE ~(cur[s] < minStatementSupportToRank)
  <2> DEFINE y == [x EXCEPT !.statementRankings[p] = s]
  <2>1. /\ y \in RankingType /\ y.rankedCount = x.rankedCount
        /\ y.rank = x.rank /\ y.peakRank = x.peakRank
        /\ y.statementRankings[p] = s
        /\ \A i \in Ranks \ {p} : y.statementRankings[i] = x.statementRankings[i]
    BY <1>1, <1>4 DEF RankingType
  <2> HIDE DEF y
  <2>2. m = SetStatementRank(y, s, p)
    BY <1>2, <1>7 DEF y
  <2>3. /\ m \in RankingType /\ m.rankedCount = x.rankedCount
        /\ m.statementRankings = y.statementRankings
        /\ m.rank[s] = p /\ m.peakRank[s] = BetterRank(x.peakRank[s], p)
        /\ \A t \in StatementIds \ {s} :
             m.rank[t] = x.rank[t] /\ m.peakRank[t] = x.peakRank[t]
    BY <1>1, <1>4, <2>1, <2>2, SetRankIs
  <2>4. Listed(m) = Listed(l)
    BY <1>2, <2>3 DEF Listed
  <2>5. Filled(m, S, Listed(m))
    BY <1>3, <1>4, <2>1, <2>3, <2>4 DEF Filled
  <2>6. m.peakRank[s] \in 0..p /\ (x.peakRank[s] # -1 => m.peakRank[s] \in 0..x.peakRank[s])
    BY <1>1, <1>4, <1>5, <2>3 DEF BetterRank
  <2>7. Peaked(m) /\ Unranked(m, S)
    BY <1>1, <1>3, <2>3, <2>6 DEF Peaked, Unranked
  <2>8. PeaksKept(x, m)
    BY <1>1, <1>5, <2>3, <2>6 DEF PeaksKept
  <2>9. PeaksKept(l, m)
    BY <1>3, <2>3, <2>8, PeaksKeptAgain
  <2> QED
    BY <2>3, <2>5, <2>7, <2>9 DEF Sound, m
<1> QED
  BY <1>6, <1>7

(* On a sorted list whose entries agree with the ranks but for the place of *)
(* s, the loop finds the place that s belongs to; a statement below the bar *)
(* reaches the end of a list of strong ones, which is then cut.             *)
LEMMA ResettleSorted ==
  ASSUME NEW l \in RankingType, NEW cur \in Currents, NEW s \in StatementIds,
         NEW r \in Listed(l), Hole(l, s, r), SortedOver(l, cur, Listed(l) \ {r}),
         cur[s] < minStatementSupportToRank => Strong(l, cur, Listed(l) \ {r})
  PROVE  LET m == Resettle(l, cur, s, r)
         IN  /\ Consistent(m) /\ SortedOver(m, cur, Listed(m))
             /\ cur[s] >= minStatementSupportToRank => m.rank[s] # -1
<1> DEFINE m == Resettle(l, cur, s, r)
           v == cur[s]
           top == RiseTo(l, cur, r, v)
           bottom == SinkTo(l, cur, r, v)
           n == l.rankedCount - 1
<1>1. /\ v \in Int /\ r \in Ranks /\ r \in Int /\ l.rankedCount \in Int /\ n \in Int
      /\ Listed(l) \subseteq Ranks /\ Ranks \subseteq Int /\ -1 \notin Ranks
      /\ minStatementSupportToRank \in Int
      /\ \A i \in Int : i \in Listed(l) <=> 0 <= i /\ i <= n
      /\ \A i \in Listed(l) : cur[l.statementRankings[i]] \in Int
  BY RankingIs, RankingAssumption DEF Currents, Listed, Ranks
<1>2. PICK p \in Listed(l), x \in RankingType :
        /\ p = IF top < r THEN top ELSE bottom
        /\ Opened(l, x, r, p) /\ x.rankedCount = l.rankedCount
        /\ m = IF v < minStatementSupportToRank
               THEN SetStatementRank([x EXCEPT !.rankedCount = @ - 1], s, -1)
               ELSE SetStatementRank([x EXCEPT !.statementRankings[p] = s], s, p)
  BY ResettleIs
<1> HIDE DEF m
<1>3. Hole(x, s, p) /\ Listed(x) = Listed(l)
  BY <1>2, OpenedHole DEF Listed
<1>4. SortedOver(x, cur, Listed(x) \ {p})
  BY <1>2, <1>3, OpenedSorted
<1>5. CASE v < minStatementSupportToRank
  <2>1. \A i \in Listed(l) \ {r} : cur[l.statementRankings[i]] > v
    BY <1>1, <1>5 DEF Strong
  <2>2. top \in 0..r /\ \A i \in top..(r - 1) : v > cur[l.statementRankings[i]]
    BY <1>1, RiseIs
  <2>3. bottom \in r..n /\ (bottom < n => cur[l.statementRankings[bottom + 1]] <= v)
    BY <1>1, SinkIs
  <2> HIDE DEF top, bottom, v, n
  <2>4. ~(top < r)
    <3> SUFFICES ASSUME top < r PROVE FALSE
      OBVIOUS
    <3>1. top \in Listed(l) \ {r} /\ top \in top..(r - 1)
      BY <1>1, <2>2
    <3>2. v > cur[l.statementRankings[top]] /\ cur[l.statementRankings[top]] > v
          /\ cur[l.statementRankings[top]] \in Int
      BY <1>1, <2>1, <2>2, <3>1
    <3> QED
      BY <1>1, <3>2
  <2>5. ~(bottom < n)
    <3> SUFFICES ASSUME bottom < n PROVE FALSE
      OBVIOUS
    <3>1. bottom + 1 \in Listed(l) \ {r}
      BY <1>1, <2>3
    <3>2. v >= cur[l.statementRankings[bottom + 1]] /\ cur[l.statementRankings[bottom + 1]] > v
          /\ cur[l.statementRankings[bottom + 1]] \in Int
      BY <1>1, <2>1, <2>3, <3>1
    <3> QED
      BY <1>1, <3>2
  <2>6. p = x.rankedCount - 1
    BY <1>1, <1>2, <2>3, <2>4, <2>5 DEF n
  <2>7. m = SetStatementRank([x EXCEPT !.rankedCount = @ - 1], s, -1)
    BY <1>2, <1>5
  <2>8. Hole(x, s, x.rankedCount - 1) /\ SortedOver(x, cur, Listed(x) \ {x.rankedCount - 1})
    BY <1>3, <1>4, <2>6
  <2>9. Consistent(m) /\ SortedOver(m, cur, Listed(m))
    BY <2>7, <2>8, DroppedSettled
  <2>10. ~(cur[s] >= minStatementSupportToRank)
    BY <1>1, <1>5 DEF v
  <2> QED
    BY <2>9, <2>10 DEF m
<1>6. CASE ~(v < minStatementSupportToRank)
  <2>1. Between(x, cur, p, v)
    <3>1. v \in Int /\ p = IF RiseTo(l, cur, r, v) < r THEN RiseTo(l, cur, r, v)
                           ELSE SinkTo(l, cur, r, v)
      BY <1>1, <1>2
    <3> HIDE DEF v
    <3> QED
      BY <1>2, <3>1, OpenedBetween
  <2>2. m = SetStatementRank([x EXCEPT !.statementRankings[p] = s], s, p)
    BY <1>2, <1>6
  <2>3. Consistent(m) /\ m.rank[s] = p /\ SortedOver(m, cur, Listed(m))
    BY <1>3, <1>4, <2>1, <2>2, PlacedSettled
  <2>4. m.rank[s] # -1
    BY <1>1, <1>2, <2>3
  <2> QED
    BY <2>3, <2>4 DEF m
<1> QED
  BY <1>5, <1>6

-----------------------------------------------------------------------------
(* _updateStatementRanking as a whole. *)
SortedBut(l, cur, s) ==
  \A i, j \in Listed(l) :
    i < j /\ l.statementRankings[i] # s /\ l.statementRankings[j] # s
      => cur[l.statementRankings[i]] >= cur[l.statementRankings[j]]

LeftOut(l, cur, s) ==
  \/ cur[s] < minStatementSupportToRank
  \/ /\ l.rankedCount = maxRankedStatements
     /\ \A r \in Listed(l) : cur[l.statementRankings[r]] >= cur[s]

(* The list that maintenance leaves. *)
LEMMA MaintainedSound ==
  ASSUME NEW l, NEW S, Sound(l, S), NEW cur \in Currents
  PROVE  LET m == RankingMaintenance(l, cur) IN Sound(m, S) /\ PeaksKept(l, m)
<1> DEFINE m == RankingMaintenance(l, cur)
<1>1. l \in RankingType /\ Peaked(l) /\ Unranked(l, S) /\ Filled(l, S, Listed(l))
  BY DEF Sound
<1>2. /\ m \in RankingType
      /\ m.statementRankings = l.statementRankings /\ m.peakRank = l.peakRank
      /\ m.rankedCount \in 0..l.rankedCount
      /\ \A s \in StatementIds : m.rank[s] = -1 \/ m.rank[s] = l.rank[s]
  BY <1>1, MaintenanceIs
<1> HIDE DEF m
<1>3. Listed(m) \subseteq Listed(l)
  BY <1>1, <1>2, RankingIs DEF Listed
<1>4. Peaked(m) /\ Unranked(m, S) /\ Filled(m, S, Listed(m))
  BY <1>1, <1>2, <1>3 DEF Peaked, Unranked, Filled
<1>5. PeaksKept(l, m)
  BY <1>1, <1>2, PeaksStay
<1> QED
  BY <1>2, <1>4, <1>5 DEF Sound, m

(* If s is weak, all the others that maintenance leaves are strong. *)
LEMMA MaintainedSorted ==
  ASSUME NEW l \in RankingType, NEW cur \in Currents, NEW s \in StatementIds,
         Consistent(l), SortedBut(l, cur, s)
  PROVE  LET m == RankingMaintenance(l, cur)
         IN  /\ Consistent(m) /\ SortedBut(m, cur, s)
             /\ cur[s] < minStatementSupportToRank =>
                  \A i \in Listed(m) :
                    m.statementRankings[i] # s =>
                      cur[m.statementRankings[i]] >= minStatementSupportToRank
<1> DEFINE m == RankingMaintenance(l, cur)
<1>1. /\ m \in RankingType /\ m.statementRankings = l.statementRankings
      /\ m.rankedCount \in 0..l.rankedCount
      /\ m.rankedCount > 0 =>
           cur[l.statementRankings[m.rankedCount - 1]] >= minStatementSupportToRank
      /\ \A t \in StatementIds :
           m.rank[t] = IF \E i \in m.rankedCount..(l.rankedCount - 1) :
                            l.statementRankings[i] = t
                       THEN -1 ELSE l.rank[t]
  BY MaintenanceIs
<1> HIDE DEF m
<1>2. /\ l.rankedCount \in Int /\ m.rankedCount \in Int
      /\ \A i \in Int : i \in Listed(l) <=> 0 <= i /\ i <= l.rankedCount - 1
      /\ \A i \in Int : i \in Listed(m) <=> 0 <= i /\ i <= m.rankedCount - 1
      /\ \A i \in Listed(l) : i \in Int /\ l.statementRankings[i] \in StatementIds
      /\ Listed(m) \subseteq Listed(l)
  BY <1>1, RankingIs DEF Listed
<1>3. \A i \in Listed(m) : m.rank[m.statementRankings[i]] = i
  <2> SUFFICES ASSUME NEW i \in Listed(m) PROVE m.rank[m.statementRankings[i]] = i
    OBVIOUS
  <2> DEFINE t == l.statementRankings[i]
  <2>1. t \in StatementIds /\ l.rank[t] = i /\ i \in Listed(l) /\ i \in Int
    BY <1>2 DEF Consistent
  <2>2. ASSUME NEW k \in m.rankedCount..(l.rankedCount - 1), l.statementRankings[k] = t
        PROVE  FALSE
    <3>1. k \in Listed(l) /\ k # i
      BY <1>1, <1>2
    <3> QED
      BY <2>1, <2>2, <3>1 DEF Consistent
  <2> HIDE DEF t
  <2>3. m.rank[t] = i
    BY <1>1, <2>1, <2>2
  <2> QED
    BY <1>1, <2>3 DEF t
<1>4. ASSUME NEW t \in StatementIds, m.rank[t] # -1
      PROVE  m.rank[t] \in Listed(m) /\ m.statementRankings[m.rank[t]] = t
  <2>1. /\ m.rank[t] = l.rank[t]
        /\ ~\E i \in m.rankedCount..(l.rankedCount - 1) : l.statementRankings[i] = t
    BY <1>1, <1>4
  <2>2. l.rank[t] \in Listed(l) /\ l.statementRankings[l.rank[t]] = t
    BY <1>4, <2>1 DEF Consistent
  <2>3. l.rank[t] \in Listed(m)
    BY <1>1, <1>2, <2>1, <2>2
  <2> QED
    BY <1>1, <2>1, <2>2, <2>3
<1>5. Consistent(m)
  BY <1>3, <1>4 DEF Consistent
<1>6. SortedBut(m, cur, s)
  BY <1>1, <1>2 DEF SortedBut
<1>7. ASSUME cur[s] < minStatementSupportToRank, NEW i \in Listed(m),
             m.statementRankings[i] # s
      PROVE  cur[m.statementRankings[i]] >= minStatementSupportToRank
  <2> DEFINE n == m.rankedCount - 1
             weight(j) == cur[m.statementRankings[j]]
  <2>1. n \in Int /\ 0 <= i /\ i <= n /\ n \in Listed(m) /\ i \in Int
    BY <1>2
  <2>2. /\ weight(n) >= minStatementSupportToRank /\ weight(n) \in Int /\ weight(i) \in Int
        /\ cur[s] \in Int /\ minStatementSupportToRank \in Int
    <3>1. m.statementRankings[n] \in StatementIds /\ m.statementRankings[i] \in StatementIds
      BY <1>1, <1>2, <2>1
    <3>2. m.rankedCount > 0
      BY <1>2, <2>1
    <3>3. weight(n) >= minStatementSupportToRank
      BY <1>1, <3>2
    <3> QED
      BY <3>1, <3>3, RankingAssumption DEF Currents
  <2>3. m.statementRankings[n] # s
    BY <1>7, <2>2
  <2>4. i = n \/ weight(i) >= weight(n)
    <3>1. i = n \/ i < n
      BY <2>1
    <3> HIDE DEF n
    <3> QED
      BY <1>6, <1>7, <2>1, <2>3, <3>1 DEF SortedBut
  <2>5. i = n => weight(i) >= minStatementSupportToRank
    BY <2>2
  <2>6. weight(i) >= weight(n) => weight(i) >= minStatementSupportToRank
    <3> HIDE DEF weight
    <3> QED
      BY <2>2
  <2> QED
    BY <2>4, <2>5, <2>6
<1>8. cur[s] < minStatementSupportToRank =>
        \A i \in Listed(m) :
          m.statementRankings[i] # s =>
            cur[m.statementRankings[i]] >= minStatementSupportToRank
  BY <1>7
<1> QED
  BY <1>5, <1>6, <1>8 DEF m

(* The list with a last place that is still empty. *)
LEMMA Lengthened ==
  ASSUME NEW l \in RankingType, l.rankedCount < maxRankedStatements
  PROVE  LET m == [l EXCEPT !.rankedCount = @ + 1]
         IN  /\ m \in RankingType /\ m.rankedCount = l.rankedCount + 1
             /\ m.rank = l.rank /\ m.peakRank = l.peakRank
             /\ m.statementRankings = l.statementRankings
             /\ l.rankedCount \in Listed(m) /\ Listed(m) \ {l.rankedCount} = Listed(l)
<1> DEFINE m == [l EXCEPT !.rankedCount = @ + 1]
<1>1. l.rankedCount \in Int /\ l.rankedCount >= 0 /\ l.rankedCount + 1 \in 0..maxRankedStatements
  BY RankingIs, RankingAssumption
<1>2. /\ m \in RankingType /\ m.rankedCount = l.rankedCount + 1
      /\ m.rank = l.rank /\ m.peakRank = l.peakRank
      /\ m.statementRankings = l.statementRankings
  BY <1>1 DEF RankingType
<1> HIDE DEF m
<1>3. l.rankedCount \in Listed(m) /\ Listed(m) \ {l.rankedCount} = Listed(l)
  <2>1. Listed(m) = 0..l.rankedCount /\ Listed(l) = 0..(l.rankedCount - 1)
    BY <1>1, <1>2 DEF Listed
  <2> QED
    BY <1>1, <2>1
<1> QED
  BY <1>2, <1>3 DEF m

(* What the four ways through _updateStatementRanking are. *)
LEMMA UpdateIs ==
  ASSUME NEW before \in RankingType, NEW cur \in Currents, NEW s \in StatementIds,
         NEW l, l = RankingMaintenance(before, cur),
         NEW m, m = UpdateStatementRanking(before, cur, s)
  PROVE  LET last == l.rankedCount - 1
         IN  \/ l.rank[s] \in Listed(l) /\ m = Resettle(l, cur, s, l.rank[s])
             \/ /\ l.rank[s] \notin Listed(l) /\ m = l
                /\ cur[s] < RankingThreshold(l, cur)
             \/ /\ l.rank[s] \notin Listed(l) /\ l.rankedCount < maxRankedStatements
                /\ cur[s] >= minStatementSupportToRank
                /\ m = Resettle([l EXCEPT !.rankedCount = @ + 1], cur, s, l.rankedCount)
             \/ /\ l.rank[s] \notin Listed(l) /\ l.rankedCount = maxRankedStatements
                /\ last \in Listed(l) /\ cur[s] >= minStatementSupportToRank
                /\ m = Resettle(SetStatementRank(l, l.statementRankings[last], -1),
                                cur, s, last)
<1> DEFINE last == l.rankedCount - 1
<1>1. /\ l \in RankingType
      /\ l.rankedCount > 0 => cur[l.statementRankings[last]] >= minStatementSupportToRank
  BY MaintenanceIs
<1>2. /\ l.rank[s] \in Int /\ l.rank[s] >= -1 /\ l.rankedCount \in Int
      /\ 0 <= l.rankedCount /\ l.rankedCount <= maxRankedStatements
      /\ maxRankedStatements \in Int /\ maxRankedStatements > 0
      /\ cur[s] \in Int /\ minStatementSupportToRank \in Int
      /\ \A i \in Int : i \in Listed(l) <=> 0 <= i /\ i <= l.rankedCount - 1
  BY <1>1, RankingIs, RankingAssumption DEF Currents, Listed
<1>3. GetStatementRank(l, s) # -1 <=> l.rank[s] \in Listed(l)
  BY <1>2 DEF GetStatementRank
<1>4. m = IF GetStatementRank(l, s) # -1
          THEN Resettle(l, cur, s, l.rank[s])
          ELSE IF cur[s] < RankingThreshold(l, cur)
          THEN l
          ELSE IF l.rankedCount < maxRankedStatements
          THEN Resettle([l EXCEPT !.rankedCount = @ + 1], cur, s, l.rankedCount)
          ELSE Resettle(SetStatementRank(l, l.statementRankings[last], -1), cur, s, last)
  BY DEF UpdateStatementRanking
<1>5. CASE GetStatementRank(l, s) # -1
  BY <1>3, <1>4, <1>5
<1>6. CASE GetStatementRank(l, s) = -1 /\ cur[s] < RankingThreshold(l, cur)
  BY <1>3, <1>4, <1>6
<1>7. CASE /\ GetStatementRank(l, s) = -1 /\ ~(cur[s] < RankingThreshold(l, cur))
           /\ l.rankedCount < maxRankedStatements
  <2>1. cur[s] >= minStatementSupportToRank
    BY <1>2, <1>7 DEF RankingThreshold
  <2> QED
    BY <1>3, <1>4, <1>7, <2>1
<1>8. CASE /\ GetStatementRank(l, s) = -1 /\ ~(cur[s] < RankingThreshold(l, cur))
           /\ ~(l.rankedCount < maxRankedStatements)
  <2>1. l.rankedCount = maxRankedStatements /\ last \in Listed(l) /\ l.rankedCount > 0
    BY <1>2, <1>8
  <2>2. cur[l.statementRankings[last]] \in Int
    BY <1>1, <2>1, RankingIs DEF Currents
  <2>3. cur[s] >= cur[l.statementRankings[last]] + 1
    BY <1>2, <1>8, <2>2 DEF RankingThreshold
  <2>4. cur[s] >= minStatementSupportToRank
    BY <1>1, <1>2, <2>1, <2>2, <2>3
  <2> QED
    BY <1>3, <1>4, <1>8, <2>1, <2>4
<1> QED
  BY <1>5, <1>6, <1>7, <1>8

(* The call keeps the list sound, in any order, *)
LEMMA UpdateSound ==
  ASSUME NEW before, NEW S \in SUBSET StatementIds, Sound(before, S),
         NEW cur \in Currents, NEW s \in S
  PROVE  LET m == UpdateStatementRanking(before, cur, s)
         IN  Sound(m, S) /\ PeaksKept(before, m)
<1> DEFINE m == UpdateStatementRanking(before, cur, s)
           l == RankingMaintenance(before, cur)
           last == l.rankedCount - 1
<1>1. before \in RankingType /\ s \in StatementIds
  BY DEF Sound
<1>2. Sound(l, S) /\ PeaksKept(before, l)
  BY MaintainedSound
<1>3. \/ l.rank[s] \in Listed(l) /\ m = Resettle(l, cur, s, l.rank[s])
      \/ m = l
      \/ /\ l.rankedCount < maxRankedStatements
         /\ cur[s] >= minStatementSupportToRank
         /\ m = Resettle([l EXCEPT !.rankedCount = @ + 1], cur, s, l.rankedCount)
      \/ /\ last \in Listed(l) /\ cur[s] >= minStatementSupportToRank
         /\ m = Resettle(SetStatementRank(l, l.statementRankings[last], -1), cur, s, last)
  BY <1>1, UpdateIs
<1> HIDE DEF m, l
<1>4. /\ l \in RankingType /\ Peaked(l) /\ Unranked(l, S) /\ Filled(l, S, Listed(l))
      /\ cur[s] \in Int /\ minStatementSupportToRank \in Int
  BY <1>1, <1>2, RankingAssumption DEF Sound, Currents
<1>5. Sound(m, S) /\ PeaksKept(l, m)
  <2>1. CASE l.rank[s] \in Listed(l) /\ m = Resettle(l, cur, s, l.rank[s])
    <3> DEFINE r == l.rank[s]
    <3>1. r \in Listed(l) /\ Filled(l, S, Listed(l) \ {r})
      BY <1>4, <2>1 DEF Filled
    <3> HIDE DEF r
    <3>2. Sound(Resettle(l, cur, s, r), S) /\ PeaksKept(l, Resettle(l, cur, s, r))
      BY <1>4, <3>1, ResettleSound
    <3> QED
      BY <2>1, <3>2 DEF r
  <2>2. CASE m = l
    BY <1>2, <1>4, <2>2, PeaksStay
  <2>3. CASE /\ l.rankedCount < maxRankedStatements
             /\ cur[s] >= minStatementSupportToRank
             /\ m = Resettle([l EXCEPT !.rankedCount = @ + 1], cur, s, l.rankedCount)
    <3> DEFINE y == [l EXCEPT !.rankedCount = @ + 1]
               r == l.rankedCount
    <3>1. /\ y \in RankingType /\ y.rank = l.rank /\ y.peakRank = l.peakRank
          /\ y.statementRankings = l.statementRankings
          /\ r \in Listed(y) /\ Listed(y) \ {r} = Listed(l)
      BY <1>4, <2>3, Lengthened
    <3>2. m = Resettle(y, cur, s, r)
      BY <2>3
    <3> HIDE DEF y, r
    <3>3. Peaked(y) /\ Unranked(y, S) /\ Filled(y, S, Listed(y) \ {r})
      BY <1>4, <3>1 DEF Peaked, Unranked, Filled
    <3>4. ~(cur[s] < minStatementSupportToRank)
      BY <1>4, <2>3
    <3>5. Sound(Resettle(y, cur, s, r), S) /\ PeaksKept(y, Resettle(y, cur, s, r))
      BY <3>1, <3>3, <3>4, ResettleSound
    <3> QED
      BY <3>1, <3>2, <3>5 DEF PeaksKept
  <2>4. CASE /\ last \in Listed(l) /\ cur[s] >= minStatementSupportToRank
             /\ m = Resettle(SetStatementRank(l, l.statementRankings[last], -1), cur, s, last)
    <3> DEFINE w == l.statementRankings[last]
               y == SetStatementRank(l, w, -1)
    <3>0. w \in StatementIds /\ -1 \in Ranks \cup {-1} /\ ~(-1 >= 0)
      BY <1>4, <2>4, RankingIs
    <3>1. /\ y \in RankingType /\ y.rankedCount = l.rankedCount /\ y.rank[w] = -1
          /\ y.statementRankings = l.statementRankings
          /\ y.peakRank[w] = l.peakRank[w]
          /\ \A t \in StatementIds \ {w} :
               y.rank[t] = l.rank[t] /\ y.peakRank[t] = l.peakRank[t]
      BY <1>4, <3>0, SetRankIs
    <3>2. m = Resettle(y, cur, s, last) /\ last \in Listed(l)
      BY <2>4
    <3> HIDE DEF y, last, w
    <3>3. Listed(y) = Listed(l)
      BY <3>1 DEF Listed
    <3>4. Peaked(y) /\ Unranked(y, S) /\ Filled(y, S, Listed(y) \ {last})
      BY <1>4, <3>1, <3>3 DEF Peaked, Unranked, Filled
    <3>5. ~(cur[s] < minStatementSupportToRank)
      BY <1>4, <2>4
    <3>6. Sound(Resettle(y, cur, s, last), S) /\ PeaksKept(y, Resettle(y, cur, s, last))
      BY <3>1, <3>2, <3>3, <3>4, <3>5, ResettleSound
    <3>7. \A t \in StatementIds : y.peakRank[t] = l.peakRank[t]
      BY <3>1
    <3> QED
      BY <3>2, <3>6, <3>7 DEF PeaksKept
  <2> QED
    BY <1>3, <2>1, <2>2, <2>3, <2>4
<1>6. PeaksKept(before, m)
  BY <1>1, <1>2, <1>4, <1>5, PeaksKeptAgain DEF Sound
<1> QED
  BY <1>5, <1>6 DEF m

(* and sorted and in step with the ranks if it was, but for s, and leaves s *)
(* out only if it is too weak.                                               *)
LEMMA UpdateSorted ==
  ASSUME NEW before \in RankingType, NEW cur \in Currents, NEW s \in StatementIds,
         Consistent(before), SortedBut(before, cur, s)
  PROVE  LET m == UpdateStatementRanking(before, cur, s)
         IN  /\ Consistent(m) /\ SortedOver(m, cur, Listed(m))
             /\ m.rank[s] = -1 => LeftOut(m, cur, s)
<1> DEFINE m == UpdateStatementRanking(before, cur, s)
           l == RankingMaintenance(before, cur)
           last == l.rankedCount - 1
<1>1. /\ Consistent(l) /\ SortedBut(l, cur, s)
      /\ cur[s] < minStatementSupportToRank =>
           \A i \in Listed(l) :
             l.statementRankings[i] # s =>
               cur[l.statementRankings[i]] >= minStatementSupportToRank
  BY MaintainedSorted
<1>2. /\ l \in RankingType
      /\ \/ l.rank[s] \in Listed(l) /\ m = Resettle(l, cur, s, l.rank[s])
         \/ /\ l.rank[s] \notin Listed(l) /\ m = l
            /\ cur[s] < RankingThreshold(l, cur)
         \/ /\ l.rank[s] \notin Listed(l) /\ l.rankedCount < maxRankedStatements
            /\ cur[s] >= minStatementSupportToRank
            /\ m = Resettle([l EXCEPT !.rankedCount = @ + 1], cur, s, l.rankedCount)
         \/ /\ l.rank[s] \notin Listed(l) /\ l.rankedCount = maxRankedStatements
            /\ last \in Listed(l) /\ cur[s] >= minStatementSupportToRank
            /\ m = Resettle(SetStatementRank(l, l.statementRankings[last], -1), cur, s, last)
  BY MaintenanceIs, UpdateIs
<1> HIDE DEF m, l
<1>3. /\ cur[s] \in Int /\ minStatementSupportToRank \in Int
      /\ l.rankedCount \in Int /\ last \in Int
      /\ l.rankedCount <= maxRankedStatements /\ maxRankedStatements \in Int
      /\ \A i \in Int : i \in Listed(l) <=> 0 <= i /\ i <= last
      /\ \A i \in Listed(l) : /\ i \in Int /\ l.statementRankings[i] \in StatementIds
                              /\ cur[l.statementRankings[i]] \in Int
                              /\ l.rank[l.statementRankings[i]] = i
      /\ \A t \in StatementIds :
           l.rank[t] # -1 => l.rank[t] \in Listed(l) /\ l.statementRankings[l.rank[t]] = t
  BY <1>1, <1>2, RankingIs, RankingAssumption DEF Currents, Listed, Consistent
\* A statement without a place is nowhere in the list.
<1>4. l.rank[s] \notin Listed(l) =>
        /\ l.rank[s] = -1 /\ \A i \in Listed(l) : l.statementRankings[i] # s
        /\ SortedOver(l, cur, Listed(l))
  <2> SUFFICES ASSUME l.rank[s] \notin Listed(l)
               PROVE  /\ l.rank[s] = -1 /\ \A i \in Listed(l) : l.statementRankings[i] # s
                      /\ SortedOver(l, cur, Listed(l))
    OBVIOUS
  <2>1. l.rank[s] = -1 /\ \A i \in Listed(l) : l.statementRankings[i] # s
    BY <1>3
  <2> QED
    BY <1>1, <2>1 DEF SortedBut, SortedOver
<1>5. CASE l.rank[s] \in Listed(l) /\ m = Resettle(l, cur, s, l.rank[s])
  <2> DEFINE r == l.rank[s]
  <2>1. r \in Listed(l) /\ l.statementRankings[r] = s /\ m = Resettle(l, cur, s, r)
    BY <1>3, <1>5
  <2>2. \A i \in Listed(l) \ {r} : l.statementRankings[i] # s
    BY <1>3
  <2>3. \A t \in StatementIds \ {s} : l.rank[t] # r
    BY <1>3, <2>1
  <2> HIDE DEF r
  <2>4. Hole(l, s, r)
    BY <1>3, <2>1, <2>2, <2>3 DEF Hole
  <2>5. SortedOver(l, cur, Listed(l) \ {r})
    BY <1>1, <2>2 DEF SortedBut, SortedOver
  <2>6. cur[s] < minStatementSupportToRank => Strong(l, cur, Listed(l) \ {r})
    BY <1>1, <2>2 DEF Strong
  <2>7. /\ Consistent(m) /\ SortedOver(m, cur, Listed(m))
        /\ cur[s] >= minStatementSupportToRank => m.rank[s] # -1
    BY <1>2, <2>1, <2>4, <2>5, <2>6, ResettleSorted
  <2>8. m.rank[s] = -1 => LeftOut(m, cur, s)
    BY <1>3, <2>7 DEF LeftOut
  <2> QED
    BY <2>7, <2>8 DEF m
<1>6. CASE /\ l.rank[s] \notin Listed(l) /\ m = l
           /\ cur[s] < RankingThreshold(l, cur)
  <2>1. LeftOut(l, cur, s)
    <3>1. CASE l.rankedCount < maxRankedStatements
      BY <1>6, <3>1 DEF RankingThreshold, LeftOut
    <3>2. CASE ~(l.rankedCount < maxRankedStatements)
      <4>1. l.rankedCount = maxRankedStatements /\ last \in Listed(l)
        BY <1>3, <3>2, RankingAssumption
      <4>2. cur[l.statementRankings[last]] >= cur[s]
        <5>1. cur[s] < cur[l.statementRankings[last]] + 1
          BY <1>6, <3>2 DEF RankingThreshold
        <5>2. cur[l.statementRankings[last]] \in Int
          BY <1>3, <4>1
        <5> QED
          BY <1>3, <5>1, <5>2
      <4>3. ASSUME NEW i \in Listed(l) PROVE cur[l.statementRankings[i]] >= cur[s]
        <5>1. i = last \/ i < last
          BY <1>3
        <5>2. i < last => cur[l.statementRankings[i]] >= cur[l.statementRankings[last]]
          BY <1>4, <1>6, <4>1 DEF SortedOver
        <5>3. cur[l.statementRankings[i]] \in Int /\ cur[l.statementRankings[last]] \in Int
          BY <1>3, <4>1
        <5> HIDE DEF last
        <5>4. CASE i = last
          BY <4>2, <5>4
        <5>5. CASE i < last
          BY <1>3, <4>2, <5>2, <5>3, <5>5
        <5> QED
          BY <5>1, <5>4, <5>5
      <4> QED
        BY <4>1, <4>3 DEF LeftOut
    <3> QED
      BY <3>1, <3>2
  <2> QED
    BY <1>1, <1>4, <1>6, <2>1 DEF m
<1>7. CASE /\ l.rank[s] \notin Listed(l) /\ l.rankedCount < maxRankedStatements
           /\ cur[s] >= minStatementSupportToRank
           /\ m = Resettle([l EXCEPT !.rankedCount = @ + 1], cur, s, l.rankedCount)
  <2> DEFINE y == [l EXCEPT !.rankedCount = @ + 1]
             r == l.rankedCount
  <2>1. /\ y \in RankingType /\ y.rank = l.rank
        /\ y.statementRankings = l.statementRankings
        /\ r \in Listed(y) /\ Listed(y) \ {r} = Listed(l)
    BY <1>2, <1>7, Lengthened
  <2>2. m = Resettle(y, cur, s, r)
    BY <1>7
  <2> HIDE DEF y, r
  <2>3. Hole(y, s, r)
    BY <1>3, <1>4, <1>7, <2>1 DEF Hole
  <2>4. SortedOver(y, cur, Listed(y) \ {r})
    BY <1>4, <1>7, <2>1 DEF SortedOver
  <2>5. ~(cur[s] < minStatementSupportToRank)
    BY <1>3, <1>7
  <2>6. /\ Consistent(m) /\ SortedOver(m, cur, Listed(m)) /\ m.rank[s] # -1
    BY <1>7, <2>1, <2>2, <2>3, <2>4, <2>5, ResettleSorted
  <2> QED
    BY <2>6 DEF m
<1>8. CASE /\ l.rank[s] \notin Listed(l) /\ l.rankedCount = maxRankedStatements
           /\ last \in Listed(l) /\ cur[s] >= minStatementSupportToRank
           /\ m = Resettle(SetStatementRank(l, l.statementRankings[last], -1), cur, s, last)
  <2> DEFINE w == l.statementRankings[last]
             y == SetStatementRank(l, w, -1)
  <2>1. w \in StatementIds /\ w # s /\ l.rank[w] = last /\ -1 \in Ranks \cup {-1}
    BY <1>3, <1>4, <1>8
  <2>2. /\ y \in RankingType /\ y.rankedCount = l.rankedCount /\ y.rank[w] = -1
        /\ y.statementRankings = l.statementRankings
        /\ \A t \in StatementIds \ {w} : y.rank[t] = l.rank[t]
    BY <1>2, <2>1, SetRankIs
  <2>3. m = Resettle(y, cur, s, last) /\ last \in Listed(l) /\ l.statementRankings[last] = w
    BY <1>8
  <2> HIDE DEF y, last, w
  <2>4. Listed(y) = Listed(l)
    BY <2>2 DEF Listed
  <2>5. \A i \in Listed(l) \ {last} : l.statementRankings[i] # w
    BY <1>3, <2>1
  <2>6. /\ \A i \in Listed(y) \ {last} :
             y.statementRankings[i] # s /\ y.rank[y.statementRankings[i]] = i
        /\ \A t \in StatementIds \ {s} :
             y.rank[t] # -1 =>
               y.rank[t] \in Listed(y) \ {last} /\ y.statementRankings[y.rank[t]] = t
    BY <1>3, <1>4, <1>8, <2>1, <2>2, <2>3, <2>4, <2>5
  <2>7. Hole(y, s, last)
    BY <2>3, <2>4, <2>6 DEF Hole
  <2>8. SortedOver(y, cur, Listed(y) \ {last})
    BY <1>4, <1>8, <2>2, <2>4 DEF SortedOver
  <2>9. ~(cur[s] < minStatementSupportToRank)
    BY <1>3, <1>8
  <2>10. last \in Listed(y)
    BY <2>3, <2>4
  <2>11. /\ Consistent(m) /\ SortedOver(m, cur, Listed(m)) /\ m.rank[s] # -1
    BY <1>8, <2>2, <2>3, <2>7, <2>8, <2>9, <2>10, ResettleSorted
  <2> QED
    BY <2>11 DEF m
<1> QED
  BY <1>2, <1>5, <1>6, <1>7, <1>8

-----------------------------------------------------------------------------
(* Supports as they are read: the time that has passed, speeded up, is in the *)
(* range the decay is asked for, and so is what is left.                      *)
LEMMA ElapsedType ==
  ASSUME NEW from \in Times, NEW to \in Times, from <= to
  PROVE  (to - from) * decaySpeedupFactor \in Elapsed
<1>1. /\ to - from \in Nat /\ MaxTime \in Nat /\ decaySpeedupFactor \in Nat
      /\ to - from <= MaxTime
  BY DecayBoundsAssumption DEF Times
<1>2. ASSUME NEW a \in Nat, NEW b \in Nat, NEW c \in Nat, a <= b
      PROVE  a * c \in 0..(b * c)
  <2>1. (b - a) * c \in Nat /\ b * c = a * c + (b - a) * c
    BY <1>2
  <2>2. a * c \in Nat /\ b * c \in Nat
    OBVIOUS
  <2> QED
    BY <2>1, <2>2
<1> QED
  BY <1>1, <1>2 DEF Elapsed

(* _decayValue returns an amount in range. *)
LEMMA CurrentSupportType ==
  ASSUME NEW support \in Support, NEW t \in Times, support.lastUpdated <= t
  PROVE  CurrentSupport(support, t) \in Supports
<1>1. (t - support.lastUpdated) * decaySpeedupFactor \in Elapsed
  BY ElapsedType DEF Support
<1> QED
  BY <1>1, DecayAssumption DEF Support, CurrentSupport, DecayValue

Recorded(supports) ==
  /\ supports \in [StatementIds -> Support]
  /\ \A s \in StatementIds : supports[s].lastUpdated <= now

(* The supports of all statements at the time of the block. *)
LEMMA CurrentsType ==
  ASSUME NEW supports, Recorded(supports), now \in Times
  PROVE  /\ CurrentSupports(supports, now) \in Currents
         /\ \A s \in StatementIds :
              CurrentSupports(supports, now)[s] = CurrentSupport(supports[s], now)
<1>1. \A s \in StatementIds : CurrentSupport(supports[s], now) \in Int
  <2> SUFFICES ASSUME NEW s \in StatementIds PROVE CurrentSupport(supports[s], now) \in Int
    OBVIOUS
  <2>1. supports[s] \in Support /\ supports[s].lastUpdated <= now
    BY DEF Recorded
  <2>2. CurrentSupport(supports[s], now) \in Supports
    BY <2>1, CurrentSupportType
  <2> QED
    BY <2>2, DecayBoundsAssumption DEF Supports
<1>2. DOMAIN supports = StatementIds
  BY DEF Recorded
<1> QED
  BY <1>1, <1>2 DEF CurrentSupports, Currents

-----------------------------------------------------------------------------
(* The list and the ranks agree and the list is sorted; s is not left out *)
(* though it is strong.                                                    *)
InOrder(l, supports) ==
  Consistent(l) /\ SortedOver(l, CurrentSupports(supports, now), Listed(l))

Earned(l, supports, s) ==
  l.rank[s] = -1 => LeftOut(l, CurrentSupports(supports, now), s)

(* What both calls do to a statement: write its support and rank it. *)
LEMMA RoundIs ==
  ASSUME now \in Times, NEW supports, Recorded(supports),
         NEW S \in SUBSET StatementIds, NEW s \in S, NEW value \in Supports,
         NEW l, Sound(l, S),
         NEW new, new = [supports EXCEPT ![s] = [value |-> value, lastUpdated |-> now]],
         NEW m, m = UpdateStatementRanking(l, CurrentSupports(new, now), s)
  PROVE  /\ Recorded(new) /\ Sound(m, S) /\ PeaksKept(l, m)
         /\ InOrder(l, supports) => InOrder(m, new) /\ Earned(m, new, s)
<1> DEFINE cur == CurrentSupports(new, now)
           old == CurrentSupports(supports, now)
<1>1. /\ new \in [StatementIds -> Support] /\ new[s].lastUpdated = now
      /\ \A t \in StatementIds \ {s} : new[t] = supports[t]
  BY DEF Recorded, Support
<1>2. Recorded(new)
  <2>1. now <= now
    BY DecayBoundsAssumption DEF Times
  <2> HIDE DEF cur
  <2> QED
    BY <1>1, <2>1 DEF Recorded
<1>3. /\ cur \in Currents /\ old \in Currents
      /\ \A t \in StatementIds \ {s} : cur[t] = old[t]
  <2>1. cur \in Currents /\ \A t \in StatementIds : cur[t] = CurrentSupport(new[t], now)
    BY <1>2, CurrentsType
  <2>2. old \in Currents /\ \A t \in StatementIds : old[t] = CurrentSupport(supports[t], now)
    BY CurrentsType
  <2> HIDE DEF cur, old
  <2> QED
    BY <1>1, <2>1, <2>2
<1> HIDE DEF cur, old
<1>4. m = UpdateStatementRanking(l, cur, s)
  BY DEF cur
<1>5. Sound(m, S) /\ PeaksKept(l, m)
  BY <1>3, <1>4, UpdateSound
<1>6. ASSUME InOrder(l, supports)
      PROVE  InOrder(m, new) /\ Earned(m, new, s)
  <2>1. Consistent(l) /\ SortedOver(l, old, Listed(l)) /\ l \in RankingType
        /\ s \in StatementIds
    BY <1>6 DEF InOrder, Sound, old
  <2>2. \A i \in Listed(l) : l.statementRankings[i] \in StatementIds
    BY <2>1, RankingIs
  <2>3. SortedBut(l, cur, s)
    BY <1>3, <2>1, <2>2 DEF SortedOver, SortedBut
  <2>4. /\ Consistent(m) /\ SortedOver(m, cur, Listed(m))
        /\ m.rank[s] = -1 => LeftOut(m, cur, s)
    BY <1>3, <1>4, <2>1, <2>3, UpdateSorted
  <2> QED
    BY <2>4 DEF InOrder, Earned, cur
<1> QED
  BY <1>2, <1>5, <1>6

-----------------------------------------------------------------------------
(* The invariant that needs no order: only the statements that exist are *)
(* ranked or have a peak.                                                 *)
Existing == 0..(statementCount - 1)

IInv == TypeOK /\ NothingFromTheFuture /\ Sound(ranking, Existing)

(* Types as arithmetic needs them. *)
LEMMA TimeFacts ==
  ASSUME TypeOK
  PROVE  /\ now \in Times /\ now \in Nat /\ Times \subseteq Nat
         /\ statementCount \in Nat /\ Existing \subseteq StatementIds
         /\ Supports \subseteq Int /\ StatementIds \subseteq Nat
         /\ MaxStatements \in Nat /\ engagementWindowSeconds \in Nat
BY RankingAssumption, StatementsAssumption, DecayBoundsAssumption
   DEF TypeOK, Times, Existing, StatementIds, Supports

Drafts ==
  {f \in Storage :
     /\ Recorded(f.statementSupport) /\ Sound(f.ranking, Existing)
     /\ PeaksKept(ranking, f.ranking)
     /\ \A s \in StatementIds : f.lastEngagement[s] <= now
     /\ InOrder(ranking, statementSupport) => InOrder(f.ranking, f.statementSupport)}

(* The loop starts with a draft. *)
LEMMA BeforeAdjustingDraft == IInv => BeforeAdjusting \in Drafts
<1> SUFFICES ASSUME IInv PROVE BeforeAdjusting \in Drafts
  OBVIOUS
<1>1. /\ BeforeAdjusting \in Storage
      /\ BeforeAdjusting.statementSupport = statementSupport
      /\ BeforeAdjusting.ranking = ranking
      /\ BeforeAdjusting.lastEngagement = lastEngagement
  BY DEF IInv, TypeOK, BeforeAdjusting, Storage
<1>2. /\ Recorded(statementSupport) /\ Sound(ranking, Existing)
      /\ \A s \in StatementIds : lastEngagement[s] <= now
  BY DEF IInv, TypeOK, NothingFromTheFuture, Recorded
<1>3. PeaksKept(ranking, ranking)
  BY PeaksStay DEF IInv, TypeOK
<1> HIDE DEF BeforeAdjusting
<1> QED
  BY <1>1, <1>2, <1>3 DEF Drafts

(* Accept keeps a draft, and the statement it moves is where it belongs. *)
LEMMA AcceptKeepsDraft ==
  ASSUME TypeOK, NEW f \in Drafts, NEW s \in Existing, NEW value \in Supports
  PROVE  LET g == Accept(f, s, value)
         IN  /\ g \in Drafts /\ g.reverted = f.reverted
             /\ InOrder(ranking, statementSupport) =>
                  Earned(g.ranking, g.statementSupport, s)
<1> DEFINE new == [f.statementSupport EXCEPT ![s] = [value |-> value, lastUpdated |-> now]]
           m == UpdateStatementRanking(f.ranking, CurrentSupports(new, now), s)
           due == now >= f.lastEngagement[s] + engagementWindowSeconds
           engaged == IF due THEN [f.lastEngagement EXCEPT ![s] = now] ELSE f.lastEngagement
           g == Accept(f, s, value)
<1>1. /\ f \in Storage /\ Recorded(f.statementSupport) /\ Sound(f.ranking, Existing)
      /\ PeaksKept(ranking, f.ranking)
      /\ \A t \in StatementIds : f.lastEngagement[t] <= now
      /\ InOrder(ranking, statementSupport) => InOrder(f.ranking, f.statementSupport)
  BY DEF Drafts
<1>2. s \in StatementIds /\ now \in Times /\ now \in Nat /\ Existing \in SUBSET StatementIds
      /\ engagementWindowSeconds \in Nat
  BY TimeFacts
<1>3. /\ Recorded(new) /\ Sound(m, Existing) /\ PeaksKept(f.ranking, m)
      /\ InOrder(f.ranking, f.statementSupport) =>
           InOrder(m, new) /\ Earned(m, new, s)
  BY <1>1, <1>2, RoundIs
<1>4. f.lastEngagement \in [StatementIds -> Times] /\ f.reverted \in BOOLEAN
      /\ \A t \in StatementIds : f.lastEngagement[t] \in Nat
  BY <1>1, TimeFacts DEF Storage
<1>5. /\ engaged \in [StatementIds -> Times]
      /\ \A t \in StatementIds : engaged[t] <= now
  <2>1. CASE due
    <3>1. engaged = [f.lastEngagement EXCEPT ![s] = now]
      BY <2>1
    <3> HIDE DEF engaged
    <3> QED
      BY <1>1, <1>2, <1>4, <3>1
  <2>2. CASE ~due
    BY <1>1, <1>4, <2>2
  <2> QED
    BY <2>1, <2>2
<1>6. g = [f EXCEPT !.statementSupport = new, !.ranking = m, !.lastEngagement = engaged]
  BY DEF Accept
<1> HIDE DEF new, m, engaged, g
<1>7. /\ g.statementSupport = new /\ g.ranking = m /\ g.lastEngagement = engaged
      /\ g.reverted = f.reverted
      /\ g = [statementSupport |-> new, ranking |-> m, lastEngagement |-> engaged,
              reverted |-> f.reverted]
  <2>1. f = [statementSupport |-> f.statementSupport, ranking |-> f.ranking,
             lastEngagement |-> f.lastEngagement, reverted |-> f.reverted]
    BY <1>1 DEF Storage
  <2> QED
    BY <1>6, <2>1
<1>8. g \in Storage
  BY <1>3, <1>4, <1>5, <1>7 DEF Storage, Recorded, Sound
<1>9. PeaksKept(ranking, m)
  <2>1. ranking \in RankingType /\ f.ranking \in RankingType /\ m \in RankingType
    BY <1>1, <1>3 DEF TypeOK, Sound
  <2> QED
    BY <1>1, <1>3, <2>1, PeaksKeptAgain
<1>10. g \in Drafts
  BY <1>1, <1>3, <1>5, <1>7, <1>8, <1>9 DEF Drafts
<1> QED
  BY <1>1, <1>3, <1>7, <1>10 DEF g

(* So does a round, also one that reverts. *)
LEMMA AdjustOneKeepsDraft ==
  ASSUME TypeOK, NEW f \in Drafts, NEW change \in Changes
  PROVE  LET g == AdjustOne(f, change)
         IN  /\ g \in Drafts
             /\ ~g.reverted =>
                  /\ change.statementId \in Existing
                  /\ InOrder(ranking, statementSupport) =>
                       Earned(g.ranking, g.statementSupport, change.statementId)
<1> DEFINE s == change.statementId
           support == CurrentSupport(f.statementSupport[s], now) + change.change
           g == AdjustOne(f, change)
<1>1. s \in StatementIds /\ statementCount \in Nat /\ StatementIds \subseteq Nat
  BY TimeFacts, StatementsAssumption
<1>2. CASE f.reverted \/ s >= statementCount \/ support \notin Supports
  <2>1. g = [f EXCEPT !.reverted = TRUE]
    BY <1>2 DEF AdjustOne
  <2>2. /\ g \in Storage /\ g.reverted /\ g.ranking = f.ranking
        /\ g.statementSupport = f.statementSupport /\ g.lastEngagement = f.lastEngagement
    BY <2>1 DEF Drafts, Storage
  <2> HIDE DEF g
  <2>3. g \in Drafts
    BY <2>2 DEF Drafts
  <2> QED
    BY <2>2, <2>3 DEF g
<1>3. CASE ~(f.reverted \/ s >= statementCount \/ support \notin Supports)
  <2>1. g = Accept(f, s, support)
    BY <1>3 DEF AdjustOne
  <2>2. support \in Supports
    BY <1>3
  <2>3. ~(s >= statementCount)
    BY <1>3
  <2> HIDE DEF s, support, g
  <2>4. s \in Existing
    BY <1>1, <2>3 DEF Existing
  <2>5. /\ g \in Drafts
        /\ InOrder(ranking, statementSupport) => Earned(g.ranking, g.statementSupport, s)
    BY <2>1, <2>2, <2>4, AcceptKeepsDraft
  <2> QED
    BY <2>4, <2>5 DEF g, s
<1> QED
  BY <1>2, <1>3

(* A batch is a sequence of changes. *)
LEMMA BatchType ==
  ASSUME NEW changes \in Batches
  PROVE  /\ Len(changes) \in Nat
         /\ \A i \in 1..Len(changes) : changes[i] \in Changes
         /\ changes # <<>> => Len(changes) \in 1..Len(changes)
<1>1. PICK n \in 0..MaxBatch : changes \in [1..n -> Changes]
  BY DEF Batches
<1>2. n \in Nat
  BY StatementsAssumption
<1>3. Len(changes) = n /\ changes \in Seq(Changes)
  BY <1>1, <1>2
<1>4. changes # <<>> => n # 0
  BY <1>3
<1> QED
  BY <1>1, <1>2, <1>3, <1>4

(* What AdjustAll returns is the end of a run of its loop. *)
LEMMA AdjustAllIsRun ==
  ASSUME TypeOK, BeforeAdjusting \in Drafts, NEW changes \in Batches
  PROVE  \E run \in [0..Len(changes) -> Drafts] :
           /\ \A i \in 1..Len(changes) : run[i] = AdjustOne(run[i - 1], changes[i])
           /\ AdjustAll(changes) = run[Len(changes)]
<1> DEFINE n == Len(changes)
           Equation(f) == f = [i \in 0..n |->
                                 IF i = 0 THEN BeforeAdjusting
                                 ELSE AdjustOne(f[i - 1], changes[i])]
           step == [i \in 1..n |-> [c \in Drafts |-> AdjustOne(c, changes[i])]]
           after == CHOOSE f : Equation(f)
<1>1. n \in Nat /\ \A i \in 1..n : changes[i] \in Changes
  BY BatchType
<1>2. step \in [1..n -> [Drafts -> Drafts]]
  BY <1>1, AdjustOneKeepsDraft
<1>3. PICK g : IsRun(g, Drafts, BeforeAdjusting, n, step)
  <2>1. IsLoop(Drafts, BeforeAdjusting, n, step)
    BY <1>1, <1>2 DEF IsLoop
  <2> HIDE DEF step, n
  <2> QED
    BY <2>1, LoopHasRun
<1>4. \A i \in 1..n : g[i] = AdjustOne(g[i - 1], changes[i])
  <2> SUFFICES ASSUME NEW i \in 1..n PROVE g[i] = AdjustOne(g[i - 1], changes[i])
    OBVIOUS
  <2>1. g[i - 1] \in Drafts
    BY <1>1, <1>3 DEF IsRun
  <2> QED
    BY <1>3, <2>1 DEF IsRun
<1>5. Equation(g)
  <2>1. \A i \in 0..n : i # 0 => i \in 1..n
    BY <1>1
  <2> HIDE DEF n
  <2> QED
    BY <1>3, <1>4, <2>1 DEF IsRun
<1>6. Equation(after)
  BY <1>5
<1>7. AdjustAll(changes) = after[n]
  BY DEF AdjustAll
<1>8. /\ \A i \in 1..n : after[i] = AdjustOne(after[i - 1], changes[i])
      /\ after[0] = BeforeAdjusting
  <2>1. 0 \in 0..n /\ \A i \in 1..n : i \in 0..n /\ i # 0
    BY <1>1
  <2> HIDE DEF after, n
  <2> QED
    BY <1>6, <2>1
<1>9. after \in [0..n -> Drafts]
  <2> DEFINE S == {i \in 0..n : after[i] \in Drafts}
  <2>1. 0 \in S
    BY <1>1, <1>8
  <2>2. ASSUME NEW i \in 1..n, i - 1 \in S PROVE i \in S
    <3>1. after[i - 1] \in Drafts /\ changes[i] \in Changes /\ i \in 0..n
      BY <1>1, <2>2
    <3> HIDE DEF after, n
    <3> QED
      BY <1>8, <3>1, AdjustOneKeepsDraft
  <2>3. 0..n \subseteq S
    <3> HIDE DEF S, n
    <3> QED
      BY <1>1, <2>1, <2>2, IntervalInduction
  <2>4. DOMAIN after = 0..n /\ after = [i \in 0..n |-> after[i]]
    <3> HIDE DEF after
    <3> QED
      BY <1>6
  <2> HIDE DEF after
  <2> QED
    BY <2>3, <2>4
<1> HIDE DEF after
<1> QED
  BY <1>7, <1>8, <1>9

(* What adjustSupport leaves is a draft, with the last statement it moved *)
(* where it belongs.                                                      *)
LEMMA AdjustIs ==
  ASSUME IInv, NEW changes \in Batches, Adjust(changes)
  PROVE  \E f \in Drafts :
           /\ statementSupport' = f.statementSupport /\ ranking' = f.ranking
           /\ lastEngagement' = f.lastEngagement
           /\ now' = now /\ statementCount' = statementCount
           /\ changes # <<>> =>
                LET s == changes[Len(changes)].statementId
                IN  /\ s \in Existing
                    /\ InOrder(ranking, statementSupport) =>
                         Earned(f.ranking, f.statementSupport, s)
<1> DEFINE n == Len(changes)
           f == AdjustAll(changes)
<1>1. TypeOK /\ BeforeAdjusting \in Drafts
  BY BeforeAdjustingDraft DEF IInv
<1>2. PICK run \in [0..n -> Drafts] :
        /\ \A i \in 1..n : run[i] = AdjustOne(run[i - 1], changes[i])
        /\ f = run[n]
  BY <1>1, AdjustAllIsRun
<1>3. /\ ~f.reverted
      /\ statementSupport' = f.statementSupport /\ ranking' = f.ranking
      /\ lastEngagement' = f.lastEngagement
      /\ now' = now /\ statementCount' = statementCount
  BY DEF Adjust
<1> HIDE DEF f
<1>4. n \in Nat /\ \A i \in 1..n : changes[i] \in Changes
  BY BatchType
<1>5. f \in Drafts
  BY <1>2, <1>4
<1>6. ASSUME changes # <<>>
      PROVE  /\ changes[n].statementId \in Existing
             /\ InOrder(ranking, statementSupport) =>
                  Earned(f.ranking, f.statementSupport, changes[n].statementId)
  <2>1. n \in 1..n
    BY <1>6, BatchType
  <2>2. run[n - 1] \in Drafts /\ changes[n] \in Changes
        /\ f = AdjustOne(run[n - 1], changes[n])
    BY <1>2, <1>4, <2>1
  <2> QED
    BY <1>1, <1>3, <2>2, AdjustOneKeepsDraft
<1> QED
  BY <1>3, <1>5, <1>6

-----------------------------------------------------------------------------
(* What a step does that needs no order, and what it does to the order. *)
Ordered == InOrder(ranking, statementSupport)

Effect == IInv' /\ PeaksKept(ranking, ranking')

(* A forum without statements. *)
LEMMA InitIInv == Init => IInv /\ Ordered
<1> SUFFICES ASSUME Init PROVE IInv /\ Ordered
  OBVIOUS
<1>1. /\ 0 \in Times /\ StartTime \in Times /\ 0 <= StartTime /\ 0 \in Supports
      /\ 0 \in 0..MaxStatements /\ Ranks \subseteq Int
      /\ 0 \in 0..maxRankedStatements /\ 0 \in StatementIds
  BY RankingAssumption, StatementsAssumption, StartAssumption, DecayBoundsAssumption
     DEF Times, Supports, Ranks, StatementIds
<1>2. NoRanking \in RankingType /\ NoRanking.rankedCount = 0
      /\ \A s \in StatementIds : NoRanking.rank[s] = -1 /\ NoRanking.peakRank[s] = -1
  BY <1>1 DEF NoRanking, RankingType
<1>3. NoSupport \in Support /\ NoSupport.lastUpdated = 0
  BY <1>1 DEF NoSupport, Support
<1>4. Listed(ranking) = {}
  BY <1>2 DEF Init, Listed
<1>5. /\ now = StartTime /\ statementCount = 0 /\ ranking = NoRanking
      /\ \A s \in StatementIds : statementSupport[s] = NoSupport /\ lastEngagement[s] = 0
      /\ statementSupport \in [StatementIds -> {NoSupport}]
      /\ lastEngagement \in [StatementIds -> {0}]
  BY DEF Init
<1> HIDE DEF NoRanking, NoSupport
<1>6. TypeOK
  BY <1>1, <1>2, <1>3, <1>5 DEF TypeOK
<1>7. NothingFromTheFuture
  BY <1>1, <1>3, <1>5 DEF NothingFromTheFuture
<1>8. Sound(ranking, Existing)
  BY <1>2, <1>4, <1>5 DEF Sound, Peaked, Unranked, Filled
<1>9. Ordered
  BY <1>2, <1>4, <1>5 DEF Ordered, InOrder, Consistent, SortedOver
<1> QED
  BY <1>6, <1>7, <1>8, <1>9 DEF IInv

(* addStatement *)
LEMMA AddEffect ==
  ASSUME IInv, NEW initialSupport \in InitialSupports, Add(initialSupport)
  PROVE  /\ Effect /\ statementCount \in StatementIds
         /\ Ordered => Ordered' /\ Earned(ranking', statementSupport', statementCount)
<1> DEFINE s == statementCount
           new == [statementSupport EXCEPT
                     ![s] = [value |-> initialSupport, lastUpdated |-> now]]
           fresh == [ranking EXCEPT !.rank[s] = -1, !.peakRank[s] = -1]
           S == 0..s
<1>1. /\ TypeOK /\ NothingFromTheFuture /\ Sound(ranking, Existing)
      /\ now \in Times /\ now \in Nat /\ statementCount \in Nat /\ MaxStatements \in Nat
      /\ initialSupport \in Supports
  BY TimeFacts, StatementsAssumption DEF IInv
<1>2. /\ s < MaxStatements /\ statementCount' = s + 1 /\ statementSupport' = new
      /\ ranking' = UpdateStatementRanking(fresh, CurrentSupports(new, now), s)
      /\ lastEngagement' = [lastEngagement EXCEPT ![s] = 0] /\ now' = now
  BY DEF Add
<1>3. s \in StatementIds /\ s \notin Existing /\ s \in S /\ S \in SUBSET StatementIds
      /\ Existing \subseteq S /\ Existing' = S
  BY <1>1, <1>2 DEF StatementIds, Existing
\* A statement that does not exist has neither rank nor peak.
<1>4. fresh = ranking
  <2>1. ranking \in RankingType /\ ranking.rank[s] = -1 /\ ranking.peakRank[s] = -1
    BY <1>1, <1>3 DEF Sound, Unranked
  <2>2. /\ [ranking.rank EXCEPT ![s] = -1] = ranking.rank
        /\ [ranking.peakRank EXCEPT ![s] = -1] = ranking.peakRank
    BY <2>1 DEF RankingType
  <2>3. fresh = [ranking EXCEPT !.rank = [ranking.rank EXCEPT ![s] = -1],
                                !.peakRank = [ranking.peakRank EXCEPT ![s] = -1]]
    OBVIOUS
  <2> HIDE DEF fresh
  <2> QED
    BY <2>1, <2>2, <2>3 DEF RankingType
<1>5. Sound(ranking, S) /\ Recorded(statementSupport)
  BY <1>1, <1>3 DEF Sound, Unranked, Filled, Recorded, TypeOK, NothingFromTheFuture
<1> HIDE DEF fresh, S, new, s
<1>6. ranking' = UpdateStatementRanking(ranking, CurrentSupports(new, now), s)
  BY <1>2, <1>4
<1>7. /\ Recorded(new) /\ Sound(ranking', S) /\ PeaksKept(ranking, ranking')
      /\ InOrder(ranking, statementSupport) => InOrder(ranking', new) /\ Earned(ranking', new, s)
  BY <1>1, <1>3, <1>5, <1>6, RoundIs DEF new
<1>8. /\ lastEngagement' \in [StatementIds -> Times]
      /\ \A t \in StatementIds : lastEngagement'[t] <= now
  <2>1. 0 \in Times /\ 0 <= now
    BY <1>1, DecayBoundsAssumption DEF Times
  <2> QED
    BY <1>1, <1>2, <1>3, <2>1 DEF TypeOK, NothingFromTheFuture
<1>9. IInv'
  <2>1. statementCount' \in 0..MaxStatements
    BY <1>1, <1>2 DEF s
  <2>2. TypeOK'
    BY <1>1, <1>2, <1>7, <1>8, <2>1 DEF TypeOK, Recorded, Sound
  <2>3. NothingFromTheFuture'
    BY <1>2, <1>7, <1>8 DEF NothingFromTheFuture, Recorded
  <2> QED
    BY <1>3, <1>7, <2>2, <2>3 DEF IInv
<1>10. Effect
  BY <1>7, <1>9 DEF Effect
<1>11. Ordered => InOrder(ranking', new) /\ Earned(ranking', new, s)
  BY <1>7 DEF Ordered
<1>12. Ordered => Ordered' /\ Earned(ranking', statementSupport', s)
  BY <1>2, <1>11 DEF Ordered, InOrder
<1> QED
  BY <1>3, <1>10, <1>12 DEF s

(* adjustSupport *)
LEMMA AdjustEffect ==
  ASSUME IInv, NEW changes \in Batches, Adjust(changes)
  PROVE  /\ Effect
         /\ Ordered => Ordered'
         /\ changes # <<>> =>
              LET s == changes[Len(changes)].statementId
              IN  s \in StatementIds /\ (Ordered => Earned(ranking', statementSupport', s))
<1>1. PICK f \in Drafts :
        /\ statementSupport' = f.statementSupport /\ ranking' = f.ranking
        /\ lastEngagement' = f.lastEngagement
        /\ now' = now /\ statementCount' = statementCount
        /\ changes # <<>> =>
             LET s == changes[Len(changes)].statementId
             IN  /\ s \in Existing
                 /\ InOrder(ranking, statementSupport) =>
                      Earned(f.ranking, f.statementSupport, s)
  BY AdjustIs
<1>2. /\ f \in Storage /\ Recorded(f.statementSupport) /\ Sound(f.ranking, Existing)
      /\ PeaksKept(ranking, f.ranking)
      /\ \A s \in StatementIds : f.lastEngagement[s] <= now
      /\ InOrder(ranking, statementSupport) => InOrder(f.ranking, f.statementSupport)
  BY DEF Drafts
<1>3. IInv'
  <2>1. TypeOK'
    BY <1>1, <1>2 DEF IInv, TypeOK, Storage
  <2>2. NothingFromTheFuture'
    BY <1>1, <1>2 DEF NothingFromTheFuture, Recorded
  <2>3. Sound(ranking, Existing)'
    BY <1>1, <1>2 DEF Existing
  <2> QED
    BY <2>1, <2>2, <2>3 DEF IInv
<1>4. Effect
  BY <1>1, <1>2, <1>3 DEF Effect
<1>5. Ordered => Ordered'
  BY <1>1, <1>2 DEF Ordered, InOrder
<1>6. changes # <<>> =>
        LET s == changes[Len(changes)].statementId
        IN  s \in StatementIds /\ (Ordered => Earned(ranking', statementSupport', s))
  BY <1>1, TimeFacts DEF IInv, Ordered
<1> QED
  BY <1>4, <1>5, <1>6

(* Time alone changes no support. *)
LEMMA TickEffect == IInv /\ Tick => Effect
<1> SUFFICES ASSUME IInv, Tick PROVE Effect
  OBVIOUS
<1>1. /\ now' = now + 1 /\ now < MaxTime /\ statementCount' = statementCount
      /\ statementSupport' = statementSupport /\ ranking' = ranking
      /\ lastEngagement' = lastEngagement
  BY DEF Tick
<1>2. now \in Nat /\ Times \subseteq Nat /\ TypeOK /\ NothingFromTheFuture
  BY TimeFacts DEF IInv
<1>3. now' \in Times
  BY <1>1, <1>2, DecayBoundsAssumption DEF Times
<1>4. NothingFromTheFuture'
  <2>1. \A s \in StatementIds :
          statementSupport[s].lastUpdated \in Nat /\ lastEngagement[s] \in Nat
    BY <1>2 DEF TypeOK, Support
  <2> QED
    BY <1>1, <1>2, <2>1 DEF NothingFromTheFuture
<1>5. IInv'
  BY <1>1, <1>3, <1>4 DEF IInv, TypeOK, Existing
<1>6. PeaksKept(ranking, ranking')
  BY <1>1, PeaksStay DEF IInv, TypeOK
<1> QED
  BY <1>1, <1>5, <1>6 DEF Effect

(* Time that leaves the list sorted leaves it in order. *)
LEMMA TickOrdered == IInv /\ Ordered /\ Tick /\ SortedBySupport' => Ordered'
<1> SUFFICES ASSUME IInv, Ordered, Tick, SortedBySupport' PROVE Ordered'
  OBVIOUS
<1>1. statementSupport' = statementSupport /\ ranking' = ranking
  BY DEF Tick
<1>2. DOMAIN statementSupport = StatementIds /\ ranking \in RankingType
  BY DEF IInv, TypeOK
<1>3. \A i \in Listed(ranking) : ranking.statementRankings[i] \in StatementIds
  BY <1>2, RankingIs
<1>4. \A i, j \in Listed(ranking) :
        i < j => CurrentSupport(statementSupport[ranking.statementRankings[i]], now')
                   >= CurrentSupport(statementSupport[ranking.statementRankings[j]], now')
  BY <1>1 DEF SortedBySupport, ListedRanks, Listed, StatementAt, Strength
<1>5. SortedOver(ranking, CurrentSupports(statementSupport, now'), Listed(ranking))
  BY <1>2, <1>3, <1>4 DEF SortedOver, CurrentSupports
<1> QED
  BY <1>1, <1>5 DEF Ordered, InOrder

-----------------------------------------------------------------------------
(* Every step. *)
LEMMA NextEffect == IInv /\ [Next]_vars => IInv' /\ [Effect]_vars
<1> SUFFICES ASSUME IInv, [Next]_vars PROVE IInv' /\ [Effect]_vars
  OBVIOUS
<1>1. ASSUME NEW initialSupport \in InitialSupports, Add(initialSupport) PROVE Effect
  BY <1>1, AddEffect
<1>2. ASSUME NEW changes \in Batches, Adjust(changes) PROVE Effect
  BY <1>2, AdjustEffect
<1>3. ASSUME Tick PROVE Effect
  BY <1>3, TickEffect
<1>4. CASE UNCHANGED vars
  BY <1>4 DEF vars, IInv, TypeOK, NothingFromTheFuture, Existing
<1>5. Effect => IInv'
  BY DEF Effect
<1> QED
  BY <1>1, <1>2, <1>3, <1>4, <1>5 DEF Next

(* Every step of the history is one of the forum's statements. *)
LEMMA HistoryStep == [HistoryNext]_historyVars => [Next]_vars
BY DEF HistoryNext, historyVars, TimePasses, Next

(* Until time swaps two neighbours the list is in order. *)
HInv == IInv /\ (~swapped => Ordered) /\ swapped \in BOOLEAN

(* Every step keeps it so. *)
LEMMA HistoryKeepsOrder == HInv /\ [HistoryNext]_historyVars => HInv'
<1> SUFFICES ASSUME HInv, [HistoryNext]_historyVars PROVE HInv'
  OBVIOUS
<1>1. IInv'
  BY HistoryStep, NextEffect DEF HInv
<1>2. ASSUME NEW initialSupport \in InitialSupports, Add(initialSupport), UNCHANGED swapped
      PROVE  HInv'
  BY <1>1, <1>2, AddEffect DEF HInv
<1>3. ASSUME NEW changes \in Batches, Adjust(changes), UNCHANGED swapped PROVE HInv'
  BY <1>1, <1>3, AdjustEffect DEF HInv
<1>4. CASE TimePasses
  <2>1. swapped' \in BOOLEAN /\ (~swapped' => ~swapped /\ SortedBySupport')
    BY <1>4 DEF TimePasses, HInv
  <2> QED
    BY <1>1, <1>4, <2>1, TickOrdered DEF TimePasses, HInv
<1>5. CASE UNCHANGED historyVars
  BY <1>1, <1>5 DEF historyVars, vars, HInv, Ordered, InOrder
<1> QED
  BY <1>2, <1>3, <1>4, <1>5 DEF HistoryNext

(***************************************************************************)
(* The list holds only statements that exist, only they have ranks and     *)
(* peaks, and every time that is stored is in the past: what holds in      *)
(* every run, whatever the order of the list.                              *)
(***************************************************************************)
THEOREM StatementsInvariant == Spec => []IInv
<1>1. Init => IInv
  BY InitIInv
<1>2. IInv /\ [Next]_vars => IInv'
  BY NextEffect
<1> QED
  BY <1>1, <1>2, PTL DEF Spec

(***************************************************************************)
(* No statement is ever shown at a better rank than its recorded best one, *)
(* even where rounding has brought the list out of order.                  *)
(***************************************************************************)
LEMMA PeakCovers == IInv => PeakCoversRank
<1> SUFFICES ASSUME IInv, NEW s \in StatementIds, RankOf(s) # -1
             PROVE  ranking.peakRank[s] \in 0..RankOf(s)
  BY DEF PeakCoversRank
<1>1. RankOf(s) = ranking.rank[s] /\ ranking.rank[s] # -1
  BY DEF RankOf, GetStatementRank
<1> QED
  BY <1>1 DEF IInv, Sound, Peaked

(***************************************************************************)
(* A recorded best rank is never lost and never gets worse.                *)
(***************************************************************************)
THEOREM PeakNeverLost == Spec => PeakNeverWorsens
<1>1. IInv /\ [Next]_vars
        => [\A s \in StatementIds :
              ranking.peakRank[s] # -1 => ranking'.peakRank[s] \in 0..ranking.peakRank[s]]_vars
  BY NextEffect DEF Effect, PeaksKept
<1> QED
  BY <1>1, StatementsInvariant, PTL DEF Spec, PeakNeverWorsens

(* The history holds it in every run. *)
LEMMA OrderedInvariant == HistorySpec => []HInv
<1>1. HistoryInit => HInv
  BY InitIInv DEF HistoryInit, HInv
<1> QED
  BY <1>1, HistoryKeepsOrder, PTL DEF HistorySpec

(***************************************************************************)
(* Until time alone swaps two neighbours, which only rounding of supports  *)
(* stored at different times can do, the list is sorted and in step with   *)
(* the ranks through every rise, fall, eviction and maintenance, for every *)
(* decay, length, bar and batch; types, peaks and times are right for      *)
(* ever.                                                                   *)
(***************************************************************************)
THEOREM RankingAlwaysSound == HistorySpec => []RankingSound
<1>1. IInv /\ Ordered => RankConsistency
  <2> SUFFICES ASSUME IInv, Ordered PROVE RankConsistency
    OBVIOUS
  <2>1. Consistent(ranking) /\ ListedRanks = Listed(ranking)
    BY DEF Ordered, InOrder, ListedRanks, Listed
  <2>2. \A s \in StatementIds : RankOf(s) # -1 => RankOf(s) = ranking.rank[s]
    BY DEF RankOf, GetStatementRank
  <2> QED
    BY <2>1, <2>2 DEF Consistent, RankConsistency, StatementAt
<1>2. IInv /\ Ordered => SortedBySupport
  <2> SUFFICES ASSUME IInv, Ordered PROVE SortedBySupport
    OBVIOUS
  <2>1. SortedOver(ranking, CurrentSupports(statementSupport, now), Listed(ranking))
    BY DEF Ordered, InOrder
  <2>2. ranking \in RankingType /\ DOMAIN statementSupport = StatementIds
    BY DEF IInv, TypeOK
  <2>3. \A i \in Listed(ranking) : ranking.statementRankings[i] \in StatementIds
    BY <2>2, RankingIs
  <2> QED
    BY <2>1, <2>2, <2>3
       DEF SortedOver, CurrentSupports, SortedBySupport, ListedRanks, Listed, Strength,
           StatementAt
<1>3. IInv => TypeOK /\ NothingFromTheFuture
  BY DEF IInv
<1>4. IInv => PeakCoversRank
  BY PeakCovers
<1>5. HInv => RankingSound
  BY <1>1, <1>2, <1>3, <1>4 DEF HInv, RankingSound
<1> QED
  BY <1>5, OrderedInvariant, PTL

(***************************************************************************)
(* Until then a call puts the statement it moves last where it belongs,    *)
(* and no best rank is ever lost.                                          *)
(***************************************************************************)
THEOREM PlacesAlwaysEarned == HistorySpec => PlacesAreEarned
<1> DEFINE Placed == \A s \in StatementIds :
                       swapped \/ (RankOf(s) # -1 \/ RightlyLeftOut(s))' \/ ~MovedLast(s)
<1>1. ASSUME IInv, Ordered, NEW s \in StatementIds, MovedLast(s)
      PROVE  (RankOf(s) # -1 \/ RightlyLeftOut(s))'
  <2>1. Effect /\ Ordered' /\ Earned(ranking', statementSupport', s) /\ now' = now
    <3>1. ASSUME NEW initialSupport \in InitialSupports, s = statementCount, Add(initialSupport)
          PROVE  Effect /\ Ordered' /\ Earned(ranking', statementSupport', s) /\ now' = now
      <4>1. now' = now
        BY <3>1 DEF Add
      <4> QED
        BY <1>1, <3>1, <4>1, AddEffect
    <3>2. ASSUME NEW changes \in Batches, changes # <<>>, Adjust(changes),
                 changes[Len(changes)].statementId = s
          PROVE  Effect /\ Ordered' /\ Earned(ranking', statementSupport', s) /\ now' = now
      <4>1. now' = now
        BY <3>2 DEF Adjust
      <4> QED
        BY <1>1, <3>2, <4>1, AdjustEffect
    <3> QED
      BY <1>1, <3>1, <3>2 DEF MovedLast
  <2>2. ranking' \in RankingType /\ statementSupport' \in [StatementIds -> Support]
    BY <2>1 DEF Effect, IInv, TypeOK
  <2>3. \A i \in Listed(ranking') : ranking'.statementRankings[i] \in StatementIds
    BY <2>2, RankingIs
  <2>4. CASE ranking'.rank[s] # -1
    <3>1. ranking'.rank[s] \in Listed(ranking')
      BY <1>1, <2>1, <2>4 DEF Ordered, InOrder, Consistent
    <3>2. ranking'.rank[s] < ranking'.rankedCount
      BY <2>2, <3>1, RankingIs DEF Listed
    <3>3. GetStatementRank(ranking', s) # -1
      BY <2>4, <3>2 DEF GetStatementRank
    <3> QED
      BY <3>3 DEF RankOf
  <2>5. CASE ranking'.rank[s] = -1
    <3>1. LeftOut(ranking', CurrentSupports(statementSupport', now), s)
      BY <2>1, <2>5 DEF Earned
    <3>2. /\ CurrentSupports(statementSupport', now)[s] = CurrentSupport(statementSupport'[s], now')
          /\ \A i \in Listed(ranking') :
               CurrentSupports(statementSupport', now)[ranking'.statementRankings[i]]
                 = CurrentSupport(statementSupport'[ranking'.statementRankings[i]], now')
      BY <2>1, <2>2, <2>3 DEF CurrentSupports
    <3>3. RightlyLeftOut(s)'
      BY <3>1, <3>2
         DEF LeftOut, RightlyLeftOut, Strength, StatementAt, ListedRanks, Listed
    <3> QED
      BY <3>3
  <2> QED
    BY <2>4, <2>5
<1>2. HInv /\ [HistoryNext]_historyVars => [Placed]_historyVars
  BY <1>1 DEF HInv
<1>3. HistorySpec => [][Placed]_historyVars
  BY <1>2, OrderedInvariant, PTL DEF HistorySpec
<1>4. HistorySpec => PeakNeverWorsens
  <2>1. HistorySpec => Spec
    BY HistoryStep, PTL DEF HistorySpec, HistoryInit, Spec
  <2> QED
    BY <2>1, PeakNeverLost
<1> QED
  BY <1>3, <1>4 DEF PlacesAreEarned, StrongIsRanked
-----------------------------------------------------------------------------
(***************************************************************************)
(* The decay.  Statements only assumes that an amount fades and keeps its  *)
(* sign; here approxDecay itself is shown to do so.  The twenty rounds are *)
(* a loop over a value with a count of its bits and of the bits it is to   *)
(* be shifted back by: InWord(v) is the invariant of that loop for the     *)
(* magnitude v.  A multiplier is below 2^DECAY_MULTIPLIER_BITS and shifts  *)
(* the value back by as much, so no round makes the shifted value larger,  *)
(* and the shift before a multiplication makes room for its bits.          *)
(***************************************************************************)

(* The powers of two are what their recursive definition says. *)
LEMMA TwoToStep ==
  /\ TwoTo[0] = 1
  /\ \A n \in Nat : TwoTo[n] \in Nat \ {0} /\ TwoTo[n + 1] = 2 * TwoTo[n]
<1> DEFINE Equation(f) == f = [n \in Nat |-> IF n = 0 THEN 1 ELSE 2 * f[n - 1]]
           Positive == Nat \ {0}
           Run(n, g) == IsRun(g, Positive, 1, n, [i \in 1..n |-> [x \in Positive |-> 2 * x]])
           run == [n \in Nat |-> CHOOSE g : Run(n, g)]
           all == [n \in Nat |-> run[n][n]]
<1>1. ASSUME NEW n \in Nat
      PROVE  /\ run[n] \in [0..n -> Positive] /\ run[n][0] = 1
             /\ \A i \in 1..n : run[n][i] = 2 * run[n][i - 1]
  <2> DEFINE step == [i \in 1..n |-> [x \in Positive |-> 2 * x]]
  <2>1. PICK g : IsRun(g, Positive, 1, n, step)
    <3>1. IsLoop(Positive, 1, n, step)
      BY DEF IsLoop
    <3> HIDE DEF step, Positive
    <3> QED
      BY <3>1, LoopHasRun
  <2>2. Run(n, run[n])
    <3>1. Run(n, g)
      BY <2>1
    <3> HIDE DEF Run
    <3> QED
      BY <3>1
  <2>3. IsRun(run[n], Positive, 1, n, step)
    BY <2>2
  <2> HIDE DEF run
  <2>4. run[n] \in [0..n -> Positive] /\ run[n][0] = 1
        /\ \A i \in 1..n : run[n][i] = step[i][run[n][i - 1]]
    BY <2>3 DEF IsRun
  <2>5. ASSUME NEW i \in 1..n PROVE run[n][i] = 2 * run[n][i - 1]
    <3>1. run[n][i - 1] \in Positive
      BY <2>4
    <3> QED
      BY <2>4, <3>1
  <2> QED
    BY <2>4, <2>5
<1>2. ASSUME NEW n \in Nat, NEW m \in Nat, n <= m
      PROVE  run[m][n] = run[n][n]
  <2> HIDE DEF run
  <2> DEFINE S == {i \in 0..n : run[m][i] = run[n][i]}
  <2>1. 0 \in S
    BY <1>1
  <2>2. ASSUME NEW i \in 1..n, i - 1 \in S
        PROVE  i \in S
    <3>1. i \in 1..m /\ i \in 0..n
      BY <1>2
    <3>2. run[m][i - 1] = run[n][i - 1]
      BY <2>2
    <3>3. run[m][i] = 2 * run[m][i - 1]
      BY <1>1, <3>1
    <3>4. run[n][i] = 2 * run[n][i - 1]
      BY <1>1
    <3> QED
      BY <3>1, <3>2, <3>3, <3>4
  <2>3. 0..n \subseteq S
    <3> HIDE DEF S
    <3> QED
      BY <2>1, <2>2, IntervalInduction
  <2> QED
    BY <2>3
<1>3. Equation(all)
  <2> HIDE DEF run
  <2>1. ASSUME NEW n \in Nat
        PROVE  all[n] = IF n = 0 THEN 1 ELSE 2 * all[n - 1]
    <3>1. CASE n = 0
      BY <1>1, <3>1
    <3>2. CASE n # 0
      <4>1. n - 1 \in Nat /\ n - 1 <= n /\ n \in 1..n
        BY <3>2
      <4>2. run[n][n] = 2 * run[n][n - 1]
        BY <1>1, <4>1
      <4>3. run[n][n - 1] = run[n - 1][n - 1]
        BY <1>2, <4>1
      <4> QED
        BY <3>2, <4>1, <4>2, <4>3
    <3> QED
      BY <3>1, <3>2
  <2>2. all = [n \in Nat |-> all[n]]
    OBVIOUS
  <2> HIDE DEF all
  <2> QED
    BY <2>1, <2>2
<1>4. Equation(TwoTo)
  <2> HIDE DEF all
  <2> QED
    BY <1>3 DEF TwoTo
<1>5. TwoTo[0] = 1 /\ \A n \in Nat : TwoTo[n + 1] = 2 * TwoTo[n]
  <2>1. \A n \in Nat : n + 1 # 0 /\ n + 1 \in Nat /\ (n + 1) - 1 = n
    OBVIOUS
  <2>2. 0 \in Nat
    OBVIOUS
  <2>3. \A n \in Nat : TwoTo[n] = IF n = 0 THEN 1 ELSE 2 * TwoTo[n - 1]
    BY <1>4
  <2> QED
    BY <2>1, <2>2, <2>3
<1>6. ASSUME NEW n \in Nat
      PROVE  TwoTo[n] \in Nat \ {0}
  <2> DEFINE S == {i \in 0..n : TwoTo[i] \in Nat \ {0}}
  <2>1. 0 \in S
    BY <1>5
  <2>2. ASSUME NEW i \in 1..n, i - 1 \in S
        PROVE  i \in S
    <3>1. TwoTo[(i - 1) + 1] = 2 * TwoTo[i - 1] /\ (i - 1) + 1 = i
      BY <1>5
    <3> QED
      BY <2>2, <3>1
  <2>3. 0..n \subseteq S
    <3> HIDE DEF S
    <3> QED
      BY <2>1, <2>2, IntervalInduction
  <2> QED
    BY <2>3
<1> QED
  BY <1>5, <1>6

(* Products and order. *)
LEMMA ProductOrder ==
  ASSUME NEW a \in Nat, NEW b \in Nat, NEW c \in Nat, a <= b
  PROVE  a * c \in Nat /\ b * c \in Nat /\ a * c <= b * c
<1>1. (b - a) * c \in Nat
  OBVIOUS
<1>2. b * c = a * c + (b - a) * c
  OBVIOUS
<1>3. a * c \in Nat /\ b * c \in Nat
  OBVIOUS
<1> QED
  BY <1>1, <1>2, <1>3

LEMMA ProductCancels ==
  ASSUME NEW a \in Nat, NEW b \in Nat, NEW c \in Nat \ {0}
  PROVE  /\ a * c <= b * c => a <= b
         /\ a * c < b * c => a < b
<1>1. CASE b <= a
  <2>1. b * c <= a * c /\ a * c \in Nat /\ b * c \in Nat
    BY <1>1, ProductOrder
  <2>2. b # a => (b + 1) * c <= a * c
    BY <1>1, ProductOrder
  <2>3. (b + 1) * c = b * c + c
    OBVIOUS
  <2> QED
    BY <1>1, <2>1, <2>2, <2>3
<1>2. CASE a < b
  BY <1>2
<1> QED
  BY <1>1, <1>2

LEMMA TwoToSum ==
  ASSUME NEW a \in Nat, NEW b \in Nat
  PROVE  TwoTo[a + b] = TwoTo[a] * TwoTo[b]
<1> DEFINE S == {i \in 0..b : TwoTo[a + i] = TwoTo[a] * TwoTo[i]}
<1>1. 0 \in S
  BY TwoToStep
<1>2. ASSUME NEW i \in 1..b, i - 1 \in S
      PROVE  i \in S
  <2>1. PICK x, y, z : x = TwoTo[a] /\ y = TwoTo[i - 1] /\ z = TwoTo[a + (i - 1)]
    OBVIOUS
  <2>2. x \in Nat /\ y \in Nat /\ z = x * y
    BY <1>2, <2>1, TwoToStep
  <2>3. TwoTo[i] = 2 * y
    <3>1. i - 1 \in Nat /\ (i - 1) + 1 = i
      OBVIOUS
    <3> QED
      BY <2>1, <3>1, TwoToStep
  <2>4. TwoTo[a + i] = 2 * z
    <3>1. a + (i - 1) \in Nat /\ (a + (i - 1)) + 1 = a + i
      OBVIOUS
    <3> QED
      BY <2>1, <3>1, TwoToStep
  <2>5. 2 * (x * y) = x * (2 * y)
    BY <2>2
  <2> QED
    BY <2>1, <2>2, <2>3, <2>4, <2>5
<1>3. 0..b \subseteq S
  <2> HIDE DEF S
  <2> QED
    BY <1>1, <1>2, IntervalInduction
<1> QED
  BY <1>3

(* A shift to the right rounds the quotient down. *)
LEMMA ShiftIsQuotient ==
  ASSUME NEW v \in Nat, NEW n \in Nat, NEW q, q = ShiftRight(v, n)
  PROVE  q \in Nat /\ q * TwoTo[n] <= v /\ v < (q + 1) * TwoTo[n]
<1>1. PICK d \in Nat \ {0} : d = TwoTo[n]
  BY TwoToStep
<1>2. q = v \div d
  BY <1>1 DEF ShiftRight
<1>3. q \in Nat /\ d * q <= v /\ v < d * q + d
  BY <1>1, <1>2
<1>4. q * d = d * q /\ (q + 1) * d = d * q + d
  BY <1>3
<1> QED
  BY <1>1, <1>3, <1>4

(* A factor of a word and a factor of a multiplier fit both together. *)
LEMMA ProductFits ==
  ASSUME NEW x \in Nat, NEW m \in Nat, NEW u \in Nat, NEW to \in Nat \ {0},
         NEW tk \in Nat, NEW tb \in Nat \ {0},
         x * to <= u, u < tk * to, m <= tb
  PROVE  x * m \in Nat /\ x * m < tk * tb
<1>1. /\ x * to \in Nat /\ tk * to \in Nat /\ x * m \in Nat
      /\ x * tb \in Nat /\ tk * tb \in Nat
  OBVIOUS
<1>2. x < tk
  <2>1. x * to < tk * to
    BY <1>1
  <2> QED
    BY <2>1, ProductCancels
<1>3. x * m <= x * tb
  <2>1. m * x <= tb * x
    BY ProductOrder
  <2>2. m * x = x * m /\ tb * x = x * tb
    OBVIOUS
  <2> QED
    BY <2>1, <2>2
<1>4. (x + 1) * tb <= tk * tb
  BY <1>2, ProductOrder
<1>5. (x + 1) * tb = x * tb + tb
  OBVIOUS
<1> QED
  BY <1>1, <1>3, <1>4, <1>5

(* What is multiplied by less than it is shifted by becomes no larger. *)
LEMMA ProductShrinks ==
  ASSUME NEW x \in Nat, NEW m \in Nat, NEW u \in Nat, NEW v \in Nat,
         NEW to \in Nat \ {0}, NEW tb \in Nat, NEW ts \in Nat, NEW tt \in Nat,
         x * to <= u, u <= v * tt, m <= tb, ts * to = tt * tb
  PROVE  x * m <= v * ts
<1>1. PICK xt, vt, xm, vs \in Nat :
        xt = x * to /\ vt = v * tt /\ xm = x * m /\ vs = v * ts
  OBVIOUS
<1>2. xm * to \in Nat /\ xt * tb \in Nat /\ vt * tb \in Nat /\ vs * to \in Nat
  OBVIOUS
<1>3. xm * to <= xt * tb
  <2>1. m * xt <= tb * xt
    BY ProductOrder
  <2>2. m * xt = xm * to
    <3>1. xm * to = x * m * to /\ m * xt = m * (x * to)
      BY <1>1
    <3>2. x * m * to = m * (x * to)
      OBVIOUS
    <3> QED
      BY <3>1, <3>2
  <2>3. tb * xt = xt * tb
    OBVIOUS
  <2> QED
    BY <2>1, <2>2, <2>3
<1>4. xt * tb <= vt * tb
  BY <1>1, ProductOrder
<1>5. vt * tb = vs * to
  <2>1. vt * tb = v * (tt * tb)
    <3>1. v * tt * tb = v * (tt * tb)
      OBVIOUS
    <3> QED
      BY <1>1, <3>1
  <2>2. vs * to = v * (ts * to)
    <3>1. v * ts * to = v * (ts * to)
      OBVIOUS
    <3> QED
      BY <1>1, <3>1
  <2> QED
    BY <2>1, <2>2
<1>6. xm * to <= vs * to
  BY <1>2, <1>3, <1>4, <1>5
<1> QED
  BY <1>1, <1>6, ProductCancels

(* The bits of a positive number that fits the word. *)
LEMMA BitLengthFits ==
  ASSUME NEW v \in Nat, v # 0, v < TwoTo[UINT_BITS]
  PROVE  BitLength(v) \in 1..UINT_BITS /\ v < TwoTo[BitLength(v)]
<1> DEFINE S == {n \in 0..UINT_BITS : v < TwoTo[n]}
<1>1. UINT_BITS \in Nat /\ UINT_BITS \in S
  BY DecayTableAssumption
<1>2. PICK n \in S : \A k \in S : n <= k
  <2>1. PICK low \in Int, high \in Int : low = 0 /\ high = UINT_BITS
    BY <1>1
  <2>2. S \in SUBSET (low..high) /\ S # {}
    BY <1>1, <2>1
  <2> HIDE DEF S
  <2> QED
    BY <2>2, LeastOfInterval
<1>3. n # 0
  BY TwoToStep
<1>4. n \in 1..UINT_BITS /\ n - 1 \in 0..UINT_BITS /\ n - 1 \notin S /\ v < TwoTo[n]
  <2>1. n \in 0..UINT_BITS /\ v < TwoTo[n]
    BY <1>2
  <2>2. n - 1 \notin S
    <3> HIDE DEF S
    <3> QED
      BY <1>1, <1>2, <2>1
  <2> QED
    BY <1>1, <1>3, <2>1, <2>2
<1>5. TwoTo[n - 1] <= v
  <2>1. TwoTo[n - 1] \in Nat
    BY <1>4, TwoToStep
  <2> QED
    BY <1>4, <2>1
<1>6. \E k \in 1..UINT_BITS : TwoTo[k - 1] <= v /\ v < TwoTo[k]
  BY <1>4, <1>5
<1> QED
  BY <1>6 DEF BitLength

(* A round's value fits its bits, and is at most the magnitude once the    *)
(* shift that is due is made.                                              *)
InWord(v) ==
  {acc \in [value : Nat, bitsUsed : 1..UINT_BITS, toShift : Nat, elapsed : Nat] :
     /\ acc.value < TwoTo[acc.bitsUsed]
     /\ acc.value <= v * TwoTo[acc.toShift]}

LEMMA MultipliersType ==
  /\ Len(DecayMultipliers) \in Nat
  /\ \A i \in 1..Len(DecayMultipliers) :
       /\ DecayMultipliers[i].seconds = TwoTo[Len(DecayMultipliers) - i]
       /\ DecayMultipliers[i].seconds \in Nat
       /\ DecayMultipliers[i].multiplier \in Nat
       /\ DecayMultipliers[i].multiplier <= TwoTo[DECAY_MULTIPLIER_BITS]
<1>1. Len(DecayMultipliers) \in Nat
      /\ \A i \in 1..Len(DecayMultipliers) :
           DecayMultipliers[i] \in [seconds : Nat, multiplier : Nat]
  <2> DEFINE Entries == [seconds : Nat, multiplier : Nat]
  <2>1. DecayMultipliers \in Seq(Entries)
    BY DecayTableAssumption
  <2> HIDE DEF Entries
  <2>2. Len(DecayMultipliers) \in Nat
        /\ \A i \in 1..Len(DecayMultipliers) : DecayMultipliers[i] \in Entries
    BY <2>1
  <2> QED
    BY <2>2 DEF Entries
<1>2. TwoTo[DECAY_MULTIPLIER_BITS] \in Nat
  BY DecayTableAssumption, TwoToStep
<1> QED
  BY <1>1, <1>2, DecayTableAssumption

(* One multiplication stays in the word and makes the amount no larger. *)
LEMMA ApplyMultiplierFits ==
  ASSUME NEW v \in Nat, NEW acc \in InWord(v), NEW i \in 1..Len(DecayMultipliers)
  PROVE  ApplyMultiplier(acc, DecayMultipliers[i]) \in InWord(v)
<1>1. PICK entry : entry = DecayMultipliers[i]
  OBVIOUS
<1>2. PICK m, seconds \in Nat :
        m = entry.multiplier /\ m <= TwoTo[DECAY_MULTIPLIER_BITS] /\ seconds = entry.seconds
  BY <1>1, MultipliersType
<1>3. PICK b, w \in Nat : b = DECAY_MULTIPLIER_BITS /\ w = UINT_BITS /\ b # 0 /\ w > b
  BY DecayTableAssumption
<1>4. PICK u, n, t, e \in Nat :
        /\ acc = [value |-> u, bitsUsed |-> n, toShift |-> t, elapsed |-> e]
        /\ n \in 1..w /\ u < TwoTo[n] /\ u <= v * TwoTo[t]
  <2>1. acc = [value |-> acc.value, bitsUsed |-> acc.bitsUsed,
               toShift |-> acc.toShift, elapsed |-> acc.elapsed]
        /\ acc.value \in Nat /\ acc.bitsUsed \in 1..w /\ acc.toShift \in Nat
        /\ acc.elapsed \in Nat
    BY <1>3 DEF InWord
  <2>2. acc.value < TwoTo[acc.bitsUsed] /\ acc.value <= v * TwoTo[acc.toShift]
    BY DEF InWord
  <2>3. acc.bitsUsed \in Nat
    BY <1>3, <2>1
  <2> QED
    BY <2>1, <2>2, <2>3
<1>5. PICK o \in Nat : o = IF n + b > w THEN n + b - w ELSE 0
  <2>1. n + b > w => n + b - w \in Nat
    BY <1>3, <1>4
  <2> QED
    BY <2>1
<1>6. PICK k \in Nat, s \in Nat : k + o = n /\ s + o = t + b /\ k + b \in 1..w
  <2>1. n - o \in Nat /\ t + b - o \in Nat /\ (n - o) + b \in 1..w
    BY <1>3, <1>4, <1>5
  <2>2. PICK k \in Nat, s \in Nat : k = n - o /\ s = t + b - o
    BY <2>1
  <2>3. k + o = n /\ s + o = t + b /\ k + b \in 1..w
    BY <2>1, <2>2
  <2> QED
    BY <2>3
<1>7. PICK x \in Nat : x = ShiftRight(u, o) /\ x * TwoTo[o] <= u
  BY ShiftIsQuotient
<1>8. CASE e < seconds
  <2>1. ApplyMultiplier(acc, entry) = acc
    BY <1>2, <1>4, <1>8 DEF ApplyMultiplier
  <2> QED
    BY <1>1, <2>1
<1>9. CASE ~(e < seconds)
  <2>1. PICK next : next = [value |-> x * m, bitsUsed |-> k + b, toShift |-> s,
                            elapsed |-> e - seconds]
    OBVIOUS
  <2>2. ApplyMultiplier(acc, entry) = next
    <3>1. ApplyMultiplier(acc, entry) =
            [value |-> x * m, bitsUsed |-> n + b - o, toShift |-> t + b - o,
             elapsed |-> e - seconds]
      <4>1. /\ acc.value = u /\ acc.bitsUsed = n /\ acc.toShift = t /\ acc.elapsed = e
            /\ entry.multiplier = m /\ entry.seconds = seconds
            /\ o = IF n + b > w THEN n + b - w ELSE 0
        BY <1>2, <1>4, <1>5
      <4> QED
        BY <1>3, <1>7, <1>9, <4>1 DEF ApplyMultiplier
    <3>2. n + b - o = k + b /\ t + b - o = s
      BY <1>6
    <3> QED
      BY <2>1, <3>1, <3>2
  <2>3. PICK to, tb, tk, ts, tt \in Nat \ {0} :
          /\ to = TwoTo[o] /\ tb = TwoTo[b] /\ tk = TwoTo[k] /\ ts = TwoTo[s] /\ tt = TwoTo[t]
    BY TwoToStep
  <2>4. TwoTo[n] = tk * to /\ TwoTo[k + b] = tk * tb
    BY <1>6, <2>3, TwoToSum
  <2>5. ts * to = tt * tb
    <3>1. TwoTo[s + o] = ts * to /\ TwoTo[t + b] = tt * tb
      BY <2>3, TwoToSum
    <3> QED
      BY <1>6, <3>1
  <2>6. x * m \in Nat /\ x * m < tk * tb
    <3>1. x * to <= u /\ u < tk * to /\ m <= tb
      BY <1>2, <1>3, <1>4, <1>7, <2>3, <2>4
    <3> QED
      BY <3>1, ProductFits
  <2>7. x * m <= v * ts
    <3>1. x * to <= u /\ u <= v * tt /\ m <= tb
      BY <1>2, <1>3, <1>4, <1>7, <2>3
    <3> QED
      BY <2>5, <3>1, ProductShrinks
  <2>8. e - seconds \in Nat
    BY <1>9
  <2>9. next \in [value : Nat, bitsUsed : 1..UINT_BITS, toShift : Nat, elapsed : Nat]
    BY <1>3, <1>6, <2>1, <2>6, <2>8
  <2>10. next.value < TwoTo[next.bitsUsed] /\ next.value <= v * TwoTo[next.toShift]
    BY <2>1, <2>3, <2>4, <2>6, <2>7
  <2> QED
    BY <1>1, <2>2, <2>9, <2>10 DEF InWord
<1> QED
  BY <1>8, <1>9

(* The rounds run, each from the one before it. *)
LEMMA RoundsRun ==
  ASSUME NEW v \in Nat, v # 0, v < TwoTo[UINT_BITS], NEW elapsed \in Nat,
         NEW round, round = Rounds(v, elapsed)
  PROVE  /\ round \in [0..Len(DecayMultipliers) -> InWord(v)]
         /\ round[0].elapsed = elapsed
         /\ \A i \in 1..Len(DecayMultipliers) :
              round[i] = ApplyMultiplier(round[i - 1], DecayMultipliers[i])
<1> DEFINE first == [value |-> v, bitsUsed |-> BitLength(v), toShift |-> 0,
                     elapsed |-> elapsed]
           n == Len(DecayMultipliers)
           D == InWord(v)
           step == [i \in 1..n |-> [acc \in D |-> ApplyMultiplier(acc, DecayMultipliers[i])]]
           Equation(f) == f = [i \in 0..n |->
                                 IF i = 0 THEN first
                                 ELSE ApplyMultiplier(f[i - 1], DecayMultipliers[i])]
           after == CHOOSE f : Equation(f)
<1>1. n \in Nat
  BY MultipliersType
<1>2. first \in D
  <2>1. BitLength(v) \in 1..UINT_BITS /\ v < TwoTo[BitLength(v)] /\ TwoTo[0] = 1
    BY BitLengthFits, TwoToStep
  <2>2. v <= v * 1
    OBVIOUS
  <2> QED
    BY <2>1, <2>2 DEF InWord
<1>3. step \in [1..n -> [D -> D]]
  BY ApplyMultiplierFits
<1>4. PICK g : IsRun(g, D, first, n, step)
  <2>1. IsLoop(D, first, n, step)
    BY <1>1, <1>2, <1>3 DEF IsLoop
  <2> HIDE DEF step, n, first, D
  <2> QED
    BY <2>1, LoopHasRun
<1>5. \A i \in 1..n : g[i] = ApplyMultiplier(g[i - 1], DecayMultipliers[i])
  <2> SUFFICES ASSUME NEW i \in 1..n
               PROVE  g[i] = ApplyMultiplier(g[i - 1], DecayMultipliers[i])
    OBVIOUS
  <2>1. g[i - 1] \in D
    BY <1>1, <1>4 DEF IsRun
  <2> QED
    BY <1>4, <2>1 DEF IsRun
<1>6. Equation(g)
  <2>1. \A i \in 0..n : i # 0 => i \in 1..n
    BY <1>1
  <2> HIDE DEF n, first, D
  <2> QED
    BY <1>4, <1>5, <2>1 DEF IsRun
<1>7. Equation(after)
  BY <1>6
<1>8. round = after
  BY DEF Rounds
<1>9. after[0] = first
      /\ \A i \in 1..n : after[i] = ApplyMultiplier(after[i - 1], DecayMultipliers[i])
  <2>1. 0 \in 0..n /\ \A i \in 1..n : i \in 0..n /\ i # 0
    BY <1>1
  <2> HIDE DEF after, n, first
  <2> QED
    BY <1>7, <2>1
<1>10. \A i \in 0..n : after[i] = g[i]
  <2> DEFINE S == {i \in 0..n : after[i] = g[i]}
  <2>1. 0 \in S
    <3> HIDE DEF after, first
    <3> QED
      BY <1>1, <1>4, <1>9 DEF IsRun
  <2>2. ASSUME NEW i \in 1..n, i - 1 \in S
        PROVE  i \in S
    <3> HIDE DEF after, n
    <3> QED
      BY <1>1, <1>5, <1>9, <2>2
  <2>3. 0..n \subseteq S
    <3> HIDE DEF S, n
    <3> QED
      BY <1>1, <2>1, <2>2, IntervalInduction
  <2> QED
    BY <2>3
<1>11. after \in [0..n -> D]
  <2>1. after = [i \in 0..n |-> after[i]]
    <3> HIDE DEF after, n, first
    <3> QED
      BY <1>7
  <2>2. \A i \in 0..n : g[i] \in D
    BY <1>4 DEF IsRun
  <2> HIDE DEF after, n, D
  <2> QED
    BY <1>10, <2>1, <2>2
<1> HIDE DEF after
<1> QED
  BY <1>8, <1>9, <1>11

(* A magnitude that is rounded after its shift is at most what it was. *)
LEMMA RoundedShift ==
  ASSUME NEW a \in Nat, NEW v \in Nat, NEW s \in Nat, s # 0, a <= v * TwoTo[s]
  PROVE  ShiftRight(ShiftRight(a, s - 1) + 1, 1) \in 0..v
<1>1. PICK r \in Nat : r = s - 1 /\ r + 1 = s
  <2>1. s - 1 \in Nat /\ (s - 1) + 1 = s
    OBVIOUS
  <2> QED
    BY <2>1
<1>2. PICK d \in Nat \ {0} : d = TwoTo[r] /\ TwoTo[s] = 2 * d
  BY <1>1, TwoToStep
<1>3. PICK x \in Nat : x = ShiftRight(a, r) /\ x * d <= a
  BY <1>2, ShiftIsQuotient
<1>4. x <= v + v
  <2>1. v * (2 * d) = (v + v) * d
    OBVIOUS
  <2>2. x * d \in Nat /\ (v + v) * d \in Nat /\ v + v \in Nat
    OBVIOUS
  <2>3. x * d <= (v + v) * d
    BY <1>2, <1>3, <2>1, <2>2
  <2> QED
    BY <2>2, <2>3, ProductCancels
<1>5. PICK y \in Nat : y = ShiftRight(x + 1, 1) /\ y * TwoTo[1] <= x + 1
  <2>1. x + 1 \in Nat
    OBVIOUS
  <2> QED
    BY <2>1, ShiftIsQuotient
<1>6. TwoTo[1] = 2
  <2>1. TwoTo[0 + 1] = 2 * TwoTo[0] /\ TwoTo[0] = 1
    BY TwoToStep
  <2> QED
    BY <2>1
<1>7. y <= v
  BY <1>4, <1>5, <1>6
<1> QED
  BY <1>1, <1>3, <1>5, <1>7

(* What is left of a magnitude after a fraction of a half-life. *)
LEMMA FractionFades ==
  ASSUME NEW v \in Nat, v # 0, v < TwoTo[UINT_BITS], NEW elapsed \in Nat
  PROVE  FractionalDecay(v, elapsed) \in 0..v
<1>1. PICK round : round = Rounds(v, elapsed)
  OBVIOUS
<1>2. PICK acc : acc = round[Len(DecayMultipliers)] /\ acc \in InWord(v)
  BY <1>1, RoundsRun, MultipliersType
<1>3. acc.value \in Nat /\ acc.toShift \in Nat /\ acc.value <= v * TwoTo[acc.toShift]
  BY <1>2 DEF InWord
<1>4. FractionalDecay(v, elapsed) =
        IF acc.toShift > 0
        THEN ShiftRight(ShiftRight(acc.value, acc.toShift - 1) + 1, 1)
        ELSE acc.value
  BY <1>1, <1>2 DEF FractionalDecay
<1>5. CASE acc.toShift > 0
  BY <1>3, <1>4, <1>5, RoundedShift
<1>6. CASE acc.toShift = 0
  BY <1>3, <1>4, <1>6, TwoToStep
<1> QED
  BY <1>3, <1>5, <1>6

(* The amounts a word holds, with their sign apart. *)
WordRange == -(TwoTo[UINT_BITS] - 1)..(TwoTo[UINT_BITS] - 1)

(***************************************************************************)
(* approxDecay makes no amount larger and turns no sign, whatever the      *)
(* multipliers of the table, for every amount and every time.  This is     *)
(* what SupportDecay assumes of it (DecayAssumption).                      *)
(***************************************************************************)
THEOREM DecayOnlyFades ==
  ASSUME NEW v \in WordRange, NEW t \in Nat
  PROVE  /\ v >= 0 => approxDecay(v, t) \in 0..v
         /\ v <= 0 => approxDecay(v, t) \in v..0
<1>1. PICK w \in Nat \ {0} : w = TwoTo[UINT_BITS]
  BY DecayTableAssumption, TwoToStep
<1>2. PICK m \in Nat : m = (IF v > 0 THEN v ELSE -v) /\ m < w
  <2>1. v \in Int /\ -(w - 1) <= v /\ v <= w - 1
    BY <1>1 DEF WordRange
  <2> QED
    BY <2>1
<1>3. PICK q \in Nat, rest \in Nat :
        q = t \div HALF_LIFE_SECONDS /\ rest = t % HALF_LIFE_SECONDS
  <2>1. PICK h \in Nat \ {0} : h = HALF_LIFE_SECONDS
    BY DecayTableAssumption
  <2>2. t \div h \in Nat /\ t % h \in Nat
    <3>1. t % h \in 0..h - 1
      OBVIOUS
    <3>2. t \div h \in Int /\ t = h * (t \div h) + (t % h)
      OBVIOUS
    <3>3. t \div h >= 0
      BY <3>1, <3>2
    <3> QED
      BY <3>1, <3>2, <3>3
  <2> QED
    BY <2>1, <2>2
<1>4. PICK halved \in Nat : halved = ShiftRight(m, q) /\ halved <= m
  <2>1. PICK h \in Nat, d \in Nat \ {0} : h = ShiftRight(m, q) /\ d = TwoTo[q] /\ h * d <= m
    BY ShiftIsQuotient, TwoToStep
  <2>2. 1 * h <= d * h
    BY ProductOrder
  <2>3. d * h = h * d /\ 1 * h = h /\ h * d \in Nat
    OBVIOUS
  <2> QED
    BY <2>1, <2>2, <2>3
<1>5. PICK decayed : decayed = IF halved = 0 \/ rest = 0 THEN halved
                               ELSE FractionalDecay(halved, rest)
  OBVIOUS
<1>6. decayed \in 0..m
  <2>1. CASE halved = 0 \/ rest = 0
    BY <1>4, <1>5, <2>1
  <2>2. CASE ~(halved = 0 \/ rest = 0)
    <3>1. halved # 0 /\ halved < TwoTo[UINT_BITS]
      BY <1>1, <1>2, <1>4, <2>2
    <3>2. FractionalDecay(halved, rest) \in 0..halved
      BY <3>1, FractionFades
    <3> QED
      BY <1>4, <1>5, <2>2, <3>2
  <2> QED
    BY <2>1, <2>2
<1>7. approxDecay(v, t) = IF v > 0 THEN decayed ELSE -decayed
  BY <1>2, <1>3, <1>4, <1>5 DEF approxDecay
<1>8. v \in Int
  BY <1>1 DEF WordRange
<1> QED
  BY <1>2, <1>6, <1>7, <1>8

(***************************************************************************)
(* DecayAssumption read for approxDecay: whoever takes approxDecay as the  *)
(* decay function, with amounts that fit a word, need not assume it.       *)
(***************************************************************************)
THEOREM DecayMeetsAssumption ==
  ASSUME MaxSupport < TwoTo[UINT_BITS]
  PROVE  \A v \in Supports, t \in Elapsed :
           /\ approxDecay(v, t) \in Supports
           /\ v >= 0 => approxDecay(v, t) \in 0..v
           /\ v <= 0 => approxDecay(v, t) \in v..0
<1>1. ASSUME NEW v \in Supports, NEW t \in Elapsed
      PROVE  v \in WordRange /\ t \in Nat
  <2>1. PICK w \in Nat \ {0} : w = TwoTo[UINT_BITS]
    BY DecayTableAssumption, TwoToStep
  <2> QED
    BY <2>1, DecayBoundsAssumption DEF WordRange, Supports, Elapsed
<1>2. ASSUME NEW v \in Supports, NEW t \in Elapsed
      PROVE  /\ v >= 0 => approxDecay(v, t) \in 0..v
             /\ v <= 0 => approxDecay(v, t) \in v..0
  BY <1>1, DecayOnlyFades
<1>3. ASSUME NEW v \in Supports, NEW t \in Elapsed
      PROVE  approxDecay(v, t) \in Supports
  BY <1>2, DecayBoundsAssumption DEF Supports
<1> QED
  BY <1>2, <1>3

(***************************************************************************)
(* No multiplication of the loop leaves the word, which the machine would  *)
(* answer with a revert, and no second of the remaining time is forgotten: *)
(* after round i less than the time of the i-th entry is left.             *)
(***************************************************************************)
THEOREM RoundsFitWord ==
  ASSUME NEW v \in Nat, v # 0, v < TwoTo[UINT_BITS], NEW elapsed \in 0..HALF_LIFE_SECONDS - 1
  PROVE  /\ \A i \in 0..Len(DecayMultipliers) :
              Rounds(v, elapsed)[i].value < TwoTo[UINT_BITS]
         /\ Rounds(v, elapsed)[Len(DecayMultipliers)].elapsed = 0
<1>n. PICK n \in Nat : n = Len(DecayMultipliers)
  BY MultipliersType
<1>r. PICK round : round = Rounds(v, elapsed)
  OBVIOUS
<1>0. n = Len(DecayMultipliers) /\ round = Rounds(v, elapsed)
  BY <1>n, <1>r
<1>1. /\ round \in [0..n -> InWord(v)] /\ round[0].elapsed = elapsed
      /\ \A i \in 1..n : round[i] = ApplyMultiplier(round[i - 1], DecayMultipliers[i])
  <2>1. elapsed \in Nat
    BY DecayTableAssumption
  <2> QED
    BY <1>0, <2>1, RoundsRun
<1>2. ASSUME NEW i \in 0..n
      PROVE  round[i].value < TwoTo[UINT_BITS]
  <2>1. PICK u, b \in Nat : u = round[i].value /\ b = round[i].bitsUsed
                            /\ b <= UINT_BITS /\ u < TwoTo[b]
    <3>1. round[i].value \in Nat /\ round[i].bitsUsed \in 1..UINT_BITS
          /\ round[i].value < TwoTo[round[i].bitsUsed]
      BY <1>1 DEF InWord
    <3>2. UINT_BITS \in Nat
      BY DecayTableAssumption
    <3> QED
      BY <3>1, <3>2
  <2>2. PICK more \in Nat : b + more = UINT_BITS
    <3>1. UINT_BITS - b \in Nat /\ b + (UINT_BITS - b) = UINT_BITS
      BY <2>1, DecayTableAssumption
    <3> QED
      BY <3>1
  <2>3. PICK x, y \in Nat \ {0} : x = TwoTo[b] /\ y = TwoTo[more] /\ TwoTo[UINT_BITS] = x * y
    BY <2>1, <2>2, TwoToSum, TwoToStep
  <2>4. 1 * x <= y * x
    BY <2>3, ProductOrder
  <2>5. y * x = x * y /\ 1 * x = x /\ x * y \in Nat
    BY <2>3
  <2> QED
    BY <2>1, <2>3, <2>4, <2>5
<1>3. ASSUME NEW i \in 1..n, NEW r \in Nat, r = n - i,
             round[i - 1].elapsed < TwoTo[r + 1]
      PROVE  round[i].elapsed < TwoTo[r]
  <2>1. PICK p \in Nat \ {0} : p = TwoTo[r] /\ TwoTo[r + 1] = 2 * p
                               /\ p = DecayMultipliers[i].seconds
    BY <1>0, <1>3, TwoToStep, MultipliersType
  <2>2. PICK acc : acc = round[i - 1] /\ acc.elapsed \in Nat
    <3>1. i - 1 \in 0..n
      OBVIOUS
    <3> QED
      BY <1>1, <3>1 DEF InWord
  <2>3. round[i].elapsed = IF acc.elapsed < p THEN acc.elapsed ELSE acc.elapsed - p
    <3>1. round[i] = ApplyMultiplier(acc, DecayMultipliers[i])
      BY <1>1, <2>2
    <3> QED
      BY <2>1, <3>1 DEF ApplyMultiplier
  <2> QED
    BY <1>3, <2>1, <2>2, <2>3
<1> DEFINE S == {i \in 0..n : round[i].elapsed < TwoTo[n - i]}
<1>4. 0 \in S
  <2>1. TwoTo[n] >= HALF_LIFE_SECONDS /\ TwoTo[n] \in Nat /\ HALF_LIFE_SECONDS \in Nat
    BY <1>0, DecayTableAssumption, TwoToStep
  <2>2. n - 0 = n
    OBVIOUS
  <2> QED
    BY <1>1, <2>1, <2>2
<1>5. ASSUME NEW i \in 1..n, i - 1 \in S
      PROVE  i \in S
  <2>1. PICK r \in Nat : r = n - i /\ r + 1 = n - (i - 1)
    <3>1. n - i \in Nat /\ (n - i) + 1 = n - (i - 1)
      OBVIOUS
    <3> QED
      BY <3>1
  <2> QED
    BY <1>3, <1>5, <2>1
<1>6. n \in S
  <2>1. 0..n \subseteq S
    <3> HIDE DEF S
    <3> QED
      BY <1>4, <1>5, IntervalInduction
  <2> QED
    BY <2>1
<1>7. round[n].elapsed = 0
  <2>1. round[n].elapsed \in Nat /\ n - n = 0 /\ TwoTo[0] = 1
    BY <1>1, TwoToStep DEF InWord
  <2> QED
    BY <1>6, <2>1
<1> QED
  BY <1>0, <1>2, <1>7
=============================================================================
